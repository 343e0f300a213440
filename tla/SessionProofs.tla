---------------------------- MODULE SessionProofs ----------------------------
(***************************************************************************)
(* Proofs about ConfigRun and Session, for any configurations, scripts,    *)
(* plugins, lengths and numbers of runs: who owns the strings, what is     *)
(* left in the stage cache, what the caller's context says of the reports, *)
(* and in which order operations are executed.                             *)
(*                                                                         *)
(* The invariants are preserved by every step of a run, whatever document  *)
(* it is given (RunStep); a process of Session takes such steps and a few  *)
(* of its own.                                                             *)
(***************************************************************************)
EXTENDS Session, Induction, FiniteSetTheorems

\* What a run and the caller beside it can do.
RunStep == \/ CallerCaches
           \/ \E d : CallExecuteConfig(d) \/ CallParseJson(d)
           \/ CacheStage \/ CutShort \/ RejectMalformed \/ ChangeContext
           \/ UnknownOperation \/ ExecuteOperation
           \/ EndOfCommands \/ Cleanup \/ Returned
           \/ UNCHANGED vars

LEMMA NextIsRunStep == [Next]_vars => RunStep
BY DEF Next, RunStep, Done

Steps == {"idle", "copied", "loop", "cleanup", "returned", "cut"}

\* The part of the types that the proofs need.
Typed == /\ pc \in Steps
         /\ {hasContext, reporting, memoryError, cached, callerCached, inserted, left} \subseteq BOOLEAN
         /\ allocated \in Nat /\ callerPath \in Nat /\ ownPath \in Nat
         /\ leaked \subseteq Nat \ {Null}
         /\ DOMAIN heap \subseteq 1..allocated
         /\ heap \in [DOMAIN heap -> Nat]

\* Each live block has one owner: the caller's context, the copy, or nobody.
Owned == /\ DOMAIN heap = leaked \cup ({callerPath, ownPath} \ {Null})
         /\ {callerPath, ownPath} \cap leaked = {}
         /\ callerPath = ownPath => ownPath = Null
         /\ ~running => ownPath = Null
         /\ memoryError = FALSE

HeapSound == Typed /\ Owned

-----------------------------------------------------------------------------
LEMMA FreedHeap ==
  ASSUME NEW S, NEW h \in [S -> Nat], NEW b
  PROVE  /\ Freed(h, b) \in [S \ {b} -> Nat] /\ DOMAIN Freed(h, b) = S \ {b}
         /\ \A x \in S \ {b} : Freed(h, b)[x] = h[x]
BY DEF Freed

LEMMA CopyStep ==
  ASSUME HeapSound, ~running, CopyContext, UNCHANGED <<callerPath, leaked>>
  PROVE  /\ allocated' \in Nat /\ ownPath' \in Nat
         /\ DOMAIN heap' \subseteq 1..allocated' /\ heap' \in [DOMAIN heap' -> Nat]
         /\ DOMAIN heap' = leaked' \cup ({callerPath', ownPath'} \ {Null})
         /\ {callerPath', ownPath'} \cap leaked' = {}
         /\ callerPath' = ownPath' => ownPath' = Null
         /\ memoryError' = FALSE
         /\ hasContext /\ callerPath # Null => ownPath' # Null
         /\ ownPath' # Null => ownPath' \in DOMAIN heap' /\ heap'[ownPath'] = heap[callerPath]
<1> USE DEF HeapSound, Typed, Owned, Null
<1>1. CASE hasContext /\ callerPath # Null
  <2>1. callerPath \in DOMAIN heap /\ heap[callerPath] \in Nat
    BY <1>1
  <2>2. /\ allocated' = allocated + 1 /\ ownPath' = allocated + 1
        /\ heap' = With(heap, allocated + 1, heap[callerPath])
        /\ memoryError' = FALSE
    BY <1>1, <2>1, Zenon DEF CopyContext, Dead
  <2>3. /\ heap' \in [DOMAIN heap \cup {allocated + 1} -> Nat]
        /\ DOMAIN heap' = DOMAIN heap \cup {allocated + 1}
        /\ heap'[allocated + 1] = heap[callerPath]
    <3>1. heap \in [DOMAIN heap -> Nat]
      OBVIOUS
    <3> HIDE DEF HeapSound, Typed, Owned
    <3> DEFINE f == heap[callerPath]
    <3>2. f \in Nat
      BY <2>1
    <3> HIDE DEF f
    <3>3. heap' = With(heap, allocated + 1, f)
      BY <2>2 DEF f
    <3>4. /\ heap' \in [DOMAIN heap \cup {allocated + 1} -> Nat]
          /\ DOMAIN heap' = DOMAIN heap \cup {allocated + 1}
          /\ heap'[allocated + 1] = f
      BY <3>1, <3>2, <3>3 DEF With
    <3> QED BY <3>4 DEF f
  <2>4. ownPath = Null
    OBVIOUS
  <2>5. allocated + 1 \notin 1..allocated /\ allocated + 1 \in Nat \ {0} /\ 1..allocated \subseteq 1..allocated + 1
    OBVIOUS
  <2>6. leaked \subseteq 1..allocated /\ callerPath \in 1..allocated
    BY <1>1, <2>1
  <2>7. DOMAIN heap = leaked \cup {callerPath} /\ callerPath \notin leaked
    BY <1>1, <2>4
  <2>8. /\ DOMAIN heap' = leaked' \cup ({callerPath', ownPath'} \ {Null})
        /\ {callerPath', ownPath'} \cap leaked' = {}
    <3> HIDE DEF HeapSound, Typed, Owned
    <3> QED BY <1>1, <2>2, <2>3, <2>5, <2>6, <2>7
  <2>9. DOMAIN heap' \subseteq 1..allocated'
    BY <2>2, <2>3, <2>5
  <2> QED BY <1>1, <2>2, <2>3, <2>5, <2>6, <2>8, <2>9
<1>2. CASE ~(hasContext /\ callerPath # Null)
  BY <1>2 DEF CopyContext
<1> QED BY <1>1, <1>2

LEMMA ReportStep ==
  ASSUME HeapSound, running, NEW opened \in BOOLEAN, OpenReport(opened), UNCHANGED <<callerPath, leaked>>
  PROVE  /\ allocated' \in Nat /\ ownPath' \in Nat
         /\ DOMAIN heap' \subseteq 1..allocated' /\ heap' \in [DOMAIN heap' -> Nat]
         /\ DOMAIN heap' = leaked' \cup ({callerPath', ownPath'} \ {Null})
         /\ {callerPath', ownPath'} \cap leaked' = {}
         /\ callerPath' = ownPath' => ownPath' = Null
         /\ memoryError' = FALSE
<1> USE DEF HeapSound, Typed, Owned, Null
<1> DEFINE file == IF ownPath = Null THEN allocated + 1 ELSE heap[ownPath]
<1>1. CASE reporting /\ opened
  <2>1. file \in Nat
    OBVIOUS
  <2>2. /\ allocated' = allocated + 1 /\ ownPath' = allocated + 1
        /\ heap' = With(Freed(heap, ownPath), allocated + 1, file)
        /\ memoryError' = FALSE
    BY <1>1 DEF OpenReport, Dead
  <2> HIDE DEF file
  <2>3. /\ Freed(heap, ownPath) \in [DOMAIN heap \ {ownPath} -> Nat]
    BY FreedHeap
  <2>4. /\ heap' \in [(DOMAIN heap \ {ownPath}) \cup {allocated + 1} -> Nat]
        /\ DOMAIN heap' = (DOMAIN heap \ {ownPath}) \cup {allocated + 1}
    <3> HIDE DEF HeapSound, Typed, Owned
    <3>1. PICK h : h = Freed(heap, ownPath) /\ h \in [DOMAIN heap \ {ownPath} -> Nat]
      BY <2>3
    <3>2. heap' = With(h, allocated + 1, file)
      BY <2>2, <3>1
    <3> QED BY <2>1, <3>1, <3>2 DEF With
  <2>5. allocated + 1 \notin 1..allocated /\ allocated + 1 \in Nat \ {0} /\ 1..allocated \subseteq 1..allocated + 1
    OBVIOUS
  <2>6. leaked \subseteq 1..allocated /\ callerPath \in 0..allocated
    OBVIOUS
  <2>7. DOMAIN heap \ {ownPath} = leaked \cup ({callerPath} \ {Null}) /\ callerPath \notin leaked
    OBVIOUS
  <2>8. /\ DOMAIN heap' = leaked' \cup ({callerPath', ownPath'} \ {Null})
        /\ {callerPath', ownPath'} \cap leaked' = {}
    <3> HIDE DEF HeapSound, Typed, Owned
    <3> QED BY <2>2, <2>4, <2>5, <2>6, <2>7
  <2>9. DOMAIN heap' \subseteq 1..allocated'
    BY <2>2, <2>4, <2>5
  <2>10. allocated' \in Nat /\ ownPath' \in Nat /\ callerPath' # ownPath'
    BY <2>2, <2>6
  <2>11. heap' \in [DOMAIN heap' -> Nat]
    BY <2>4, Zenon
  <2> QED BY <2>2, <2>8, <2>9, <2>10, <2>11
<1>2. CASE ~(reporting /\ opened)
  BY <1>2 DEF OpenReport
<1> QED BY <1>1, <1>2

\* What is the same after a step that leaves the heap alone.
LEMMA HeapKept ==
  ASSUME HeapSound, UNCHANGED <<callerPath, ownPath, heap, allocated, memoryError, leaked>>,
         running' \/ ownPath = Null,
         pc' \in Steps, {hasContext', reporting', cached', callerCached', inserted', left'} \subseteq BOOLEAN
  PROVE  HeapSound'
BY DEF HeapSound, Typed, Owned

\* The types and the ownership are preserved by every step.
LEMMA HeapStep == HeapSound /\ RunStep => HeapSound'
<1> SUFFICES ASSUME HeapSound, RunStep PROVE HeapSound'
  OBVIOUS
<1>t. /\ {hasContext, reporting, memoryError, cached, callerCached, inserted, left} \subseteq BOOLEAN
      /\ pc \in Steps /\ (~running => ownPath = Null)
  BY DEF HeapSound, Typed, Owned
<1>1. CASE CallerCaches
  BY <1>1, <1>t, HeapKept DEF CallerCaches, memory, caller, running
<1>2. ASSUME NEW d, CallExecuteConfig(d) PROVE HeapSound'
  <2>1. CASE d = NotArray
    BY <1>2, <2>1, <1>t, HeapKept DEF CallExecuteConfig, Call, stage, running, Steps
  <2>2. CASE d # NotArray
    <3>1. /\ CopyContext /\ ~running /\ running' /\ pc' \in Steps
          /\ UNCHANGED <<callerPath, leaked, hasContext, cached, callerCached, inserted, left>>
          /\ reporting' \in BOOLEAN
      BY <1>2, <2>2, <1>t DEF CallExecuteConfig, Call, stage, running, Steps
    <3> QED BY <3>1, <1>t, CopyStep DEF HeapSound, Typed, Owned
  <2> QED BY <2>1, <2>2
<1>3. ASSUME NEW d, CallParseJson(d) PROVE HeapSound'
  <2>1. /\ CopyContext /\ ~running /\ running' /\ pc' \in Steps
        /\ UNCHANGED <<callerPath, leaked, hasContext, cached, callerCached, inserted, left>>
        /\ reporting' \in BOOLEAN
    BY <1>3, <1>t DEF CallParseJson, Call, stage, running, Steps
  <2> QED BY <2>1, <1>t, CopyStep DEF HeapSound, Typed, Owned
<1>4. CASE CacheStage
  BY <1>4, <1>t, HeapKept DEF CacheStage, memory, caller, running, Steps
<1>5. CASE CutShort
  BY <1>5 DEF CutShort, caller, HeapSound, Typed, Owned, running, Steps, Null
<1>6. CASE RejectMalformed
  BY <1>6, <1>t, HeapKept DEF RejectMalformed, LookingAt, memory, caller, stage, running, Steps
<1>7. CASE ChangeContext
  BY <1>7, <1>t, HeapKept DEF ChangeContext, LookingAt, memory, caller, stage, running, Steps
<1>8. CASE UnknownOperation
  BY <1>8, <1>t, HeapKept DEF UnknownOperation, LookingAt, memory, caller, stage, running, Steps
<1>9. CASE ExecuteOperation
  <2>1. PICK opened \in BOOLEAN : OpenReport(opened)
    BY <1>9 DEF ExecuteOperation
  <2>2. /\ running /\ running' /\ pc' \in Steps
        /\ UNCHANGED <<callerPath, leaked, hasContext, cached, callerCached, inserted, left, reporting>>
    BY <1>9 DEF ExecuteOperation, LookingAt, running, Steps, caller, stage
  <2> QED BY <2>1, <2>2, <1>t, ReportStep DEF HeapSound, Typed, Owned
<1>10. CASE EndOfCommands
  BY <1>10, <1>t, HeapKept DEF EndOfCommands, memory, caller, stage, running, Steps
<1>11. CASE Cleanup
  <2>1. /\ ~running' /\ pc' \in Steps /\ ownPath' = Null
        /\ UNCHANGED <<allocated, leaked, hasContext, callerCached, left, reporting>>
        /\ cached' \in BOOLEAN /\ inserted' = FALSE
    BY <1>11 DEF Cleanup, caller, running, Steps
  <2>2. {hasContext', reporting', FALSE, cached', callerCached', inserted', left'} \subseteq BOOLEAN
    BY <2>1, <1>t
  <2>3. CASE hasContext
    <3>1. /\ memoryError' = (memoryError \/ Dead(heap, callerPath))
          /\ heap' = Freed(heap, callerPath) /\ callerPath' = ownPath
      BY <1>11, <2>3 DEF Cleanup
    <3> QED BY <2>1, <2>2, <3>1 DEF HeapSound, Typed, Owned, Freed, Dead, Null
  <2>4. CASE ~hasContext
    <3>1. /\ memoryError' = (memoryError \/ Dead(heap, ownPath))
          /\ heap' = Freed(heap, ownPath) /\ callerPath' = callerPath
      BY <1>11, <2>4 DEF Cleanup
    <3> QED BY <2>1, <2>2, <3>1 DEF HeapSound, Typed, Owned, Freed, Dead, Null
  <2> QED BY <2>3, <2>4
<1>12. CASE Returned
  <2>1. /\ ~running /\ ~running' /\ pc' \in Steps
        /\ UNCHANGED <<ownPath, allocated, leaked, hasContext, cached, callerCached, inserted, left, reporting>>
    BY <1>12 DEF Returned, caller, stage, running, Steps
  <2>2. CASE UNCHANGED <<callerPath, heap, memoryError>>
    BY <2>1, <2>2, <1>t, HeapKept
  <2>3. CASE FreeContext
    BY <2>1, <2>3 DEF FreeContext, HeapSound, Typed, Owned, Freed, Dead, Null
  <2> QED BY <1>12, <2>2, <2>3 DEF Returned
<1>13. CASE UNCHANGED vars
  BY <1>13, <1>t, HeapKept DEF vars, running
<1> QED
  BY <1>1, <1>2, <1>3, <1>4, <1>5, <1>6, <1>7, <1>8, <1>9, <1>10, <1>11, <1>12, <1>13 DEF RunStep

LEMMA HeapInit == Init => HeapSound
<1> SUFFICES ASSUME Init PROVE HeapSound
  OBVIOUS
<1>1. DOMAIN heap = {} /\ heap \in [DOMAIN heap -> Nat] /\ leaked = {}
  BY DEF Init
<1>2. /\ pc = "idle" /\ callerPath = 0 /\ ownPath = 0 /\ allocated = 0 /\ memoryError = FALSE
      /\ reporting = FALSE /\ inserted = FALSE /\ left = FALSE
      /\ hasContext \in BOOLEAN /\ cached \in BOOLEAN /\ callerCached \in BOOLEAN
  BY DEF Init, Null
<1>3. {hasContext, reporting, memoryError, cached, callerCached, inserted, left} \subseteq BOOLEAN
  BY <1>2
<1> QED BY <1>1, <1>2, <1>3 DEF HeapSound, Typed, Owned, running, Steps, Null

LEMMA HeapOwns == HeapSound => MemoryOwned
BY DEF HeapSound, Typed, Owned, MemoryOwned, running

LEMMA HeapInvariant == Spec => []HeapSound
BY HeapInit, HeapStep, NextIsRunStep, PTL DEF Spec

\* Whatever configurations are run and however they end, the string of reportPath is
\* freed once, by whoever holds it last, and never used after that.
THEOREM PathOwned == Spec => []MemoryOwned
BY HeapInvariant, HeapOwns, PTL

-----------------------------------------------------------------------------
\* While a run has the stage in the cache, nobody else has it there.
Cached == /\ {cached, callerCached, inserted, left} \subseteq BOOLEAN
          /\ cached = (inserted \/ callerCached \/ left)
          /\ inserted => pc \in {"loop", "cleanup"} /\ ~callerCached /\ ~left

LEMMA CachedStep == Cached /\ RunStep => Cached'
<1> SUFFICES ASSUME Cached, RunStep PROVE Cached'
  OBVIOUS
<1>k. UNCHANGED stage /\ (pc' \in {"loop", "cleanup"} \/ pc \notin {"loop", "cleanup"}) => Cached'
  BY DEF Cached, stage
<1>1. CASE CallerCaches
  BY <1>1 DEF CallerCaches, Cached, running
<1>2. ASSUME NEW d, CallExecuteConfig(d) \/ CallParseJson(d) PROVE Cached'
  BY <1>2, <1>k DEF CallExecuteConfig, CallParseJson, Call, running
<1>3. CASE CacheStage
  <2>1. /\ ~inserted /\ pc' = "loop" /\ cached' = TRUE /\ UNCHANGED <<callerCached, left>>
        /\ (inserted' <=> ~cached) /\ inserted' \in BOOLEAN
    BY <1>3 DEF CacheStage, Cached
  <2> QED BY <2>1 DEF Cached
<1>4. CASE CutShort
  BY <1>4 DEF CutShort, Cached, running
<1>5. CASE RejectMalformed \/ ChangeContext \/ UnknownOperation \/ ExecuteOperation \/ EndOfCommands
  BY <1>5, <1>k DEF RejectMalformed, ChangeContext, UnknownOperation, ExecuteOperation,
     EndOfCommands,
                    LookingAt, running
<1>6. CASE Cleanup
  BY <1>6 DEF Cleanup, Cached, running
<1>7. CASE Returned \/ UNCHANGED vars
  BY <1>7, <1>k DEF Returned, vars, stage, running
<1> QED BY <1>1, <1>2, <1>3, <1>4, <1>5, <1>6, <1>7 DEF RunStep

LEMMA CachedInit == Init => Cached
<1> SUFFICES ASSUME Init PROVE Cached
  OBVIOUS
<1>1. inserted = FALSE /\ left = FALSE /\ cached \in BOOLEAN /\ callerCached = cached
  BY DEF Init
<1> QED BY <1>1 DEF Cached

LEMMA CachedRestores == Cached => StageCacheKept
BY DEF Cached, StageCacheKept, running

\* A run leaves the stage cache as it was found, but for one that is cut short: that is
\* the only way in which insertedStage is forgotten.
THEOREM CacheRestored == Spec => []StageCacheKept
BY CachedInit, CachedStep, CachedRestores, NextIsRunStep, PTL DEF Spec

-----------------------------------------------------------------------------
Wrote(f) == \E k \in 1..Len(reports[f]) : reports[f][k][1] = runs

\* What a run has written is in the file that its own path names, and in the end the
\* path of the caller; earlier runs wrote the rest.
Reported ==
  /\ runs \in Nat /\ next \in Nat
  /\ DOMAIN reports \subseteq Nat
  /\ reports \in [DOMAIN reports -> Seq(Nat \X Nat)]
  /\ \A f \in DOMAIN reports : \A k \in 1..Len(reports[f]) : reports[f][k][1] <= runs
  /\ running => \A f \in DOMAIN reports : Wrote(f) => ownPath # Null /\ heap[ownPath] = f
  /\ pc = "returned" /\ hasContext =>
       \A f \in DOMAIN reports : Wrote(f) => callerPath # Null /\ heap[callerPath] = f

LEMMA ReportedStep == HeapSound /\ HeapSound' /\ Reported /\ RunStep => Reported'
<1> SUFFICES ASSUME HeapSound, HeapSound', Reported, RunStep PROVE Reported'
  OBVIOUS
<1>k. ASSUME UNCHANGED <<heap, ownPath, reports, runs>>, next' \in Nat, running, pc' # "returned"
      PROVE  Reported'
  BY <1>k DEF Reported, Wrote
<1>1. CASE CallerCaches
  BY <1>1 DEF CallerCaches, memory, caller, running, Reported, Wrote
<1>2. ASSUME NEW d, CallExecuteConfig(d) \/ CallParseJson(d) PROVE Reported'
  <2>1. UNCHANGED reports /\ runs' = runs + 1 /\ next' = 1
    BY <1>2 DEF CallExecuteConfig, CallParseJson, Call
  <2>2. \A f \in DOMAIN reports : \A k \in 1..Len(reports[f]) : reports[f][k] \in Nat \X Nat
    BY DEF Reported
  <2>3. \A f \in DOMAIN reports : ~Wrote(f)' /\ \A k \in 1..Len(reports[f]) : reports[f][k][1] <= runs'
    BY <2>1, <2>2 DEF Reported, Wrote
  <2> QED BY <2>1, <2>3 DEF Reported
<1>3. CASE CacheStage \/ RejectMalformed \/ ChangeContext \/ UnknownOperation \/ EndOfCommands
  <2>1. UNCHANGED <<heap, ownPath, reports, runs>> /\ running /\ pc' # "returned"
    BY <1>3 DEF CacheStage, RejectMalformed, ChangeContext, UnknownOperation, EndOfCommands,
       LookingAt,
                running, memory, caller
  <2>2. next' \in Nat
    <3>1. next \in Nat
      BY DEF Reported
    <3>2. UNCHANGED next \/ next' = next + 1
      BY <1>3 DEF CacheStage, RejectMalformed, ChangeContext, UnknownOperation, EndOfCommands
    <3> QED BY <3>1, <3>2
  <2> QED BY <2>1, <2>2, <1>k
<1>4. CASE CutShort
  BY <1>4 DEF CutShort, caller, running, Reported
<1>5. CASE ExecuteOperation
  <2>1. PICK opened \in BOOLEAN : OpenReport(opened)
    BY <1>5 DEF ExecuteOperation
  <2>2. /\ running /\ running' /\ pc' # "returned" /\ UNCHANGED runs
        /\ next' \in Nat
    BY <1>5 DEF ExecuteOperation, LookingAt, running, caller, Reported
  <2>3. CASE ~(reporting /\ opened)
    BY <2>1, <2>2, <2>3, <1>k DEF OpenReport
  <2>4. CASE reporting /\ opened
    <3> DEFINE file == IF ownPath = Null THEN allocated + 1 ELSE heap[ownPath]
               lines == IF file \in DOMAIN reports THEN reports[file] ELSE <<>>
               line == <<runs, next>>
    <3>1. /\ ownPath' = allocated + 1
          /\ heap' = With(Freed(heap, ownPath), allocated + 1, file)
          /\ reports' = With(reports, file, Append(lines, line))
      BY <2>1, <2>4 DEF OpenReport
    <3>2. file \in Nat /\ line \in Nat \X Nat /\ lines \in Seq(Nat \X Nat)
      <4>1. file \in Nat
        BY DEF HeapSound, Typed, Owned, Null
      <4>2. lines \in Seq(Nat \X Nat)
        BY EmptySeq DEF Reported
      <4> QED BY <4>1, <4>2 DEF Reported
    <3>3. \A f \in DOMAIN reports : f # file => ~Wrote(f)
      BY <2>2 DEF Reported
    <3>4. \A k \in 1..Len(lines) : lines[k][1] <= runs
      BY DEF Reported
    <3> HIDE DEF file, lines, line
    <3>5. /\ Append(lines, line) \in Seq(Nat \X Nat) /\ Len(Append(lines, line)) = Len(lines) + 1
          /\ \A k \in 1..Len(lines) : Append(lines, line)[k] = lines[k]
          /\ Append(lines, line)[Len(lines) + 1] = line
      BY <3>2, AppendProperties
    <3>6. Len(lines) \in Nat /\ line[1] = runs
      BY <3>2, LenProperties DEF line
    <3>7. \A k \in 1..Len(lines) + 1 : k \in 1..Len(lines) \/ k = Len(lines) + 1
      BY <3>6
    <3>8. \A k \in 1..Len(Append(lines, line)) : Append(lines, line)[k][1] <= runs
      BY <3>4, <3>5, <3>6, <3>7 DEF Reported
    <3>9. /\ DOMAIN reports' = DOMAIN reports \cup {file}
          /\ reports' \in [DOMAIN reports' -> Seq(Nat \X Nat)]
          /\ reports'[file] = Append(lines, line)
          /\ \A f \in DOMAIN reports \ {file} : reports'[f] = reports[f]
      BY <3>1, <3>2, <3>5 DEF With, Reported
    <3>10. heap'[ownPath'] = file /\ ownPath' # Null
      BY <3>1 DEF With, HeapSound, Typed, Null
    <3>11. \A f \in DOMAIN reports' : \A k \in 1..Len(reports'[f]) : reports'[f][k][1] <= runs'
      BY <2>2, <3>8, <3>9 DEF Reported
    <3>12. \A f \in DOMAIN reports' : f # file => ~Wrote(f)'
      BY <2>2, <3>3, <3>9 DEF Wrote
    <3>13. DOMAIN reports' \subseteq Nat /\ runs' \in Nat
      BY <2>2, <3>2, <3>9 DEF Reported
    <3> QED BY <2>2, <3>9, <3>10, <3>11, <3>12, <3>13 DEF Reported
  <2> QED BY <2>3, <2>4
<1>6. CASE Cleanup
  <2>1. /\ UNCHANGED <<reports, runs, next, hasContext>> /\ running /\ pc' = "returned"
        /\ hasContext => heap' = Freed(heap, callerPath) /\ callerPath' = ownPath
    BY <1>6 DEF Cleanup, caller, running
  <2>2. ASSUME hasContext, NEW f \in DOMAIN reports, Wrote(f)
        PROVE  ownPath # Null /\ heap'[ownPath] = f
    <3>1. ownPath # Null /\ heap[ownPath] = f
      BY <2>1, <2>2 DEF Reported
    <3>2. ownPath \in DOMAIN heap \ {callerPath}
      BY <3>1 DEF HeapSound, Typed, Owned
    <3> QED BY <2>1, <2>2, <3>1, <3>2 DEF Freed
  <2>3. \A f \in DOMAIN reports : Wrote(f)' <=> Wrote(f)
    BY <2>1 DEF Wrote
  <2> QED BY <2>1, <2>2, <2>3 DEF Reported, running
<1>7. CASE Returned
  BY <1>7 DEF Returned, caller, running, Reported
<1>8. CASE UNCHANGED vars
  BY <1>8 DEF vars, Reported, Wrote, running
<1> QED BY <1>1, <1>2, <1>3, <1>4, <1>5, <1>6, <1>7, <1>8 DEF RunStep

LEMMA ReportedInit == Init => Reported
BY DEF Init, Reported, running

LEMMA ReportedFinds == HeapSound /\ Reported => CallerFindsReport
BY DEF HeapSound, Typed, Owned, Reported, Wrote, CallerFindsReport

\* After a run that was not cut short, whichever operations reported and whichever
\* failed, the caller's reportPath names the file they all wrote to.
THEOREM ReportFound == Spec => []CallerFindsReport
BY ReportedInit, HeapInvariant, ReportedStep, ReportedFinds, NextIsRunStep, PTL DEF Spec

-----------------------------------------------------------------------------
\* The commands that were executed, in the order of the document: those before next, all
\* of which succeeded, and one that failed, after which the loop is left.
Ordered ==
  /\ next \in Nat \ {0}
  /\ executed \in Seq([command : Nat, ok : BOOLEAN])
  /\ \A k \in 1..Len(executed) :
       /\ executed[k].ok => executed[k].command < next
       /\ ~executed[k].ok => k = Len(executed) /\ executed[k].command = next
                             /\ pc \notin {"copied", "loop"}
       /\ executed[k].command \in Nat \ {0} /\ document[executed[k].command] = "operation"
  /\ \A j, k \in 1..Len(executed) : j < k => executed[j].command < executed[k].command
  /\ \A i \in 1..next - 1 : document[i] = "operation" =>
       \E k \in 1..Len(executed) : executed[k].command = i /\ executed[k].ok

LEMMA OrderedStep == Ordered /\ RunStep => Ordered'
<1> SUFFICES ASSUME Ordered, RunStep PROVE Ordered'
  OBVIOUS
<1>k. UNCHANGED <<next, executed, document>> /\ (pc' \notin {"copied", "loop"} \/ pc \in {"copied", "loop"})
        => Ordered'
  BY DEF Ordered
<1>1. CASE CallerCaches
  BY <1>1, <1>k DEF CallerCaches, caller
<1>2. ASSUME NEW d, CallExecuteConfig(d) \/ CallParseJson(d) PROVE Ordered'
  <2>1. next' = 1 /\ executed' = <<>>
    BY <1>2 DEF CallExecuteConfig, CallParseJson, Call
  <2> QED BY <2>1, EmptySeq DEF Ordered
<1>3. CASE CacheStage \/ CutShort \/ RejectMalformed \/ EndOfCommands \/ Cleanup \/ Returned \/ UNCHANGED vars
  BY <1>3, <1>k DEF CacheStage, CutShort, RejectMalformed, EndOfCommands, Cleanup, Returned, vars,
                    LookingAt, caller
<1>4. CASE ChangeContext \/ UnknownOperation
  <2>1. UNCHANGED <<executed, document>> /\ pc = "loop" /\ document[next] # "operation"
    BY <1>4 DEF ChangeContext, UnknownOperation, LookingAt, command, caller
  <2>2. CASE UNCHANGED next
    BY <2>1, <2>2, <1>k
  <2>3. CASE next' = next + 1
    <3>1. \A k \in 1..Len(executed) : executed[k].ok
      BY <2>1 DEF Ordered
    <3>2. \A i \in 1..next' - 1 : document[i] = "operation" => i \in 1..next - 1
      BY <2>1, <2>3 DEF Ordered
    <3> QED BY <2>1, <2>3, <3>1, <3>2 DEF Ordered
  <2> QED BY <1>4, <2>2, <2>3 DEF ChangeContext, UnknownOperation
<1>5. CASE ExecuteOperation
  <2>1. PICK ok \in BOOLEAN : /\ executed' = Append(executed, [command |-> next, ok |-> ok])
                              /\ IF ok THEN next' = next + 1 /\ UNCHANGED pc
                                       ELSE pc' = "cleanup" /\ UNCHANGED next
    BY <1>5 DEF ExecuteOperation
  <2>2. UNCHANGED document /\ pc = "loop" /\ document[next] = "operation"
    BY <1>5 DEF ExecuteOperation, LookingAt, command, caller
  <2> DEFINE one == [command |-> next, ok |-> ok]
  <2>3. one \in [command : Nat, ok : BOOLEAN] /\ one.command = next /\ one.ok = ok
    BY DEF Ordered
  <2> HIDE DEF one
  <2>4. /\ executed' \in Seq([command : Nat, ok : BOOLEAN]) /\ Len(executed') = Len(executed) + 1
        /\ \A k \in 1..Len(executed) : executed'[k] = executed[k]
        /\ executed'[Len(executed) + 1] = one
    BY <2>1, <2>3, AppendProperties DEF Ordered, one
  <2>5. /\ Len(executed) \in Nat
        /\ \A k \in 1..Len(executed') : k \in 1..Len(executed) \/ k = Len(executed) + 1
        /\ \A k \in 1..Len(executed) : executed[k].ok /\ executed[k].command < next
    BY <2>2, <2>4, LenProperties DEF Ordered
  <2>6. next' \in Nat \ {0} /\ next <= next' /\ (ok => next' = next + 1) /\ (~ok => next' = next /\ pc' = "cleanup")
    BY <2>1 DEF Ordered
  <2>7. \A k \in 1..Len(executed') :
          /\ executed'[k].ok => executed'[k].command < next'
          /\ ~executed'[k].ok => k = Len(executed') /\ executed'[k].command = next'
                                /\ pc' \notin {"copied", "loop"}
          /\ executed'[k].command \in Nat \ {0} /\ document[executed'[k].command] = "operation"
    BY <2>2, <2>3, <2>4, <2>5, <2>6 DEF Ordered
  <2>8. \A j, k \in 1..Len(executed') : j < k => executed'[j].command < executed'[k].command
    <3> SUFFICES ASSUME NEW j \in 1..Len(executed'), NEW k \in 1..Len(executed'), j < k
                 PROVE  executed'[j].command < executed'[k].command
      OBVIOUS
    <3>1. j \in 1..Len(executed)
      BY <2>4, <2>5
    <3>2. CASE k \in 1..Len(executed)
      <4>1. executed'[j] = executed[j] /\ executed'[k] = executed[k]
        BY <2>4, <3>1, <3>2
      <4> QED BY <3>1, <3>2, <4>1 DEF Ordered
    <3>3. CASE k = Len(executed) + 1
      <4>1. executed'[j] = executed[j] /\ executed'[k] = one
        BY <2>4, <3>1, <3>3
      <4> QED BY <2>3, <2>5, <3>1, <4>1
    <3> QED BY <2>5, <3>2, <3>3
  <2>9. ASSUME NEW i, i \in 1..next' - 1, document[i] = "operation"
        PROVE  \E k \in 1..Len(executed') : executed'[k].command = i /\ executed'[k].ok
    <3> DEFINE after == next'
    <3>0. after \in Nat /\ (ok => after = next + 1) /\ (~ok => after = next) /\ i \in 1..after - 1
      BY <2>6, <2>9
    <3> HIDE DEF after
    <3>1. CASE i \in 1..next - 1
      <4>1. PICK k \in 1..Len(executed) : executed[k].command = i /\ executed[k].ok
        BY <2>9, <3>1 DEF Ordered
      <4>2. k \in 1..Len(executed') /\ executed'[k] = executed[k]
        BY <2>4, <2>5
      <4> QED BY <4>1, <4>2
    <3>2. CASE i \notin 1..next - 1
      <4>1. ok /\ i = next
        <5>1. next \in Nat \ {0}
          BY DEF Ordered
        <5> QED BY <3>0, <3>2, <5>1
      <4>2. Len(executed) + 1 \in 1..Len(executed')
        BY <2>4, <2>5
      <4> QED BY <2>3, <2>4, <4>1, <4>2
    <3> QED BY <3>1, <3>2
  <2> QED BY <2>2, <2>4, <2>6, <2>7, <2>8, <2>9 DEF Ordered
<1> QED BY <1>1, <1>2, <1>3, <1>4, <1>5 DEF RunStep

LEMMA OrderedTells == Ordered => InOrderUpToFirstFailure
<1> SUFFICES ASSUME Ordered PROVE InOrderUpToFirstFailure
  OBVIOUS
<1> DEFINE done == { executed[k].command : k \in { k \in 1..Len(executed) : executed[k].ok } }
           asked == { i \in 1..next - 1 : document[i] = "operation" }
<1>1. ASSUME NEW i \in done PROVE i \in asked
  <2>1. PICK k \in 1..Len(executed) : executed[k].ok /\ i = executed[k].command
    OBVIOUS
  <2> QED BY <2>1 DEF Ordered
<1>2. ASSUME NEW i \in asked PROVE i \in done
  <2>1. PICK k \in 1..Len(executed) : executed[k].command = i /\ executed[k].ok
    BY DEF Ordered
  <2> QED BY <2>1
<1>3. done = asked
  <2> HIDE DEF done, asked
  <2> QED BY <1>1, <1>2
<1> QED BY <1>3 DEF Ordered, InOrderUpToFirstFailure

LEMMA OrderedInit == Init => Ordered
BY EmptySeq DEF Init, Ordered

\* Whatever a configuration says, its operations are executed in its order, each once, up to
\* the first that fails.
THEOREM ExecutedInOrder == Spec => []InOrderUpToFirstFailure
BY OrderedInit, OrderedStep, OrderedTells, NextIsRunStep, PTL DEF Spec

-----------------------------------------------------------------------------
(* The steps of a process beside those of a run *)

\* The command line works between its runs, or waits for the one that is under way.
Serving == /\ at \in Nat
           /\ cli = [phase |-> cli.phase, args |-> cli.args, exit |-> cli.exit, written |-> cli.written]
           /\ cli.phase \notin {"none", "running"} => pc = "idle"

\* An execution alone, whose report is opened on the caller's context.
Alone == /\ pc = "idle"
         /\ \E opened \in BOOLEAN : OpenCallerReport(opened)
         /\ UNCHANGED <<entry, pc, document, next, hasContext, ownPath, reporting, stage, executed,
                        results, rc, leaked, runs>>
\* The caller's stage comes into the cache, and its context may be told to report.
Inserting == /\ pc = "idle"
             /\ cached' = TRUE /\ callerCached' = TRUE /\ left' \in {left, FALSE}
             /\ reporting' \in BOOLEAN \cup {reporting}
             /\ UNCHANGED <<entry, pc, document, next, hasContext, memory, inserted, executed,
                            reports, results, rc, runs>>
Exiting == /\ pc = "idle" /\ FreeContext
           /\ UNCHANGED <<entry, pc, document, next, hasContext, ownPath, reporting, allocated, stage,
                          executed, reports, results, rc, leaked, runs>>
\* A new process has nothing of the one before.
Starting ==
  /\ pc = "idle"
  /\ heap' = Nothing /\ allocated' = 0 /\ callerPath' = Null /\ leaked' = {}
  /\ cached' = FALSE /\ callerCached' = FALSE /\ left' = FALSE /\ reports' = Nothing
  /\ executed' = <<>> /\ document' = <<>> /\ next' = 1 /\ rc' = TRUE
  /\ UNCHANGED <<entry, pc, hasContext, ownPath, reporting, memoryError, inserted, results, runs>>
\* The context is told to report, or not to report.
Deciding == /\ pc = "idle" /\ reporting' \in BOOLEAN \cup {reporting}
              /\ UNCHANGED <<entry, pc, document, next, hasContext, memory, stage, executed,
                             reports, results, rc, runs>>

ProcessStep == RunStep \/ Alone \/ Inserting \/ Exiting \/ Starting \/ Deciding

LEMMA SessionSteps ==
  ASSUME Serving, [SessionNext]_allVars
  PROVE  ProcessStep
<1>1. CASE Import \/ LoadMore \/ Deregister \/ Hold \/ CliNothing \/ CliWrite \/ Ended \/ UNCHANGED allVars
  <2>1. UNCHANGED vars
    BY <1>1 DEF Import, LoadMore, Deregister, Hold, CliNothing, CliWrite, Ended, allVars
  <2> QED BY <2>1 DEF ProcessStep, RunStep
<1>2. CASE SetStage \/ ExecuteConfig \/ ExecuteMapped \/ RunCommand \/ OtherSteps
  BY <1>2 DEF SetStage, ExecuteConfig, ExecuteMapped, RunCommand, OtherSteps, ProcessStep, RunStep
<1>3. CASE ExecuteOne
  BY <1>3 DEF ExecuteOne, Calls, ProcessStep, Deciding, memory, stage
<1>4. CASE Analyze \/ Optimize \/ CheckStage
  BY <1>4 DEF Analyze, Optimize, CheckStage, Analyzed, Calls, InsertsStage, ProcessStep, Inserting
<1>5. CASE ExecuteNext
  <2>1. \E opened \in BOOLEAN : OpenCallerReport(opened)
    BY <1>5, Zenon DEF ExecuteNext, OpenCallerReport
  <2> QED BY <1>5, <2>1 DEF ExecuteNext, ProcessStep, Alone
<1>6. CASE CliProcess
  BY <1>6 DEF CliProcess, Calls, ProcessStep, Starting
<1>7. CASE CliParse
  <2>1. /\ pc = "idle"
        /\ UNCHANGED <<entry, pc, document, next, hasContext, memory, reporting, left, inserted, executed,
                       reports, results, rc, runs>>
        /\ UNCHANGED <<cached, callerCached>> \/ (cached' = TRUE /\ callerCached' = TRUE)
    BY <1>7 DEF CliParse, Serving
  <2> QED BY <2>1 DEF ProcessStep, Deciding, Inserting, stage
<1>8. CASE CliRun
  BY <1>8 DEF CliRun, ProcessStep, RunStep
<1>9. CASE CliReturned
  <2>1. Returned
    BY <1>9 DEF CliReturned, Returned, memory
  <2> QED BY <2>1 DEF ProcessStep, RunStep
<1>10. CASE CliExit
  BY <1>10 DEF CliExit, Serving, ProcessStep, Exiting
<1> QED BY <1>1, <1>2, <1>3, <1>4, <1>5, <1>6, <1>7, <1>8, <1>9, <1>10 DEF SessionNext

\* A run goes on whatever the command line is at, and is over when it goes on.
LEMMA ServingStep == Serving /\ [SessionNext]_allVars => Serving'
<1> SUFFICES ASSUME Serving, [SessionNext]_allVars PROVE Serving'
  OBVIOUS
<1>a. at \in Nat /\ at + 1 \in Nat
  BY DEF Serving
<1>c. cli = [phase |-> cli.phase, args |-> cli.args, exit |-> cli.exit, written |-> cli.written]
  BY DEF Serving
<1>k. UNCHANGED cli /\ at' \in Nat /\ (pc' = pc \/ cli.phase \in {"none", "running"}) => Serving'
  BY DEF Serving
<1>1. CASE Import \/ LoadMore \/ Deregister \/ Hold \/ ExecuteConfig \/ ExecuteMapped \/ ExecuteOne
           \/ Analyze \/ Optimize \/ CheckStage
  BY <1>1, <1>a, <1>k DEF Import, LoadMore, Deregister, Hold, ExecuteConfig, ExecuteMapped,
     ExecuteOne,
       Analyze, Optimize, CheckStage, Analyzed, Calls, cliVars, runVars
<1>2. CASE SetStage \/ RunCommand \/ OtherSteps \/ ExecuteNext \/ Ended \/ UNCHANGED allVars
  <2>1. UNCHANGED <<at, cli>>
    BY <1>2 DEF SetStage, RunCommand, OtherSteps, ExecuteNext, Ended, allVars, sessionVars,
       callVars, cliVars
  <2>2. pc' = pc \/ pc # "idle" \/ cli.phase = "none"
    BY <1>2 DEF SetStage, RunCommand, OtherSteps, ExecuteNext, Ended, allVars, vars,
       ExecuteOperation,
         CacheStage, CutShort, RejectMalformed, ChangeContext, UnknownOperation, EndOfCommands, Cleanup,
         LookingAt
  <2> QED BY <2>1, <2>2, <1>a, <1>k DEF Serving
<1>3. CASE CliProcess
  BY <1>3, <1>a DEF CliProcess, Calls, Serving, NoCli
<1>4. CASE CliParse \/ CliRun \/ CliNothing
  <2>1. UNCHANGED at /\ pc = "idle"
    BY <1>4 DEF CliParse, CliRun, CliNothing, callVars, Serving
  <2>2. CASE CliParse
    <3>1. pc' = "idle"
      BY <2>1, <2>2 DEF CliParse
    <3>2. \/ \E code : Exits(code)
          \/ \E args : cli' = [cli EXCEPT !.phase = "run", !.args = args]
      BY <2>2, Zenon DEF CliParse
    <3> QED BY <1>a, <1>c, <2>1, <3>1, <3>2 DEF Exits, Serving
  <2>3. CASE CliRun
    BY <1>a, <1>c, <2>1, <2>3 DEF CliRun, Serving
  <2>4. CASE CliNothing
    <3>1. pc' = "idle" /\ \E code : Exits(code)
      BY <2>1, <2>4 DEF CliNothing, vars
    <3> QED BY <1>a, <1>c, <2>1, <3>1 DEF Exits, Serving
  <2> QED BY <1>4, <2>2, <2>3, <2>4
<1>5. CASE CliReturned
  BY <1>5, <1>a, <1>c DEF CliReturned, callVars, Serving
<1>6. CASE CliWrite
  <2>1. UNCHANGED at /\ pc' = "idle"
    BY <1>6 DEF CliWrite, callVars, vars, Serving
  <2>2. \E code, what : cli' = [cli EXCEPT !.phase = "exited", !.exit = code, !.written = what]
    BY <1>6, Zenon DEF CliWrite
  <2> QED BY <1>a, <1>c, <2>1, <2>2 DEF Serving
<1>7. CASE CliExit
  BY <1>7, <1>a DEF CliExit, callVars, Serving, NoCli
<1> QED BY <1>1, <1>2, <1>3, <1>4, <1>5, <1>6, <1>7 DEF SessionNext

LEMMA CallerReportStep ==
  ASSUME HeapSound, ~running, NEW opened \in BOOLEAN, OpenCallerReport(opened), UNCHANGED <<ownPath, leaked>>
  PROVE  /\ allocated' \in Nat /\ callerPath' \in Nat
         /\ DOMAIN heap' \subseteq 1..allocated' /\ heap' \in [DOMAIN heap' -> Nat]
         /\ DOMAIN heap' = leaked' \cup ({callerPath', ownPath'} \ {Null})
         /\ {callerPath', ownPath'} \cap leaked' = {}
         /\ ownPath' = Null
         /\ memoryError' = FALSE
<1> USE DEF HeapSound, Typed, Owned, Null
<1> DEFINE file == IF callerPath = Null THEN allocated + 1 ELSE heap[callerPath]
<1>1. CASE opened
  <2>1. file \in Nat
    OBVIOUS
  <2>2. /\ allocated' = allocated + 1 /\ callerPath' = allocated + 1
        /\ heap' = With(Freed(heap, callerPath), allocated + 1, file)
        /\ memoryError' = FALSE
    BY <1>1 DEF OpenCallerReport, Dead
  <2> HIDE DEF file
  <2>3. /\ Freed(heap, callerPath) \in [DOMAIN heap \ {callerPath} -> Nat]
    BY FreedHeap
  <2>4. /\ heap' \in [(DOMAIN heap \ {callerPath}) \cup {allocated + 1} -> Nat]
        /\ DOMAIN heap' = (DOMAIN heap \ {callerPath}) \cup {allocated + 1}
    <3> HIDE DEF HeapSound, Typed, Owned
    <3>1. PICK h : h = Freed(heap, callerPath) /\ h \in [DOMAIN heap \ {callerPath} -> Nat]
      BY <2>3
    <3>2. heap' = With(h, allocated + 1, file)
      BY <2>2, <3>1
    <3> QED BY <2>1, <3>1, <3>2 DEF With
  <2>5. allocated + 1 \notin 1..allocated /\ allocated + 1 \in Nat \ {0} /\ 1..allocated \subseteq 1..allocated + 1
    OBVIOUS
  <2>6. leaked \subseteq 1..allocated /\ ownPath = Null /\ ownPath' = Null
    OBVIOUS
  <2>7. DOMAIN heap \ {callerPath} = leaked /\ leaked' = leaked
    OBVIOUS
  <2>8. /\ DOMAIN heap' = leaked' \cup ({callerPath', ownPath'} \ {Null})
        /\ {callerPath', ownPath'} \cap leaked' = {}
    <3> HIDE DEF HeapSound, Typed, Owned
    <3>1. Null \notin leaked
      BY DEF HeapSound, Typed
    <3> QED BY <2>2, <2>4, <2>5, <2>6, <2>7, <3>1
  <2>9. DOMAIN heap' \subseteq 1..allocated'
    BY <2>2, <2>4, <2>5
  <2>10. heap' \in [DOMAIN heap' -> Nat]
    BY <2>4, Zenon
  <2>11. allocated' \in Nat /\ callerPath' \in Nat
    BY <2>2
  <2> QED BY <2>2, <2>6, <2>8, <2>9, <2>10, <2>11
<1>2. CASE ~opened
  BY <1>2 DEF OpenCallerReport
<1> QED BY <1>1, <1>2

LEMMA HeapProcess == HeapSound /\ ProcessStep => HeapSound'
<1> SUFFICES ASSUME HeapSound, ProcessStep PROVE HeapSound'
  OBVIOUS
<1>t. /\ {hasContext, reporting, memoryError, cached, callerCached, inserted, left} \subseteq BOOLEAN
      /\ pc \in Steps /\ (~running => ownPath = Null)
  BY DEF HeapSound, Typed, Owned
<1>1. CASE RunStep
  BY <1>1, HeapStep
<1>2. CASE Alone
  <2>1. PICK opened \in BOOLEAN : OpenCallerReport(opened)
    BY <1>2 DEF Alone
  <2>2. ~running /\ ~running' /\ UNCHANGED <<ownPath, leaked, hasContext, cached, callerCached, inserted, left, reporting, pc>>
    BY <1>2 DEF Alone, running, stage
  <2> QED BY <2>1, <2>2, <1>t, CallerReportStep DEF HeapSound, Typed, Owned
<1>3. CASE Inserting
  <2>1. /\ UNCHANGED <<callerPath, ownPath, heap, allocated, memoryError, leaked, pc, hasContext, inserted>>
        /\ cached' = TRUE /\ callerCached' = TRUE /\ left' \in {left, FALSE} /\ ~running
        /\ reporting' \in BOOLEAN \cup {reporting}
    BY <1>3 DEF Inserting, memory, running
  <2>2. {hasContext', reporting', cached', callerCached', inserted', left'} \subseteq BOOLEAN
    BY <2>1, <1>t
  <2> QED BY <2>1, <2>2, <1>t, HeapKept
<1>4. CASE Deciding
  <2>1. /\ UNCHANGED <<callerPath, ownPath, heap, allocated, memoryError, leaked, pc, hasContext, inserted>>
        /\ UNCHANGED <<cached, callerCached, left>> /\ ~running
        /\ reporting' \in BOOLEAN \cup {reporting}
    BY <1>4 DEF Deciding, memory, stage, running
  <2>2. {hasContext', reporting', cached', callerCached', inserted', left'} \subseteq BOOLEAN
    BY <2>1, <1>t
  <2> QED BY <2>1, <2>2, <1>t, HeapKept
<1>5. CASE Exiting
  BY <1>5 DEF Exiting, stage, FreeContext, HeapSound, Typed, Owned, Freed, Dead, Null, running
<1>6. CASE Starting
  <2>1. /\ DOMAIN heap' = {} /\ heap' \in [DOMAIN heap' -> Nat] /\ allocated' = 0 /\ callerPath' = 0
        /\ ownPath' = 0 /\ leaked' = {} /\ memoryError' = FALSE /\ ~running' /\ pc' \in Steps
    BY <1>6 DEF Starting, Nothing, HeapSound, Owned, running, Steps, Null
  <2>2. {hasContext', reporting', memoryError', cached', callerCached', inserted', left'} \subseteq BOOLEAN
    BY <1>6, <1>t DEF Starting
  <2> QED BY <2>1, <2>2 DEF HeapSound, Typed, Owned, Null
<1> QED BY <1>1, <1>2, <1>3, <1>4, <1>5, <1>6 DEF ProcessStep

LEMMA CachedProcess == Cached /\ ProcessStep => Cached'
<1> SUFFICES ASSUME Cached, ProcessStep PROVE Cached'
  OBVIOUS
<1>1. CASE RunStep
  BY <1>1, CachedStep
<1>2. CASE Alone \/ Deciding \/ Exiting
  BY <1>2 DEF Alone, Deciding, Exiting, stage, Cached
<1>3. CASE Inserting
  BY <1>3 DEF Inserting, Cached
<1>4. CASE Starting
  BY <1>4 DEF Starting, Cached
<1> QED BY <1>1, <1>2, <1>3, <1>4 DEF ProcessStep

LEMMA OrderedProcess == Ordered /\ ProcessStep => Ordered'
<1> SUFFICES ASSUME Ordered, ProcessStep PROVE Ordered'
  OBVIOUS
<1>1. CASE RunStep
  BY <1>1, OrderedStep
<1>2. CASE Alone \/ Deciding \/ Exiting \/ Inserting
  BY <1>2 DEF Alone, Deciding, Exiting, Inserting, Ordered
<1>3. CASE Starting
  BY <1>3, EmptySeq DEF Starting, Ordered
<1> QED BY <1>1, <1>2, <1>3 DEF ProcessStep

LEMMA ReportedProcess == HeapSound /\ HeapSound' /\ Serving /\ Reported /\ ProcessStep => Reported'
<1> SUFFICES ASSUME HeapSound, HeapSound', Serving, Reported, ProcessStep PROVE Reported'
  OBVIOUS
<1>1. CASE RunStep
  BY <1>1, ReportedStep
<1>2. CASE Alone
  <2>1. PICK opened \in BOOLEAN : OpenCallerReport(opened)
    BY <1>2 DEF Alone
  <2>2. UNCHANGED <<runs, next>> /\ ~running' /\ pc' # "returned"
    BY <1>2 DEF Alone, running
  <2>3. CASE ~opened
    BY <2>1, <2>2, <2>3 DEF OpenCallerReport, Reported
  <2>4. CASE opened
    <3> DEFINE file == IF callerPath = Null THEN allocated + 1 ELSE heap[callerPath]
               lines == IF file \in DOMAIN reports THEN reports[file] ELSE <<>>
               line == <<0, at>>
    <3>1. reports' = With(reports, file, Append(lines, line))
      BY <2>1, <2>4 DEF OpenCallerReport
    <3>2. file \in Nat
      BY DEF HeapSound, Typed, Owned, Null
    <3>3. lines \in Seq(Nat \X Nat) /\ \A k \in 1..Len(lines) : lines[k][1] <= runs
      BY EmptySeq DEF Reported
    <3>4. line \in Nat \X Nat /\ line[1] = 0 /\ runs \in Nat
      BY DEF Serving, Reported
    <3> HIDE DEF file, lines, line
    <3>5. /\ Append(lines, line) \in Seq(Nat \X Nat) /\ Len(Append(lines, line)) = Len(lines) + 1
          /\ \A k \in 1..Len(lines) : Append(lines, line)[k] = lines[k]
          /\ Append(lines, line)[Len(lines) + 1] = line
      BY <3>3, <3>4, AppendProperties
    <3>6. Len(lines) \in Nat /\ \A k \in 1..Len(lines) + 1 : k \in 1..Len(lines) \/ k = Len(lines) + 1
      BY <3>3, LenProperties
    <3>7. \A k \in 1..Len(Append(lines, line)) : Append(lines, line)[k][1] <= runs
      BY <3>3, <3>4, <3>5, <3>6
    <3>8. /\ DOMAIN reports' = DOMAIN reports \cup {file}
          /\ reports' \in [DOMAIN reports' -> Seq(Nat \X Nat)]
          /\ reports'[file] = Append(lines, line)
          /\ \A f \in DOMAIN reports \ {file} : reports'[f] = reports[f]
      BY <3>1, <3>2, <3>5 DEF With, Reported
    <3>9. \A f \in DOMAIN reports' : \A k \in 1..Len(reports'[f]) : reports'[f][k][1] <= runs'
      BY <2>2, <3>7, <3>8 DEF Reported
    <3> QED BY <2>2, <3>2, <3>8, <3>9 DEF Reported
  <2> QED BY <2>3, <2>4
<1>3. CASE Deciding \/ Inserting \/ Exiting
  BY <1>3 DEF Deciding, Inserting, Exiting, Reported, running
<1>4. CASE Starting
  BY <1>4 DEF Starting, Nothing, Reported, running
<1> QED BY <1>1, <1>2, <1>3, <1>4 DEF ProcessStep

-----------------------------------------------------------------------------
ProcessSound == HeapSound /\ Cached /\ Reported /\ Ordered /\ Serving

LEMMA InitIsSound == Init => HeapSound /\ Cached /\ Reported /\ Ordered
BY HeapInit, CachedInit, ReportedInit, OrderedInit

LEMMA ProcessInvariant == SessionSpec => []ProcessSound
<1>1. SessionInit => ProcessSound
  <2>1. SessionInit => Serving
    BY DEF SessionInit, Serving, NoCli
  <2> QED BY <2>1, InitIsSound DEF SessionInit, ProcessSound
<1>2. ProcessSound /\ [SessionNext]_allVars => ProcessSound'
  <2> SUFFICES ASSUME ProcessSound, [SessionNext]_allVars PROVE ProcessSound'
    OBVIOUS
  <2>1. Serving /\ Serving' /\ ProcessStep
    BY ServingStep, SessionSteps DEF ProcessSound
  <2>2. HeapSound'
    BY <2>1, HeapProcess DEF ProcessSound
  <2> QED BY <2>1, <2>2, CachedProcess, ReportedProcess, OrderedProcess DEF ProcessSound
<1> QED BY <1>1, <1>2, PTL DEF SessionSpec

\* Whatever a process does, in whichever order and through whichever way in, the string of
\* reportPath is freed once and never used after that.
THEOREM SessionPathOwned == SessionSpec => []MemoryOwned
BY ProcessInvariant, HeapOwns, PTL DEF ProcessSound

\* The stage cache of a process is as its callers left it, but for the runs cut short.
THEOREM SessionCacheRestored == SessionSpec => []StageCacheKept
BY ProcessInvariant, CachedRestores, PTL DEF ProcessSound

\* The caller of a configuration finds its report, also when single executions and earlier
\* runs have reported before.
THEOREM SessionReportFound == SessionSpec => []CallerFindsReport
BY ProcessInvariant, ReportedFinds, PTL DEF ProcessSound

\* Configurations run in order whoever executes them: Python, a mapped configuration or the
\* command line.
THEOREM SessionInOrder == SessionSpec => []InOrderUpToFirstFailure
BY ProcessInvariant, OrderedTells, PTL DEF ProcessSound

-----------------------------------------------------------------------------
(* The registry *)

Entries == [from : STRING, wrapper : Nat]
Usable(r) ==
  /\ \A name \in DOMAIN r.operations : r.operations[name].wrapper # 0 =>
       name \in DOMAIN r.pythonOperations /\ r.pythonOperations[name] = r.operations[name].wrapper
  /\ DOMAIN r.pythonOperations \subseteq DOMAIN r.operations
\* Registries in which every Python operation is owned by its wrapper.
Registries ==
  { r \in [operations : UNION { [D -> Entries] : D \in SUBSET DOMAIN Definitions },
           pythonOperations : UNION { [D -> Nat] : D \in SUBSET DOMAIN Definitions }, wrappers : Nat] : Usable(r) }

LEMMA RegistryShape ==
  ASSUME NEW r \in Registries
  PROVE  /\ r = [operations |-> r.operations, pythonOperations |-> r.pythonOperations, wrappers |-> r.wrappers]
         /\ DOMAIN r.operations \subseteq DOMAIN Definitions /\ r.operations \in [DOMAIN r.operations -> Entries]
         /\ DOMAIN r.pythonOperations \subseteq DOMAIN Definitions
         /\ r.pythonOperations \in [DOMAIN r.pythonOperations -> Nat]
         /\ r.wrappers \in Nat /\ Usable(r)
BY DEF Registries

LEMMA RegistryMade ==
  ASSUME NEW D \in SUBSET DOMAIN Definitions, NEW E \in SUBSET D, NEW f \in [D -> Entries], NEW g \in [E -> Nat],
         NEW w \in Nat, \A n \in D : f[n].wrapper # 0 => n \in E /\ g[n] = f[n].wrapper
  PROVE  [operations |-> f, pythonOperations |-> g, wrappers |-> w] \in Registries
BY DEF Registries, Usable

LEMMA RegisterStays ==
  ASSUME NEW r \in Registries, NEW name \in DOMAIN Definitions, NEW id \in STRING
  PROVE  RegisterOperation(r, name, Entry(id, 0)) \in Registries
<1>1. CASE name \in DOMAIN r.operations
  BY <1>1 DEF RegisterOperation
<1>2. CASE name \notin DOMAIN r.operations
  <2> DEFINE D == DOMAIN r.operations \cup {name}
             f == Put(r.operations, name, Entry(id, 0))
  <2>1. Entry(id, 0) \in Entries /\ Entry(id, 0).wrapper = 0
    BY DEF Entries, Entry
  <2>2. D \in SUBSET DOMAIN Definitions /\ f \in [D -> Entries] /\ DOMAIN r.pythonOperations \in SUBSET D
    BY <2>1, RegistryShape DEF Put, Usable
  <2>3. \A n \in D : f[n].wrapper # 0 =>
          n \in DOMAIN r.pythonOperations /\ r.pythonOperations[n] = f[n].wrapper
    BY <2>1, RegistryShape DEF Put, Usable
  <2>4. RegisterOperation(r, name, Entry(id, 0))
          = [operations |-> f, pythonOperations |-> r.pythonOperations, wrappers |-> r.wrappers]
    BY <1>2, RegistryShape DEF RegisterOperation
  <2>5. r.pythonOperations \in [DOMAIN r.pythonOperations -> Nat] /\ r.wrappers \in Nat
    BY RegistryShape
  <2> HIDE DEF D, f
  <2>6. [operations |-> f, pythonOperations |-> r.pythonOperations, wrappers |-> r.wrappers] \in Registries
    <3> DEFINE E == DOMAIN r.pythonOperations
               g == r.pythonOperations
               w == r.wrappers
    <3>1. E \in SUBSET D /\ g \in [E -> Nat] /\ w \in Nat /\ \A n \in D : f[n].wrapper # 0 => n \in E /\ g[n] = f[n].wrapper
      BY <2>2, <2>3, <2>5
    <3> HIDE DEF E, g, w
    <3>2. [operations |-> f, pythonOperations |-> g, wrappers |-> w] \in Registries
      BY <2>2, <3>1, RegistryMade
    <3> QED BY <3>2 DEF g, w
  <2> QED BY <2>4, <2>6
<1> QED BY <1>1, <1>2

LEMMA PythonStays ==
  ASSUME NEW r \in Registries, NEW file \in Plugins
  PROVE  LoadPython(r, file) \in Registries
<1>1. CASE ~file.loads \/ file.operations[1] \in DOMAIN r.operations
  BY <1>1 DEF LoadPython
<1>2. CASE ~(~file.loads \/ file.operations[1] \in DOMAIN r.operations)
  <2> DEFINE name == file.operations[1]
             made == r.wrappers + 1
             D == DOMAIN r.operations \cup {name}
             E == DOMAIN r.pythonOperations \cup {name}
             f == Put(r.operations, name, Entry(file.id, made))
             g == Put(r.pythonOperations, name, made)
  <2>1. name \in DOMAIN Definitions /\ file.id \in STRING
    BY LenProperties, ElementOfSeq, EmptySeq DEF Plugins
  <2>2. made \in Nat /\ Entry(file.id, made) \in Entries /\ Entry(file.id, made).wrapper = made
    BY <2>1, RegistryShape DEF Entries, Entry
  <2>3. LoadPython(r, file) = [operations |-> f, pythonOperations |-> g, wrappers |-> made]
    <3> DEFINE q == [r EXCEPT !.wrappers = made, !.pythonOperations = Put(r.pythonOperations, name, made)]
    <3>1. q = [operations |-> r.operations, pythonOperations |-> g, wrappers |-> made]
      <4>1. r = [operations |-> r.operations, pythonOperations |-> r.pythonOperations, wrappers |-> r.wrappers]
        BY RegistryShape
      <4> HIDE DEF name, made, g
      <4>2. q = [r EXCEPT !.wrappers = made, !.pythonOperations = g]
        BY DEF g
      <4> HIDE DEF q
      <4> QED BY <4>1, <4>2
    <3>2. LoadPython(r, file) = RegisterOperation(q, name, Entry(file.id, made))
      BY <1>2 DEF LoadPython
    <3> HIDE DEF q, name, made
    <3> QED BY <1>2, <3>1, <3>2 DEF RegisterOperation, name
  <2> HIDE DEF name, made
  <2>4. D \in SUBSET DOMAIN Definitions /\ E \in SUBSET D /\ f \in [D -> Entries] /\ g \in [E -> Nat]
    BY <2>1, <2>2, RegistryShape DEF Put, Usable
  <2>5. \A n \in D : f[n].wrapper # 0 => n \in E /\ g[n] = f[n].wrapper
    BY <2>2, RegistryShape DEF Put, Usable
  <2> HIDE DEF D, E, f, g
  <2> QED BY <2>2, <2>3, <2>4, <2>5, RegistryMade
<1> QED BY <1>1, <1>2

LEMMA LibraryStays ==
  ASSUME NEW r \in Registries, NEW file \in Plugins, file.loads
  PROVE  LoadLibrary(r, file) \in Registries
<1> DEFINE N == Len(file.operations)
           F == [p \in Registries \X (1..N) |-> RegisterOperation(p[1], file.operations[p[2]], Entry(file.id, 0))]
           Goes(f) == f = [S \in SUBSET (1..N) |->
                             IF S = {} THEN r
                             ELSE RegisterOperation(f[S \ {Max(S)}], file.operations[Max(S)], Entry(file.id, 0))]
           iter == CHOOSE f : Goes(f)
<1>0. file.operations \in Seq(DOMAIN Definitions) /\ file.id \in STRING
  BY DEF Plugins
<1>1. N \in Nat /\ DOMAIN file.operations = 1..N /\ \A k \in 1..N : file.operations[k] \in DOMAIN Definitions
  BY LenProperties, ElementOfSeq, <1>0
<1>2. r \in Registries
  OBVIOUS
<1>3. F \in [Registries \X (1..N) -> Registries]
  <2>1. ASSUME NEW q \in Registries, NEW k \in 1..N
        PROVE  RegisterOperation(q, file.operations[k], Entry(file.id, 0)) \in Registries
    BY <1>1, <1>0, RegisterStays
  <2> QED BY <2>1
<1>4. PICK f : Folding(f, Registries, r, N, F)
  <2> HIDE DEF F, N
  <2> QED BY <1>1, <1>2, <1>3, FoldRecursion
<1>5. Goes(f)
  <2>1. ASSUME NEW S \in SUBSET (1..N), S # {}
        PROVE  Max(S) \in 1..N /\ S \ {Max(S)} \in SUBSET (1..N)
    BY <1>1, <2>1, MaxInRange
  <2>2. ASSUME NEW S \in SUBSET (1..N)
        PROVE  f[S] = IF S = {} THEN r
                      ELSE RegisterOperation(f[S \ {Max(S)}], file.operations[Max(S)], Entry(file.id, 0))
    BY <1>4, <2>1, <2>2 DEF Folding
  <2> QED BY <1>4, <2>2 DEF Folding
<1>6. Goes(iter)
  <2> HIDE DEF Goes
  <2> QED BY <1>5
<1>7. LoadLibrary(r, file) = iter[1..N]
  BY <1>1 DEF LoadLibrary, FoldLeft, MapThenFoldSet
<1>8. \A S \in SUBSET (1..N) :
        iter[S] = IF S = {} THEN r
                  ELSE RegisterOperation(iter[S \ {Max(S)}], file.operations[Max(S)], Entry(file.id, 0))
  <2> HIDE DEF iter
  <2> QED BY <1>6
<1> HIDE DEF iter, Goes, F
<1> DEFINE T == {k \in 0..N : iter[1..k] \in Registries}
<1>9. 0..N \subseteq T
  <2>1. 0 \in T
    <3>1. 1..0 = {} /\ 0 \in 0..N /\ 1..0 \in SUBSET (1..N)
      BY <1>1
    <3> QED BY <1>2, <1>8, <3>1
  <2>2. ASSUME NEW k \in 0..N-1, k \in T PROVE k + 1 \in T
    <3>1. k + 1 \in Nat \ {0} /\ k + 1 \in 1..N /\ k + 1 \in 0..N /\ (k + 1) - 1 = k /\ 1..k+1 \in SUBSET (1..N)
      BY <1>1
    <3>2. Max(1..k+1) = k + 1 /\ (1..k+1) \ {k+1} = 1..k /\ 1..k+1 # {}
      BY <3>1, MaxOfRange
    <3>3. iter[1..k] \in Registries /\ file.operations[k+1] \in DOMAIN Definitions
      BY <1>1, <2>2, <3>1
    <3>4. iter[1..k+1] = RegisterOperation(iter[1..k], file.operations[k+1], Entry(file.id, 0))
      BY <1>8, <3>1, <3>2
    <3>5. iter[1..k+1] \in Registries
      BY <3>3, <3>4, <1>0, RegisterStays
    <3> QED BY <3>1, <3>5
  <2> HIDE DEF T
  <2> QED BY <1>1, <2>1, <2>2, InductTo
<1> QED BY <1>1, <1>7, <1>9

LEMMA AnyLibraryStays ==
  ASSUME NEW r \in Registries, NEW file \in Plugins
  PROVE  LoadLibrary(r, file) \in Registries
BY LibraryStays DEF LoadLibrary

LEMMA LibrariesStay ==
  ASSUME NEW r \in Registries, NEW entries \in Seq(Plugins)
  PROVE  LoadLibraries(r, entries) \in Registries
<1> DEFINE N == Len(entries)
           F == [p \in Registries \X (1..N) |-> (IF entries[p[2]].kind = "library" THEN LoadLibrary(p[1], entries[p[2]])
                                                 ELSE p[1])]
           Goes(f) == f = [S \in SUBSET (1..N) |->
                             IF S = {} THEN r
                             ELSE (IF entries[Max(S)].kind = "library" THEN LoadLibrary(f[S \ {Max(S)}], entries[Max(S)]) ELSE f[S \ {Max(S)}])]
           iter == CHOOSE f : Goes(f)
<1>1. N \in Nat /\ DOMAIN entries = 1..N /\ \A k \in 1..N : entries[k] \in Plugins
  BY LenProperties, ElementOfSeq
<1>2. r \in Registries
  OBVIOUS
<1>3. F \in [Registries \X (1..N) -> Registries]
  <2>1. ASSUME NEW q \in Registries, NEW k \in 1..N
        PROVE  (IF entries[k].kind = "library" THEN LoadLibrary(q, entries[k])
                ELSE q) \in Registries
    BY <1>1, AnyLibraryStays
  <2> QED BY <2>1
<1>4. PICK f : Folding(f, Registries, r, N, F)
  <2> HIDE DEF F, N
  <2> QED BY <1>1, <1>2, <1>3, FoldRecursion
<1>5. Goes(f)
  <2>1. ASSUME NEW S \in SUBSET (1..N), S # {}
        PROVE  Max(S) \in 1..N /\ S \ {Max(S)} \in SUBSET (1..N)
    BY <1>1, <2>1, MaxInRange
  <2>2. ASSUME NEW S \in SUBSET (1..N)
        PROVE  f[S] = IF S = {} THEN r
                      ELSE (IF entries[Max(S)].kind = "library" THEN LoadLibrary(f[S \ {Max(S)}], entries[Max(S)]) ELSE f[S \ {Max(S)}])
    BY <1>4, <2>1, <2>2 DEF Folding
  <2> QED BY <1>4, <2>2 DEF Folding
<1>6. Goes(iter)
  <2> HIDE DEF Goes
  <2> QED BY <1>5
<1>7. LoadLibraries(r, entries) = iter[1..N]
  BY <1>1 DEF LoadLibraries, FoldLeft, MapThenFoldSet
<1>8. \A S \in SUBSET (1..N) :
        iter[S] = IF S = {} THEN r
                  ELSE (IF entries[Max(S)].kind = "library" THEN LoadLibrary(iter[S \ {Max(S)}], entries[Max(S)]) ELSE iter[S \ {Max(S)}])
  <2> HIDE DEF iter
  <2> QED BY <1>6
<1> HIDE DEF iter, Goes, F
<1> DEFINE T == {k \in 0..N : iter[1..k] \in Registries}
<1>9. 0..N \subseteq T
  <2>1. 0 \in T
    <3>1. 1..0 = {} /\ 0 \in 0..N /\ 1..0 \in SUBSET (1..N)
      BY <1>1
    <3> QED BY <1>2, <1>8, <3>1
  <2>2. ASSUME NEW k \in 0..N-1, k \in T PROVE k + 1 \in T
    <3>1. k + 1 \in Nat \ {0} /\ k + 1 \in 1..N /\ k + 1 \in 0..N /\ (k + 1) - 1 = k /\ 1..k+1 \in SUBSET (1..N)
      BY <1>1
    <3>2. Max(1..k+1) = k + 1 /\ (1..k+1) \ {k+1} = 1..k /\ 1..k+1 # {}
      BY <3>1, MaxOfRange
    <3>3. iter[1..k] \in Registries /\ entries[k+1] \in Plugins
      BY <1>1, <2>2, <3>1
    <3>4. iter[1..k+1] = (IF entries[k+1].kind = "library" THEN LoadLibrary(iter[1..k], entries[k+1])
                          ELSE iter[1..k])
      BY <1>8, <3>1, <3>2
    <3>5. iter[1..k+1] \in Registries
      BY <3>3, <3>4, AnyLibraryStays
    <3> QED BY <3>1, <3>5
  <2> HIDE DEF T
  <2> QED BY <1>1, <2>1, <2>2, InductTo
<1> QED BY <1>1, <1>7, <1>9

LEMMA PackagesStay ==
  ASSUME NEW r \in Registries, NEW entries \in Seq(Plugins)
  PROVE  LoadPackages(r, entries) \in Registries
<1> DEFINE N == Len(entries)
           F == [p \in Registries \X (1..N) |-> (IF entries[p[2]].kind = "python" THEN LoadPython(p[1], entries[p[2]])
                                                 ELSE p[1])]
           Goes(f) == f = [S \in SUBSET (1..N) |->
                             IF S = {} THEN r
                             ELSE (IF entries[Max(S)].kind = "python" THEN LoadPython(f[S \ {Max(S)}], entries[Max(S)]) ELSE f[S \ {Max(S)}])]
           iter == CHOOSE f : Goes(f)
<1>1. N \in Nat /\ DOMAIN entries = 1..N /\ \A k \in 1..N : entries[k] \in Plugins
  BY LenProperties, ElementOfSeq
<1>2. r \in Registries
  OBVIOUS
<1>3. F \in [Registries \X (1..N) -> Registries]
  <2>1. ASSUME NEW q \in Registries, NEW k \in 1..N
        PROVE  (IF entries[k].kind = "python" THEN LoadPython(q, entries[k]) ELSE q) \in Registries
    BY <1>1, PythonStays
  <2> QED BY <2>1
<1>4. PICK f : Folding(f, Registries, r, N, F)
  <2> HIDE DEF F, N
  <2> QED BY <1>1, <1>2, <1>3, FoldRecursion
<1>5. Goes(f)
  <2>1. ASSUME NEW S \in SUBSET (1..N), S # {}
        PROVE  Max(S) \in 1..N /\ S \ {Max(S)} \in SUBSET (1..N)
    BY <1>1, <2>1, MaxInRange
  <2>2. ASSUME NEW S \in SUBSET (1..N)
        PROVE  f[S] = IF S = {} THEN r
                      ELSE (IF entries[Max(S)].kind = "python" THEN LoadPython(f[S \ {Max(S)}], entries[Max(S)]) ELSE f[S \ {Max(S)}])
    BY <1>4, <2>1, <2>2 DEF Folding
  <2> QED BY <1>4, <2>2 DEF Folding
<1>6. Goes(iter)
  <2> HIDE DEF Goes
  <2> QED BY <1>5
<1>7. LoadPackages(r, entries) = iter[1..N]
  BY <1>1 DEF LoadPackages, FoldLeft, MapThenFoldSet
<1>8. \A S \in SUBSET (1..N) :
        iter[S] = IF S = {} THEN r
                  ELSE (IF entries[Max(S)].kind = "python" THEN LoadPython(iter[S \ {Max(S)}], entries[Max(S)]) ELSE iter[S \ {Max(S)}])
  <2> HIDE DEF iter
  <2> QED BY <1>6
<1> HIDE DEF iter, Goes, F
<1> DEFINE T == {k \in 0..N : iter[1..k] \in Registries}
<1>9. 0..N \subseteq T
  <2>1. 0 \in T
    <3>1. 1..0 = {} /\ 0 \in 0..N /\ 1..0 \in SUBSET (1..N)
      BY <1>1
    <3> QED BY <1>2, <1>8, <3>1
  <2>2. ASSUME NEW k \in 0..N-1, k \in T PROVE k + 1 \in T
    <3>1. k + 1 \in Nat \ {0} /\ k + 1 \in 1..N /\ k + 1 \in 0..N /\ (k + 1) - 1 = k /\ 1..k+1 \in SUBSET (1..N)
      BY <1>1
    <3>2. Max(1..k+1) = k + 1 /\ (1..k+1) \ {k+1} = 1..k /\ 1..k+1 # {}
      BY <3>1, MaxOfRange
    <3>3. iter[1..k] \in Registries /\ entries[k+1] \in Plugins
      BY <1>1, <2>2, <3>1
    <3>4. iter[1..k+1] = (IF entries[k+1].kind = "python" THEN LoadPython(iter[1..k], entries[k+1])
                          ELSE iter[1..k])
      BY <1>8, <3>1, <3>2
    <3>5. iter[1..k+1] \in Registries
      BY <3>3, <3>4, PythonStays
    <3> QED BY <3>1, <3>5
  <2> HIDE DEF T
  <2> QED BY <1>1, <2>1, <2>2, InductTo
<1> QED BY <1>1, <1>7, <1>9

LEMMA PathStays ==
  ASSUME NEW r \in Registries, NEW entries \in Seq(Plugins), NEW python
  PROVE  LoadPluginsFromPath(r, entries, python) \in Registries
BY LibrariesStay, PackagesStay DEF LoadPluginsFromPath

LEMMA PathsStay ==
  ASSUME NEW r \in Registries, NEW python
  PROVE  LoadPaths(r, python) \in Registries
<1> DEFINE paths == <<Shipped>> \o OnPath
<1>0. paths \in Seq(Seq(Plugins))
  BY PluginsAssumption, ConcatProperties
<1> HIDE DEF paths
<1> DEFINE N == Len(paths)
           F == [p \in Registries \X (1..N) |-> LoadPluginsFromPath(p[1], paths[p[2]], python)]
           Goes(f) == f = [S \in SUBSET (1..N) |->
                             IF S = {} THEN r
                             ELSE LoadPluginsFromPath(f[S \ {Max(S)}], paths[Max(S)], python)]
           iter == CHOOSE f : Goes(f)
<1>1. N \in Nat /\ DOMAIN paths = 1..N /\ \A k \in 1..N : paths[k] \in Seq(Plugins)
  BY LenProperties, ElementOfSeq, <1>0
<1>2. r \in Registries
  OBVIOUS
<1>3. F \in [Registries \X (1..N) -> Registries]
  <2>1. ASSUME NEW q \in Registries, NEW k \in 1..N
        PROVE  LoadPluginsFromPath(q, paths[k], python) \in Registries
    BY <1>1, PathStays
  <2> QED BY <2>1
<1>4. PICK f : Folding(f, Registries, r, N, F)
  <2> HIDE DEF F, N
  <2> QED BY <1>1, <1>2, <1>3, FoldRecursion
<1>5. Goes(f)
  <2>1. ASSUME NEW S \in SUBSET (1..N), S # {}
        PROVE  Max(S) \in 1..N /\ S \ {Max(S)} \in SUBSET (1..N)
    BY <1>1, <2>1, MaxInRange
  <2>2. ASSUME NEW S \in SUBSET (1..N)
        PROVE  f[S] = IF S = {} THEN r
                      ELSE LoadPluginsFromPath(f[S \ {Max(S)}], paths[Max(S)], python)
    BY <1>4, <2>1, <2>2 DEF Folding
  <2> QED BY <1>4, <2>2 DEF Folding
<1>6. Goes(iter)
  <2> HIDE DEF Goes
  <2> QED BY <1>5
<1>7. LoadPaths(r, python) = iter[1..N]
  BY <1>1 DEF LoadPaths, paths, FoldLeft, MapThenFoldSet
<1>8. \A S \in SUBSET (1..N) :
        iter[S] = IF S = {} THEN r
                  ELSE LoadPluginsFromPath(iter[S \ {Max(S)}], paths[Max(S)], python)
  <2> HIDE DEF iter
  <2> QED BY <1>6
<1> HIDE DEF iter, Goes, F
<1> DEFINE T == {k \in 0..N : iter[1..k] \in Registries}
<1>9. 0..N \subseteq T
  <2>1. 0 \in T
    <3>1. 1..0 = {} /\ 0 \in 0..N /\ 1..0 \in SUBSET (1..N)
      BY <1>1
    <3> QED BY <1>2, <1>8, <3>1
  <2>2. ASSUME NEW k \in 0..N-1, k \in T PROVE k + 1 \in T
    <3>1. k + 1 \in Nat \ {0} /\ k + 1 \in 1..N /\ k + 1 \in 0..N /\ (k + 1) - 1 = k /\ 1..k+1 \in SUBSET (1..N)
      BY <1>1
    <3>2. Max(1..k+1) = k + 1 /\ (1..k+1) \ {k+1} = 1..k /\ 1..k+1 # {}
      BY <3>1, MaxOfRange
    <3>3. iter[1..k] \in Registries /\ paths[k+1] \in Seq(Plugins)
      BY <1>1, <2>2, <3>1
    <3>4. iter[1..k+1] = LoadPluginsFromPath(iter[1..k], paths[k+1], python)
      BY <1>8, <3>1, <3>2
    <3>5. iter[1..k+1] \in Registries
      BY <3>3, <3>4, PathStays
    <3> QED BY <3>1, <3>5
  <2> HIDE DEF T
  <2> QED BY <1>1, <2>1, <2>2, InductTo
<1> QED BY <1>1, <1>7, <1>9

LEMMA Becoming ==
  ASSUME NEW r \in Registries, Become(r)
  PROVE  Current' \in Registries
<1>1. [operations |-> r.operations, pythonOperations |-> r.pythonOperations, wrappers |-> r.wrappers] \in Registries
  <2>1. r = [operations |-> r.operations, pythonOperations |-> r.pythonOperations, wrappers |-> r.wrappers]
    BY RegistryShape
  <2> QED BY <2>1, Zenon
<1> QED BY <1>1, Zenon DEF Become, Current

Registering == /\ Current \in Registries /\ script \in Scripts /\ at \in Nat \ {0}

LEMMA RegisteringStep == Registering /\ [SessionNext]_allVars => Registering'
<1> SUFFICES ASSUME Registering, [SessionNext]_allVars PROVE Registering'
  OBVIOUS
<1>1. CASE Import
  <2> DEFINE r == LoadPaths(Current, TRUE)
  <2>1. Become(r)
    BY <1>1 DEF Import, LoadPlugins
  <2>2. r \in Registries
    BY PathsStay DEF Registering
  <2> HIDE DEF r
  <2>3. Current' \in Registries
    BY <2>1, <2>2, Becoming
  <2> QED BY <1>1, <2>3 DEF Import, Calls, Registering
<1>2. CASE LoadMore
  <2>1. call.files \in Seq(Plugins)
    <3>1. at \in DOMAIN script /\ script[at].call = "loadPluginsFromPath"
      BY <1>2, ScriptsAssumption DEF LoadMore, Calls, call, Registering
    <3> QED BY <3>1, ScriptsAssumption DEF Handed, call, Registering
  <2> DEFINE r == LoadPluginsFromPath(Current, call.files, TRUE)
  <2>2. r \in Registries
    BY <2>1, PathStays DEF Registering
  <2>3. Become(r)
    BY <1>2 DEF LoadMore
  <2> HIDE DEF r
  <2> QED BY <1>2, <2>2, <2>3, Becoming DEF LoadMore, Calls, Registering
<1>3. CASE Deregister
  <2> DEFINE name == call.operation
             D == DOMAIN operations \ {name}
             E == DOMAIN pythonOperations \ {name}
  <2>1. /\ operations' = [x \in D |-> operations[x]] /\ pythonOperations' = [x \in E |-> pythonOperations[x]]
        /\ wrappers' = wrappers
    BY <1>3 DEF Deregister, DeregisterOperation, Without, Restrict
  <2>2. /\ DOMAIN operations \subseteq DOMAIN Definitions /\ operations \in [DOMAIN operations -> Entries]
        /\ pythonOperations \in [DOMAIN pythonOperations -> Nat] /\ wrappers \in Nat /\ Usable(Current)
    BY RegistryShape DEF Registering, Current
  <2>3. D \in SUBSET DOMAIN Definitions /\ E \in SUBSET D /\ operations' \in [D -> Entries]
        /\ pythonOperations' \in [E -> Nat] /\ wrappers' \in Nat
    BY <2>1, <2>2 DEF Usable, Current
  <2>4. \A n \in D : operations'[n].wrapper # 0 => n \in E /\ pythonOperations'[n] = operations'[n].wrapper
    BY <2>1, <2>2 DEF Usable, Current
  <2> HIDE DEF D, E
  <2>5. Current' \in Registries
    BY <2>3, <2>4, RegistryMade DEF Current
  <2> QED BY <1>3, <2>5 DEF Deregister, Calls, Registering
<1>4. CASE CliProcess
  <2>1. Empty \in Registries
    <3>1. Nothing \in [{} -> Entries] /\ Nothing \in [{} -> Nat]
      BY DEF Nothing
    <3> QED BY <3>1, RegistryMade DEF Empty
  <2> DEFINE r == LoadPaths(Empty, FALSE)
  <2>2. Become(r)
    BY <1>4 DEF CliProcess, LoadPlugins
  <2>3. r \in Registries
    BY <2>1, PathsStay
  <2> HIDE DEF r
  <2>4. Current' \in Registries
    BY <2>2, <2>3, Becoming
  <2> QED BY <1>4, <2>4 DEF CliProcess, Calls, Registering
<1>5. CASE ~(Import \/ LoadMore \/ Deregister \/ CliProcess)
  <2>1. UNCHANGED registryVars
    BY <1>5 DEF SessionNext, allVars, SetStage, ExecuteConfig, ExecuteMapped, RunCommand,
       OtherSteps,
       ExecuteOne, Hold, Analyze, Optimize, CheckStage, Analyzed, ExecuteNext, CliParse, CliRun, CliNothing,
       CliReturned, CliWrite, CliExit, Ended
  <2>2. UNCHANGED script /\ at' \in {at, at + 1}
    BY <1>5 DEF SessionNext, allVars, sessionVars, callVars, Calls, SetStage, ExecuteConfig,
       ExecuteMapped,
       RunCommand, OtherSteps, ExecuteOne, Hold, Analyze, Optimize, CheckStage, Analyzed, ExecuteNext,
       CliParse, CliRun, CliNothing, CliReturned, CliWrite, CliExit, Ended
  <2> QED BY <2>1, <2>2 DEF Registering, Current, registryVars
<1> QED BY <1>1, <1>2, <1>3, <1>4, <1>5

LEMMA RegisteringInit == SessionInit => Registering
<1> SUFFICES ASSUME SessionInit PROVE Registering
  OBVIOUS
<1>1. Nothing \in [{} -> Entries] /\ Nothing \in [{} -> Nat]
  BY DEF Nothing
<1>2. Current \in Registries
  BY <1>1, RegistryMade DEF SessionInit, Current
<1> QED BY <1>2 DEF SessionInit, Registering

\* Whatever plugins are loaded, from wherever and however often, and whatever is
\* deregistered: what is registered has its owner, and nothing else has one.
THEOREM RegisteredIsUsable == SessionSpec => []OperationsUsable
<1>1. Registering => OperationsUsable
  BY RegistryShape DEF Registering, Current, Usable, OperationsUsable
<1> QED BY <1>1, RegisteringInit, RegisteringStep, PTL DEF SessionSpec

-----------------------------------------------------------------------------
(* Values and arguments *)

\* A bound that there is, is the only one.
LEMMA OneOf ==
  ASSUME NEW S \in SUBSET Int, \A b, c \in S : b = c
  PROVE  S = {} \/ \E b \in Int : S = {b}
OBVIOUS

LEMMA BoundedIsNearest ==
  ASSUME NEW argument, BoundsTell(argument), NEW n \in Int
  PROVE  /\ Clamped(n, argument.min, argument.max) = Nearest(argument, n)
         /\ Nearest(argument, n) \in Int
<1> DEFINE lower == argument.min
           upper == argument.max
           IsNear(b) == Between(argument, b) /\ IF n < b THEN b \in lower ELSE b \in upper
<1>1. /\ lower = {} \/ \E b \in Int : lower = {b}
      /\ upper = {} \/ \E b \in Int : upper = {b}
      /\ \A b \in lower, c \in upper : b <= c
  BY OneOf DEF BoundsTell
<1>2. CASE Between(argument, n)
  <2>1. Nearest(argument, n) = n
    BY <1>2 DEF Nearest
  <2>2. (\A b \in lower : ~(n < b)) /\ (\A b \in upper : ~(n > b))
    BY <1>1, <1>2 DEF Between
  <2>3. Clamped(n, lower, upper) = n
    BY <2>2 DEF Clamped
  <2> QED BY <2>1, <2>3
<1>3. CASE \E b \in lower : n < b
  <2>1. PICK b \in Int : lower = {b} /\ n < b
    BY <1>1, <1>3
  <2>2. \A c \in upper : ~(b > c)
    BY <1>1, <2>1
  <2>3. Clamped(n, lower, upper) = b
    <3>1. (CHOOSE c \in lower : TRUE) = b /\ (\E c \in lower : n < c)
      BY <2>1
    <3> QED BY <3>1, <2>2 DEF Clamped
  <2>4. IsNear(b) /\ \A c \in lower \cup upper : IsNear(c) => c = b
    BY <1>1, <2>1, <2>2 DEF Between
  <2>5. (CHOOSE c \in lower \cup upper : IsNear(c)) = b
    <3>1. b \in lower \cup upper
      BY <2>1
    <3> HIDE DEF IsNear
    <3> QED BY <2>4, <3>1
  <2>6. ~Between(argument, n)
    BY <1>1, <2>1 DEF Between
  <2>7. Nearest(argument, n) = b
    BY <2>5, <2>6 DEF Nearest
  <2> QED BY <2>1, <2>3, <2>7
<1>4. CASE (\A b \in lower : ~(n < b)) /\ ~Between(argument, n)
  <2>1. PICK b \in Int : upper = {b} /\ n > b
    BY <1>1, <1>4 DEF Between
  <2>2. Clamped(n, lower, upper) = b
    BY <1>4, <2>1 DEF Clamped
  <2>3. ~(n < b)
    BY <2>1
  <2>4. IsNear(b) /\ \A c \in lower \cup upper : IsNear(c) => c = b
    BY <1>1, <1>4, <2>1, <2>3 DEF Between
  <2>5. (CHOOSE c \in lower \cup upper : IsNear(c)) = b
    <3>1. b \in lower \cup upper
      BY <2>1
    <3> HIDE DEF IsNear
    <3> QED BY <2>4, <3>1
  <2>6. Nearest(argument, n) = b
    BY <1>4, <2>5 DEF Nearest
  <2> QED BY <2>1, <2>2, <2>6
<1> QED BY <1>2, <1>3, <1>4

LEMMA TruncatedIsNearest ==
  ASSUME NEW argument, BoundsTell(argument), Type(argument.defaultValue) = "int", NEW n \in Int
  PROVE  Clamped(n, {Truncated(b) : b \in argument.min}, {Truncated(b) : b \in argument.max})
           = Nearest(argument, 2 * n) \div 2
<1> DEFINE lower == argument.min
           upper == argument.max
           low == {Truncated(b) : b \in lower}
           up == {Truncated(b) : b \in upper}
<1>1. /\ lower = {} \/ \E b \in Int : lower = {b}
      /\ upper = {} \/ \E b \in Int : upper = {b}
      /\ \A b \in lower, c \in upper : b <= c
      /\ \A b \in lower \cup upper : Truncated(b) = b \div 2
  BY OneOf DEF BoundsTell
<1>2. Clamped(2 * n, lower, upper) = Nearest(argument, 2 * n)
  BY BoundedIsNearest
<1>3. \A b \in Int : /\ b \div 2 \in Int /\ (2 * n < b <=> n < b \div 2 \/ (2 * n) + 1 = b)
                     /\ ((2 * n) + 1 = b => b \div 2 = n)
                     /\ (n > b \div 2 => 2 * n > b) /\ (2 * n > b => n >= b \div 2)
                     /\ (2 * n > b /\ n = b \div 2 => FALSE)
                     /\ (2 * n) \div 2 = n
  OBVIOUS
<1>4. \A b, c \in Int : b <= c => b \div 2 <= c \div 2
  OBVIOUS
<1>5. low = {} <=> lower = {}
  OBVIOUS
<1>6. \A b \in Int : lower = {b} => low = {b \div 2}
  BY <1>1
<1>7. \A b \in Int : upper = {b} => up = {b \div 2}
  BY <1>1
<1> DEFINE raised == IF \E b \in lower : 2 * n < b THEN CHOOSE b \in lower : TRUE ELSE 2 * n
           lifted == IF \E b \in low : n < b THEN CHOOSE b \in low : TRUE ELSE n
<1>8. raised \in Int /\ lifted = raised \div 2
  <2>1. CASE lower = {}
    BY <1>3, <2>1
  <2>2. ASSUME NEW b \in Int, lower = {b} PROVE raised \in Int /\ lifted = raised \div 2
    <3>1. low = {b \div 2}
      BY <1>6, <2>2
    <3>2. raised = IF 2 * n < b THEN b ELSE 2 * n
      BY <2>2
    <3>3. lifted = IF n < b \div 2 THEN b \div 2 ELSE n
      BY <3>1
    <3> HIDE DEF raised, lifted
    <3> QED BY <1>3, <3>2, <3>3
  <2> QED BY <1>1, <2>1, <2>2
<1>9. Clamped(2 * n, lower, upper) = (IF \E b \in upper : raised > b THEN CHOOSE b \in upper : TRUE
                                      ELSE raised)
  BY DEF Clamped
<1>10. Clamped(n, low, up) = (IF \E b \in up : lifted > b THEN CHOOSE b \in up : TRUE ELSE lifted)
  BY DEF Clamped
<1>11. Clamped(n, low, up) = Clamped(2 * n, lower, upper) \div 2
  <2> HIDE DEF raised, lifted
  <2>1. CASE upper = {}
    <3>1. up = {}
      BY <2>1
    <3> QED BY <1>8, <1>9, <1>10, <2>1, <3>1
  <2>2. ASSUME NEW b \in Int, upper = {b}
        PROVE  Clamped(n, low, up) = Clamped(2 * n, lower, upper) \div 2
    <3>1. up = {b \div 2}
      BY <1>7, <2>2
    <3>2. Clamped(2 * n, lower, upper) = IF raised > b THEN b ELSE raised
      BY <1>9, <2>2
    <3>3. Clamped(n, low, up) = IF lifted > b \div 2 THEN b \div 2 ELSE lifted
      BY <1>10, <3>1
    <3> HIDE DEF low, up
    <3> QED BY <1>4, <1>8, <3>2, <3>3
  <2> QED BY <1>1, <2>1, <2>2
<1> QED BY <1>2, <1>11

\* What an argument that is not rejected has of a value is what the value means for it.
LEMMA StoredMeans ==
  ASSUME NEW argument, BoundsTell(argument), NEW v, IsValue(v), ~Rejected(argument, v)
  PROVE  (CHOOSE stored \in SetArg(argument, v) : TRUE) = Meaning(argument, v) /\ Settable(argument)
<1>1. /\ SetArg(argument, v) # {}
      /\ \/ Type(v) = Type(argument.defaultValue)
         \/ Type(v) = "int" /\ Type(argument.defaultValue) = "real"
  BY DEF Rejected
<1>2. CASE Type(v) \in {"string", "bool"}
  BY <1>1, <1>2 DEF SetArg, Meaning, IsNumber, Settable
<1>3. CASE Type(v) = "int" /\ Type(argument.defaultValue) = "real"
  <2>1. v[2] \in Int /\ 2 * v[2] \in Int
    BY <1>3 DEF IsValue, IsNumber
  <2>2. SetArg(argument, v) = { <<"real", Nearest(argument, 2 * v[2])>> }
    <3>1. SetArg(argument, v) = { Bounded(argument, 2 * v[2]) }
      BY <1>3 DEF SetArg
    <3>2. Clamped(2 * v[2], argument.min, argument.max) = Nearest(argument, 2 * v[2])
      BY <2>1, BoundedIsNearest
    <3> QED BY <3>1, <3>2 DEF Bounded
  <2>3. Meaning(argument, v) = <<"real", Nearest(argument, 2 * v[2])>>
    BY <1>3 DEF Meaning, IsNumber, Real
  <2> QED BY <1>3, <2>2, <2>3 DEF Settable
<1>4. CASE Type(v) = "int" /\ Type(argument.defaultValue) = "int"
  <2>1. v[2] \in Int
    BY <1>4 DEF IsValue, IsNumber
  <2>2. SetArg(argument, v) = { <<"int", Nearest(argument, 2 * v[2]) \div 2>> }
    BY <1>4, <2>1, TruncatedIsNearest DEF SetArg
  <2>3. Meaning(argument, v) = <<"int", Nearest(argument, 2 * v[2]) \div 2>>
    BY <1>4 DEF Meaning, IsNumber, Real
  <2> QED BY <1>4, <2>2, <2>3 DEF Settable
<1>5. CASE Type(v) = "real"
  <2>1. v[2] \in Int /\ Type(argument.defaultValue) = "real"
    BY <1>1, <1>5 DEF IsValue, IsNumber
  <2>2. SetArg(argument, v) = { <<"real", Nearest(argument, v[2])>> }
    BY <1>5, <2>1, BoundedIsNearest DEF SetArg, Bounded
  <2>3. Meaning(argument, v) = <<"real", Nearest(argument, v[2])>>
    BY <1>5, <2>1 DEF Meaning, IsNumber, Real
  <2> QED BY <2>1, <2>2, <2>3 DEF Settable
<1>6. CASE Type(v) = "array"
  <2>0. ~IsNumber(v) /\ SetArg(argument, v) = ArrayValues(argument.arrayType, v[2])
        /\ Type(argument.defaultValue) = "array"
    BY <1>1, <1>6 DEF SetArg, IsNumber
  <2>1. CASE argument.arrayType = "real"
    <3>1. SetArg(argument, v) = { <<"array", [k \in DOMAIN v[2] |-> <<"real", Real(v[2][k])>>]>> }
      BY <1>1, <2>0, <2>1 DEF ArrayValues
    <3>2. Meaning(argument, v) = <<"array", [k \in DOMAIN v[2] |-> <<"real", Real(v[2][k])>>]>>
      BY <1>6, <2>0, <2>1 DEF Meaning
    <3> QED BY <2>0, <2>1, <3>1, <3>2 DEF Settable
  <2>2. CASE argument.arrayType \in {"int", "string"}
    <3>1. SetArg(argument, v) = { <<"array", v[2]>> }
      BY <1>1, <2>0, <2>2 DEF ArrayValues
    <3>2. Meaning(argument, v) = v /\ v = <<"array", v[2]>>
      BY <1>6, <2>0, <2>2 DEF Meaning, IsValue
    <3> QED BY <2>0, <2>2, <3>1, <3>2 DEF Settable
  <2>3. CASE argument.arrayType \notin {"int", "string", "real"}
    BY <1>1, <2>0, <2>3 DEF ArrayValues
  <2> QED BY <2>1, <2>2, <2>3
<1>7. CASE Type(v) \notin {"string", "bool", "int", "real", "array"}
  BY <1>1, <1>7 DEF SetArg
<1> QED BY <1>1, <1>2, <1>3, <1>4, <1>5, <1>6, <1>7

LEMMA DefinedIs ==
  ASSUME NEW arguments, WellDefined(arguments), NEW name, Named(arguments, name) # {}
  PROVE  /\ \E i \in DOMAIN arguments : Defined(arguments, name) = arguments[i] /\ arguments[i].name = name
         /\ BoundsTell(Defined(arguments, name)) /\ IsValue(Defined(arguments, name).defaultValue)
         /\ name \in Range(Keys) \ {"operation"}
         /\ Settable(Defined(arguments, name)) =>
              SetArg(Defined(arguments, name), Defined(arguments, name).defaultValue)
                = { Defined(arguments, name).defaultValue }
<1>1. PICK i \in DOMAIN arguments : Defined(arguments, name) = arguments[i] /\ arguments[i].name = name
  BY DEF Defined, Named
<1> QED BY <1>1 DEF WellDefined

LEMMA NameIsNamed ==
  ASSUME NEW arguments, NEW name \in NamesOf(arguments)
  PROVE  Named(arguments, name) # {}
BY DEF NamesOf, Valued, Named

\* What a member holds when the keys that are in Seen have been looked at.
Filled(arguments, held, object, Seen, ok, values) ==
  /\ ok \in BOOLEAN /\ values = [name \in NamesOf(arguments) |-> values[name]]
  /\ \A name \in NamesOf(arguments) :
       /\ values[name] = held[name] \/ Settable(Defined(arguments, name))
       /\ ok /\ name \in Seen \cap DOMAIN object =>
            values[name] = Meaning(Defined(arguments, name), object[name])
       /\ name \notin Seen \cap DOMAIN object => values[name] = held[name]
Fills(arguments, held, object, Seen, so) ==
  {"ok", "members"} \subseteq DOMAIN so /\ Filled(arguments, held, object, Seen, so.ok, so.members)
Fill(arguments, object, so, key) ==
  IF so.ok /\ key \in DOMAIN object /\ Named(arguments, key) # {}
  THEN Stored(arguments, so, key, object[key]) ELSE so

LEMMA FillStep ==
  ASSUME NEW arguments, WellDefined(arguments), NEW held, NEW object, \A k \in DOMAIN object : IsValue(object[k]),
         NEW Seen, NEW so, Fills(arguments, held, object, Seen, so), NEW key
  PROVE  Fills(arguments, held, object, Seen \cup {key}, Fill(arguments, object, so, key))
<1> DEFINE argument == Defined(arguments, key)
           new == Fill(arguments, object, so, key)
           one == CHOOSE stored \in SetArg(argument, object[key]) : TRUE
<1>1. CASE ~(so.ok /\ key \in DOMAIN object /\ Named(arguments, key) # {})
  <2>1. new = so
    BY <1>1 DEF Fill
  <2>2. so.ok => key \notin DOMAIN object \cap NamesOf(arguments)
    BY <1>1, NameIsNamed
  <2>3. Fills(arguments, held, object, Seen \cup {key}, so)
    BY <2>2 DEF Fills, Filled
  <2> QED BY <2>1, <2>3
<1>2. CASE so.ok /\ key \in DOMAIN object /\ Named(arguments, key) # {}
  <2>0. new = Stored(arguments, so, key, object[key]) /\ IsValue(object[key]) /\ BoundsTell(argument)
    BY <1>2, DefinedIs DEF Fill
  <2>1. CASE Rejected(argument, object[key])
    <3>1. new = [so EXCEPT !.ok = FALSE]
      BY <2>0, <2>1 DEF Stored
    <3>3. new.ok = FALSE /\ new.members = so.members
      BY <3>1 DEF Fills
    <3>4. {"ok", "members"} \subseteq DOMAIN new
      BY <3>1 DEF Fills
    <3> HIDE DEF new
    <3>5. /\ ~new.ok /\ new.ok \in BOOLEAN
          /\ new.members = [name \in NamesOf(arguments) |-> new.members[name]]
      BY <3>3 DEF Fills, Filled
    <3>6. \A name \in NamesOf(arguments) :
            /\ new.members[name] = held[name] \/ Settable(Defined(arguments, name))
            /\ name \notin Seen \cap DOMAIN object => new.members[name] = held[name]
      BY <3>3 DEF Fills, Filled
    <3>7. Filled(arguments, held, object, Seen \cup {key}, new.ok, new.members)
      BY <3>5, <3>6 DEF Filled
    <3> QED BY <3>4, <3>7 DEF Fills, new
  <2>2. CASE ~Rejected(argument, object[key])
    <3>1. one = Meaning(argument, object[key]) /\ Settable(argument)
      BY <2>0, <2>2, StoredMeans
    <3>2. new = [so EXCEPT !.members[key] = one]
      BY <2>0, <2>2 DEF Stored
    <3> DEFINE members0 == [so.members EXCEPT ![key] = one]
    <3>3. /\ {"ok", "members"} \subseteq DOMAIN new
          /\ new.ok = so.ok /\ new.members = members0
      BY <3>2 DEF Fills
    <3>4. /\ members0 = [name \in NamesOf(arguments) |-> members0[name]]
          /\ \A name \in NamesOf(arguments) :
               members0[name] = IF name = key THEN Meaning(argument, object[key])
                                ELSE so.members[name]
      BY <3>1 DEF Fills, Filled
    <3> HIDE DEF new, members0, argument
    <3>5. \A name \in NamesOf(arguments) :
            /\ members0[name] = held[name] \/ Settable(Defined(arguments, name))
            /\ name \in (Seen \cup {key}) \cap DOMAIN object =>
                 members0[name] = Meaning(Defined(arguments, name), object[name])
            /\ name \notin (Seen \cup {key}) \cap DOMAIN object => members0[name] = held[name]
      <4> SUFFICES ASSUME NEW name \in NamesOf(arguments)
                   PROVE  /\ members0[name] = held[name] \/ Settable(Defined(arguments, name))
                          /\ name \in (Seen \cup {key}) \cap DOMAIN object =>
                               members0[name] = Meaning(Defined(arguments, name), object[name])
                          /\ name \notin (Seen \cup {key}) \cap DOMAIN object => members0[name] = held[name]
        OBVIOUS
      <4>1. CASE name = key
        BY <1>2, <3>1, <3>4, <4>1 DEF argument
      <4>2. CASE name # key
        BY <1>2, <3>4, <4>2 DEF Fills, Filled
      <4> QED BY <4>1, <4>2
    <3>7. /\ new.ok \in BOOLEAN
          /\ new.members = [name \in NamesOf(arguments) |-> new.members[name]]
      BY <3>3, <3>4 DEF Fills, Filled
    <3>8. \A name \in NamesOf(arguments) :
            /\ new.members[name] = held[name] \/ Settable(Defined(arguments, name))
            /\ name \in (Seen \cup {key}) \cap DOMAIN object =>
                 new.members[name] = Meaning(Defined(arguments, name), object[name])
            /\ name \notin (Seen \cup {key}) \cap DOMAIN object => new.members[name] = held[name]
      BY <3>3, <3>5
    <3>9. Filled(arguments, held, object, Seen \cup {key}, new.ok, new.members)
      BY <3>7, <3>8 DEF Filled
    <3> QED BY <3>3, <3>9 DEF Fills, new
  <2> QED BY <2>1, <2>2
<1> QED BY <1>1, <1>2

LEMMA PopulateTells ==
  ASSUME NEW arguments, WellDefined(arguments), NEW held, held = [name \in NamesOf(arguments) |-> held[name]],
         NEW object, IsObject(object)
  PROVE  Fills(arguments, held, object, Range(Keys), PopulateExecutionArguments(arguments, held, object))
<1> DEFINE N == Len(Keys)
           W == {held[name] : name \in NamesOf(arguments)}
                  \cup {CHOOSE stored \in SetArg(Defined(arguments, k), object[k]) : TRUE : k \in DOMAIN object}
           V == [ok : BOOLEAN, members : [NamesOf(arguments) -> W]]
           base == [ok |-> TRUE, members |-> held]
           F == [p \in V \X (1..N) |-> Fill(arguments, object, p[1], Keys[p[2]])]
           Goes(f) == f = [S \in SUBSET (1..N) |->
                             IF S = {} THEN base
                             ELSE Fill(arguments, object, f[S \ {Max(S)}], Keys[Max(S)])]
           iter == CHOOSE f : Goes(f)
<1>1. N \in Nat /\ DOMAIN Keys = 1..N
  BY TextsAssumption, LenProperties
<1>2. base \in V
  OBVIOUS
<1>3. F \in [V \X (1..N) -> V]
  <2>1. ASSUME NEW so \in V, NEW key PROVE Fill(arguments, object, so, key) \in V
    <3> DEFINE one == CHOOSE stored \in SetArg(Defined(arguments, key), object[key]) : TRUE
    <3>1. CASE ~(so.ok /\ key \in DOMAIN object /\ Named(arguments, key) # {})
      BY <3>1 DEF Fill
    <3>2. CASE so.ok /\ key \in DOMAIN object /\ Named(arguments, key) # {}
      <4>1. Fill(arguments, object, so, key) \in {[so EXCEPT !.ok = FALSE], [so EXCEPT !.members[key] = one]}
        BY <3>2 DEF Fill, Stored
      <4>2. one \in W
        BY <3>2
      <4>3. /\ so = [ok |-> so.ok, members |-> so.members]
            /\ so.ok \in BOOLEAN /\ so.members \in [NamesOf(arguments) -> W]
            /\ so.members = [name \in NamesOf(arguments) |-> so.members[name]]
        OBVIOUS
      <4> HIDE DEF W, one
      <4>4. [so EXCEPT !.ok = FALSE] \in V
        OBVIOUS
      <4>5. [so.members EXCEPT ![key] = one] \in [NamesOf(arguments) -> W]
        BY <4>2, <4>3
      <4>6. [so EXCEPT !.members[key] = one] \in V
        BY <4>5
      <4> QED BY <4>1, <4>4, <4>6
    <3> QED BY <3>1, <3>2
  <2> HIDE DEF V
  <2> QED BY <2>1
<1> HIDE DEF V, base
<1>4. PICK f : Folding(f, V, base, N, F)
  <2> HIDE DEF F, N
  <2> QED BY <1>1, <1>2, <1>3, FoldRecursion
<1>5. Goes(f)
  <2>1. ASSUME NEW S \in SUBSET (1..N), S # {}
        PROVE  Max(S) \in 1..N /\ S \ {Max(S)} \in SUBSET (1..N)
    BY <1>1, <2>1, MaxInRange
  <2>2. ASSUME NEW S \in SUBSET (1..N)
        PROVE  f[S] = IF S = {} THEN base
                      ELSE Fill(arguments, object, f[S \ {Max(S)}], Keys[Max(S)])
    BY <1>4, <2>1, <2>2 DEF Folding
  <2> QED BY <1>4, <2>2 DEF Folding
<1>6. Goes(iter)
  <2> HIDE DEF Goes
  <2> QED BY <1>5
<1>7. PopulateExecutionArguments(arguments, held, object) = iter[1..N]
  BY <1>1 DEF PopulateExecutionArguments, FoldLeft, MapThenFoldSet, base, Fill
<1>8. \A S \in SUBSET (1..N) :
        iter[S] = IF S = {} THEN base ELSE Fill(arguments, object, iter[S \ {Max(S)}], Keys[Max(S)])
  <2> HIDE DEF iter
  <2> QED BY <1>6
<1> HIDE DEF iter, Goes, F
<1> DEFINE T == {k \in 0..N : Fills(arguments, held, object, {Keys[i] : i \in 1..k}, iter[1..k])}
<1>9. 0..N \subseteq T
  <2>1. 0 \in T
    <3>1. 1..0 = {} /\ 0 \in 0..N /\ 1..0 \in SUBSET (1..N)
      BY <1>1
    <3>2. iter[1..0] = [ok |-> TRUE, members |-> held] /\ {Keys[i] : i \in 1..0} = {}
      BY <1>8, <3>1 DEF base
    <3>3. Fills(arguments, held, object, {}, [ok |-> TRUE, members |-> held])
      BY DEF Fills, Filled
    <3> QED BY <3>1, <3>2, <3>3
  <2>2. ASSUME NEW k \in 0..N-1, k \in T PROVE k + 1 \in T
    <3>1. k + 1 \in Nat \ {0} /\ k + 1 \in 1..N /\ k + 1 \in 0..N /\ (k + 1) - 1 = k /\ 1..k+1 \in SUBSET (1..N)
      BY <1>1
    <3>2. Max(1..k+1) = k + 1 /\ (1..k+1) \ {k+1} = 1..k /\ 1..k+1 # {}
      BY <3>1, MaxOfRange
    <3>3. iter[1..k+1] = Fill(arguments, object, iter[1..k], Keys[k+1])
      BY <1>8, <3>1, <3>2
    <3>4. {Keys[i] : i \in 1..k+1} = {Keys[i] : i \in 1..k} \cup {Keys[k+1]}
      <4>1. 1..k+1 = (1..k) \cup {k+1}
        BY <2>2
      <4> QED BY <4>1
    <3>5. Fills(arguments, held, object, {Keys[i] : i \in 1..k}, iter[1..k])
      BY <2>2
    <3>6. \A key \in DOMAIN object : IsValue(object[key])
      BY DEF IsObject
    <3>7. Fills(arguments, held, object, {Keys[i] : i \in 1..k} \cup {Keys[k+1]}, iter[1..k+1])
      BY <3>3, <3>5, <3>6, FillStep
    <3> QED BY <3>1, <3>4, <3>7
  <2> HIDE DEF T
  <2> QED BY <1>1, <2>1, <2>2, InductTo
<1>10. {Keys[i] : i \in 1..N} = Range(Keys)
  BY <1>1 DEF Range
<1>11. N \in T
  <2> HIDE DEF T
  <2> QED BY <1>1, <1>9
<1> QED BY <1>7, <1>10, <1>11

\* An argument that cannot be set keeps its default; any other is set to it again.
LEMMA ResetRestores ==
  ASSUME NEW arguments, WellDefined(arguments), NEW object, NEW Seen, NEW so,
         Fills(arguments, Initial(arguments), object, Seen, so)
  PROVE  ResetArgs(arguments, so.members) = Initial(arguments)
<1> DEFINE set(name) == SetArg(Defined(arguments, name), Defined(arguments, name).defaultValue)
           default(name) == Defined(arguments, name).defaultValue
           reset(name) == IF set(name) = {} THEN so.members[name]
                          ELSE CHOOSE stored \in set(name) : TRUE
<1>1. ASSUME NEW name \in NamesOf(arguments) PROVE reset(name) = default(name)
  <2>1. Initial(arguments)[name] = default(name)
    BY DEF Initial
  <2>2. so.members[name] = default(name) \/ Settable(Defined(arguments, name))
    BY <2>1 DEF Fills, Filled
  <2>3. CASE Settable(Defined(arguments, name))
    <3>1. set(name) = {default(name)}
      BY <2>3, NameIsNamed, DefinedIs
    <3> HIDE DEF set, default
    <3> QED BY <3>1
  <2>4. CASE ~Settable(Defined(arguments, name))
    <3>1. set(name) = {}
      BY <2>4 DEF Settable, SetArg, ArrayValues
    <3> HIDE DEF set, default
    <3> QED BY <2>2, <2>4, <3>1
  <2> QED BY <2>3, <2>4
<1>2. ResetArgs(arguments, so.members) = [name \in NamesOf(arguments) |-> reset(name)]
  BY Zenon DEF ResetArgs
<1>3. Initial(arguments) = [name \in NamesOf(arguments) |-> default(name)]
  BY DEF Initial
<1> HIDE DEF reset, default
<1> QED BY <1>1, <1>2, <1>3

-----------------------------------------------------------------------------
(* Former names *)

\* Former names: nobody else's, no longer in use, and before the names of today in the order
\* of the keys.
Former(name) == IF name \in DOMAIN RenamedArgs THEN RenamedArgs[name] ELSE Nothing
Renames(former) ==
  /\ "operation" \notin DOMAIN former /\ \A old \in DOMAIN former : former[old] # "operation"
  /\ \A old \in DOMAIN former : former[old] \in Range(Keys) /\ former[old] \notin DOMAIN former
  /\ \A old, other \in DOMAIN former : former[old] = former[other] => old = other
  /\ \A i, j \in DOMAIN Keys : Keys[i] \in DOMAIN former /\ Keys[j] = former[Keys[i]] => i < j

LEMMA FormerRenames ==
  ASSUME NEW name
  PROVE  /\ Renames(Former(name))
         /\ name \in DOMAIN Definitions =>
              \A a \in NamesOf(Definitions[name].arguments) : a \notin DOMAIN Former(name)
<1>1. CASE name \in DOMAIN RenamedArgs
  BY <1>1, RenamedArgsAssumption DEF Former, Renames, Range
<1>2. CASE name \notin DOMAIN RenamedArgs
  BY <1>2 DEF Former, Renames, Nothing
<1> QED BY <1>1, <1>2

\* What an object says of an argument.
Given(former, object, a) ==
  IF a \in DOMAIN object THEN {object[a]}
  ELSE { object[k] : k \in { o \in DOMAIN object \cap DOMAIN former : former[o] = a } }

\* The object that is made of the keys in Seen.
Moved(name, former, object, Seen, mapped) ==
  /\ DOMAIN mapped = { MappedKey(former, x) : x \in Seen \cap DOMAIN object }
  /\ \A a \in DOMAIN mapped \ {"operation"} :
       \E x \in Seen \cap DOMAIN object : /\ MappedKey(former, x) = a /\ mapped[a] = object[x]
                                          /\ a \in Seen \cap DOMAIN object => x = a
  /\ "operation" \in DOMAIN mapped => mapped["operation"] = <<"string", name>>

LEMMA MoveStep ==
  ASSUME NEW name, NEW former, Renames(former), NEW object, NEW Seen, NEW mapped,
         Moved(name, former, object, Seen, mapped), NEW key,
         key \in DOMAIN former => former[key] \notin Seen
  PROVE  Moved(name, former, object, Seen \cup {key}, MapKey(name, former, object, mapped, key))
<1> DEFINE new == MapKey(name, former, object, mapped, key)
           to == MappedKey(former, key)
<1>1. CASE key \notin DOMAIN object
  <2>1. new = mapped /\ (Seen \cup {key}) \cap DOMAIN object = Seen \cap DOMAIN object
    BY <1>1 DEF MapKey
  <2> HIDE DEF new
  <2>2. Moved(name, former, object, Seen \cup {key}, new)
    BY <2>1 DEF Moved
  <2> QED BY <2>2 DEF new
<1>2. CASE key \in DOMAIN object
  <2> DEFINE v == IF key = "operation" THEN <<"string", name>> ELSE object[key]
  <2>1. key = "operation" => to = key
    BY DEF MappedKey, Renames
  <2>2. new = Put(mapped, to, v)
    BY <1>2, <2>1 DEF MapKey
  <2>3. /\ DOMAIN new = DOMAIN mapped \cup {to}
        /\ \A a \in DOMAIN new : new[a] = IF a = to THEN v ELSE mapped[a]
    BY <2>2 DEF Put
  <2>4. to = "operation" <=> key = "operation"
    BY DEF MappedKey, Renames
  <2>5. key # to => to \notin Seen /\ to # key
    BY DEF MappedKey
  <2> HIDE DEF new
  <2>6. DOMAIN new = { MappedKey(former, x) : x \in (Seen \cup {key}) \cap DOMAIN object }
    BY <1>2, <2>3 DEF Moved
  <2>7. ASSUME NEW a \in DOMAIN new \ {"operation"}
        PROVE  \E x \in (Seen \cup {key}) \cap DOMAIN object :
                 /\ MappedKey(former, x) = a /\ new[a] = object[x]
                 /\ a \in (Seen \cup {key}) \cap DOMAIN object => x = a
    <3>1. CASE a = to
      <4>1. new[a] = object[key]
        BY <2>3, <2>4, <2>7, <3>1
      <4> HIDE DEF v, to
      <4> QED BY <1>2, <2>5, <3>1, <4>1 DEF to
    <3>2. CASE a # to
      <4>1. PICK x \in Seen \cap DOMAIN object : /\ MappedKey(former, x) = a /\ mapped[a] = object[x]
                                                 /\ a \in Seen \cap DOMAIN object => x = a
        BY <2>3, <2>7, <3>2 DEF Moved
      <4>2. a \in DOMAIN mapped /\ new[a] = mapped[a]
        BY <2>3, <2>7, <3>2
      <4>3. a # key
        <5>1. CASE key \in DOMAIN former
          \* A former name is no name of today, and what has moved has one.
          BY <4>1, <5>1 DEF MappedKey, Renames
        <5>2. CASE key \notin DOMAIN former
          BY <3>2, <5>2 DEF MappedKey
        <5> QED BY <5>1, <5>2
      <4> HIDE DEF v, to
      <4> QED BY <4>1, <4>2, <4>3
    <3> QED BY <3>1, <3>2
  <2>8. "operation" \in DOMAIN new => new["operation"] = <<"string", name>>
    <3>1. CASE to = "operation"
      BY <2>3, <2>4, <3>1
    <3>2. CASE to # "operation"
      BY <2>3, <3>2 DEF Moved
    <3> QED BY <3>1, <3>2
  <2>9. Moved(name, former, object, Seen \cup {key}, new)
    BY <2>6, <2>7, <2>8 DEF Moved
  <2> QED BY <2>9 DEF new
<1> QED BY <1>1, <1>2

LEMMA MapMoves ==
  ASSUME NEW name, NEW former, Renames(former), NEW object
  PROVE  Moved(name, former, object, Range(Keys), Mapped(name, former, object))
<1> DEFINE N == Len(Keys)
           K == DOMAIN object \cup {former[k] : k \in DOMAIN former}
           W == {object[k] : k \in DOMAIN object} \cup {<<"string", name>>}
           V == UNION {[D -> W] : D \in SUBSET K}
           base == Nothing
           F == [p \in V \X (1..N) |-> MapKey(name, former, object, p[1], Keys[p[2]])]
           Goes(f) == f = [S \in SUBSET (1..N) |->
                             IF S = {} THEN base
                             ELSE MapKey(name, former, object, f[S \ {Max(S)}], Keys[Max(S)])]
           iter == CHOOSE f : Goes(f)
<1>1. N \in Nat /\ DOMAIN Keys = 1..N
  BY TextsAssumption, LenProperties
<1>2. base \in V
  <2>1. base \in [{} -> W]
    BY DEF Nothing
  <2> HIDE DEF base, W, K
  <2> QED BY <2>1
<1>3. F \in [V \X (1..N) -> V]
  <2>1. ASSUME NEW mapped \in V, NEW key PROVE MapKey(name, former, object, mapped, key) \in V
    <3>1. PICK D \in SUBSET K : mapped \in [D -> W]
      OBVIOUS
    <3>2. CASE key \notin DOMAIN object
      BY <3>2 DEF MapKey
    <3>3. CASE key \in DOMAIN object
      <4>1. PICK to \in K, v \in W : MapKey(name, former, object, mapped, key) = Put(mapped, to, v)
        BY <3>3 DEF MapKey, MappedKey
      <4> HIDE DEF W, K
      <4>2. Put(mapped, to, v) \in [D \cup {to} -> W]
        BY <3>1 DEF Put
      <4>3. D \cup {to} \in SUBSET K
        OBVIOUS
      <4> QED BY <4>1, <4>2, <4>3
    <3> QED BY <3>2, <3>3
  <2> HIDE DEF V
  <2> QED BY <2>1
<1> HIDE DEF V, base
<1>4. PICK f : Folding(f, V, base, N, F)
  <2> HIDE DEF F, N
  <2> QED BY <1>1, <1>2, <1>3, FoldRecursion
<1>5. Goes(f)
  <2>1. ASSUME NEW S \in SUBSET (1..N), S # {}
        PROVE  Max(S) \in 1..N /\ S \ {Max(S)} \in SUBSET (1..N)
    BY <1>1, <2>1, MaxInRange
  <2>2. ASSUME NEW S \in SUBSET (1..N)
        PROVE  f[S] = IF S = {} THEN base
                      ELSE MapKey(name, former, object, f[S \ {Max(S)}], Keys[Max(S)])
    BY <1>4, <2>1, <2>2 DEF Folding
  <2> QED BY <1>4, <2>2 DEF Folding
<1>6. Goes(iter)
  <2> HIDE DEF Goes
  <2> QED BY <1>5
<1>7. Mapped(name, former, object) = iter[1..N]
  BY <1>1 DEF Mapped, FoldLeft, MapThenFoldSet, base
<1>8. \A S \in SUBSET (1..N) :
        iter[S] = IF S = {} THEN base
                  ELSE MapKey(name, former, object, iter[S \ {Max(S)}], Keys[Max(S)])
  <2> HIDE DEF iter
  <2> QED BY <1>6
<1> HIDE DEF iter, Goes, F
<1> DEFINE T == {k \in 0..N : Moved(name, former, object, {Keys[i] : i \in 1..k}, iter[1..k])}
<1>9. 0..N \subseteq T
  <2>1. 0 \in T
    <3>1. 1..0 = {} /\ 0 \in 0..N /\ 1..0 \in SUBSET (1..N)
      BY <1>1
    <3>2. iter[1..0] = Nothing /\ {Keys[i] : i \in 1..0} = {}
      BY <1>8, <3>1 DEF base
    <3>3. Moved(name, former, object, {}, Nothing)
      BY DEF Moved, Nothing
    <3> QED BY <3>1, <3>2, <3>3
  <2>2. ASSUME NEW k \in 0..N-1, k \in T PROVE k + 1 \in T
    <3>1. k + 1 \in Nat \ {0} /\ k + 1 \in 1..N /\ k + 1 \in 0..N /\ (k + 1) - 1 = k /\ 1..k+1 \in SUBSET (1..N)
      BY <1>1
    <3>2. Max(1..k+1) = k + 1 /\ (1..k+1) \ {k+1} = 1..k /\ 1..k+1 # {}
      BY <3>1, MaxOfRange
    <3>3. iter[1..k+1] = MapKey(name, former, object, iter[1..k], Keys[k+1])
      BY <1>8, <3>1, <3>2
    <3>4. {Keys[i] : i \in 1..k+1} = {Keys[i] : i \in 1..k} \cup {Keys[k+1]}
      <4>1. 1..k+1 = (1..k) \cup {k+1}
        BY <2>2
      <4> QED BY <4>1
    <3>5. Moved(name, former, object, {Keys[i] : i \in 1..k}, iter[1..k])
      BY <2>2
    <3>6. Keys[k+1] \in DOMAIN former => former[Keys[k+1]] \notin {Keys[i] : i \in 1..k}
      <4>1. ASSUME Keys[k+1] \in DOMAIN former, NEW i \in 1..k, Keys[i] = former[Keys[k+1]]
            PROVE  FALSE
        <5>1. k + 1 < i
          BY <1>1, <3>1, <4>1 DEF Renames
        <5> QED BY <5>1
      <4> QED BY <4>1
    <3>7. Moved(name, former, object, {Keys[i] : i \in 1..k} \cup {Keys[k+1]}, iter[1..k+1])
      BY <3>3, <3>5, <3>6, MoveStep
    <3> QED BY <3>1, <3>4, <3>7
  <2> HIDE DEF T
  <2> QED BY <1>1, <2>1, <2>2, InductTo
<1>10. {Keys[i] : i \in 1..N} = Range(Keys)
  BY <1>1 DEF Range
<1>11. N \in T
  <2> HIDE DEF T
  <2> QED BY <1>1, <1>9
<1> QED BY <1>7, <1>10, <1>11

\* Mapping an object changes none of what it says of the arguments of today, and leaves no
\* former name in it.
LEMMA MovedGives ==
  ASSUME NEW name, NEW former, Renames(former), NEW object, IsObject(object), NEW mapped,
         Moved(name, former, object, Range(Keys), mapped)
  PROVE  /\ IsObject(mapped)
         /\ "operation" \in DOMAIN object => "operation" \in DOMAIN mapped /\ NameIn(mapped) = name
         /\ \A a : a \notin DOMAIN former /\ a # "operation" =>
              Given(former, object, a) = IF a \in DOMAIN mapped THEN {mapped[a]} ELSE {}
         /\ \A a \in DOMAIN mapped : a \notin DOMAIN former
<1>0. Range(Keys) \cap DOMAIN object = DOMAIN object
  BY DEF IsObject
<1>1. DOMAIN mapped = { MappedKey(former, x) : x \in DOMAIN object }
  BY <1>0 DEF Moved
<1>2. \A a \in DOMAIN mapped \ {"operation"} :
        \E x \in DOMAIN object : /\ MappedKey(former, x) = a /\ mapped[a] = object[x]
                                 /\ a \in DOMAIN object => x = a
  BY <1>0 DEF Moved
<1>3. IsObject(mapped)
  <2>1. DOMAIN mapped \subseteq Range(Keys)
    BY <1>1 DEF MappedKey, Renames, IsObject
  <2>2. ASSUME NEW a \in DOMAIN mapped PROVE IsValue(mapped[a])
    <3>1. CASE a = "operation"
      <4>1. mapped[a] = <<"string", name>>
        BY <2>2, <3>1 DEF Moved
      <4> QED BY <4>1 DEF IsValue, IsNumber, Type
    <3>2. CASE a # "operation"
      BY <1>2, <2>2, <3>2 DEF IsObject
    <3> QED BY <3>1, <3>2
  <2> QED BY <2>1, <2>2 DEF IsObject
<1>4. ASSUME "operation" \in DOMAIN object
      PROVE  "operation" \in DOMAIN mapped /\ NameIn(mapped) = name
  <2>1. MappedKey(former, "operation") = "operation"
    BY DEF MappedKey, Renames
  <2>2. "operation" \in DOMAIN mapped
    BY <1>1, <1>4, <2>1
  <2> QED BY <2>2 DEF Moved, NameIn
<1>5. ASSUME NEW a, a \notin DOMAIN former, a # "operation"
      PROVE  Given(former, object, a) = IF a \in DOMAIN mapped THEN {mapped[a]} ELSE {}
  <2> DEFINE olds == { o \in DOMAIN object \cap DOMAIN former : former[o] = a }
  <2>1. CASE a \in DOMAIN object
    <3>1. a \in DOMAIN mapped
      BY <1>1, <1>5, <2>1 DEF MappedKey
    <3>2. mapped[a] = object[a]
      BY <1>2, <1>5, <2>1, <3>1
    <3> QED BY <2>1, <3>1, <3>2 DEF Given
  <2>2. CASE a \notin DOMAIN object /\ a \in DOMAIN mapped
    <3>1. PICK x \in DOMAIN object : MappedKey(former, x) = a /\ mapped[a] = object[x]
      BY <1>2, <1>5, <2>2
    <3>2. x \in DOMAIN former /\ former[x] = a
      BY <2>2, <3>1 DEF MappedKey
    <3>3. olds = {x}
      BY <3>1, <3>2 DEF Renames
    <3>4. Given(former, object, a) = {object[k] : k \in olds}
      BY <2>2 DEF Given
    <3> HIDE DEF olds
    <3> QED BY <2>2, <3>1, <3>3, <3>4
  <2>3. CASE a \notin DOMAIN object /\ a \notin DOMAIN mapped
    <3>1. olds = {}
      BY <1>1, <2>3 DEF MappedKey
    <3>2. Given(former, object, a) = {object[k] : k \in olds}
      BY <2>3 DEF Given
    <3> HIDE DEF olds
    <3> QED BY <2>3, <3>1, <3>2
  <2> QED BY <2>1, <2>2, <2>3
<1>6. \A a \in DOMAIN mapped : a \notin DOMAIN former
  BY <1>1 DEF MappedKey, Renames
<1> QED BY <1>3, <1>4, <1>5, <1>6

\* Mapping, with the table loaded: as often as it is done, what an object says stays.
LEMMA MappingGives ==
  ASSUME mappings = LoadMappings, NEW name, NEW object, IsObject(object)
  PROVE  LET mapped == MapOperation(name, object)
         IN /\ IsObject(mapped)
            /\ "operation" \in DOMAIN object =>
                 "operation" \in DOMAIN mapped /\ NameIn(mapped) \in {name, NameIn(object)}
            /\ \A a : a \notin DOMAIN Former(name) /\ a # "operation" =>
                 Given(Former(name), object, a) = IF a \in DOMAIN mapped THEN {mapped[a]} ELSE {}
<1> DEFINE mapped == MapOperation(name, object)
           former == Former(name)
<1>1. CASE name \notin DOMAIN mappings
  <2>1. mapped = object
    BY <1>1 DEF MapOperation
  <2>2. former = Nothing
    BY <1>1 DEF LoadMappings, Former
  <2> HIDE DEF mapped, former
  <2>3. \A a : Given(former, object, a) = IF a \in DOMAIN object THEN {object[a]} ELSE {}
    BY <2>2 DEF Given, Nothing
  <2>4. /\ IsObject(mapped)
        /\ "operation" \in DOMAIN object =>
             "operation" \in DOMAIN mapped /\ NameIn(mapped) \in {name, NameIn(object)}
        /\ \A a : a \notin DOMAIN former /\ a # "operation" =>
             Given(former, object, a) = IF a \in DOMAIN mapped THEN {mapped[a]} ELSE {}
    BY <2>1, <2>3
  <2> QED BY <2>4 DEF mapped, former
<1>2. CASE name \in DOMAIN mappings
  <2>1. mappings[name].attributes = former
    BY <1>2 DEF LoadMappings, Former
  <2>2. mapped = Mapped(name, former, object)
    BY <1>2, <2>1 DEF MapOperation
  <2>3. Renames(former)
    BY FormerRenames
  <2> HIDE DEF mapped, former
  <2>4. Moved(name, former, object, Range(Keys), mapped)
    BY <2>2, <2>3, MapMoves
  <2>5. /\ IsObject(mapped)
        /\ "operation" \in DOMAIN object => "operation" \in DOMAIN mapped /\ NameIn(mapped) = name
        /\ \A a : a \notin DOMAIN former /\ a # "operation" =>
             Given(former, object, a) = IF a \in DOMAIN mapped THEN {mapped[a]} ELSE {}
    BY <2>3, <2>4, MovedGives
  <2> QED BY <2>5 DEF mapped, former
<1> QED BY <1>1, <1>2

\* Of an operation that is known, every argument has its name of today, and no other meaning.
LEMMA ArgumentNames ==
  ASSUME NEW name \in DOMAIN Definitions
  PROVE  /\ WellDefined(Arguments(name))
         /\ \A a \in NamesOf(Arguments(name)) : a \notin DOMAIN Former(name) /\ a # "operation"
<1>1. WellDefined(Arguments(name))
  BY DefinitionsAssumption DEF Arguments
<1>2. \A a \in NamesOf(Arguments(name)) : a # "operation" /\ a \notin DOMAIN Former(name)
  BY <1>1, FormerRenames, NameIsNamed, DefinedIs DEF Arguments
<1> QED BY <1>1, <1>2

\* Two objects that say the same of every argument.
Alike(name, object, source) ==
  \A a \in NamesOf(Arguments(name)) : Given(Former(name), object, a) = Given(Former(name), source, a)

LEMMA MappedIsAlike ==
  ASSUME mappings = LoadMappings, NEW name \in DOMAIN Definitions, NEW object, IsObject(object)
  PROVE  /\ IsObject(MapOperation(name, object)) /\ Alike(name, MapOperation(name, object), object)
         /\ \A a \in NamesOf(Arguments(name)) :
              LET mapped == MapOperation(name, object)
              IN Given(Former(name), object, a) = IF a \in DOMAIN mapped THEN {mapped[a]} ELSE {}
<1> DEFINE mapped == MapOperation(name, object)
           again == MapOperation(name, mapped)
<1>1. IsObject(mapped) /\ \A a \in NamesOf(Arguments(name)) :
              Given(Former(name), object, a) = IF a \in DOMAIN mapped THEN {mapped[a]} ELSE {}
  BY MappingGives, ArgumentNames
<1>2. Alike(name, mapped, object)
  <2> SUFFICES ASSUME NEW a \in NamesOf(Arguments(name))
               PROVE  Given(Former(name), mapped, a) = Given(Former(name), object, a)
    BY DEF Alike
  <2>1. \A k \in DOMAIN mapped : k \notin DOMAIN Former(name)
    <3>1. CASE name \notin DOMAIN mappings
      BY <3>1 DEF LoadMappings, Former, Nothing
    <3>2. CASE name \in DOMAIN mappings
      <4>1. Moved(name, Former(name), object, Range(Keys), mapped)
        <5>1. mappings[name].attributes = Former(name)
          BY <3>2 DEF LoadMappings, Former
        <5>2. mapped = Mapped(name, Former(name), object)
          BY <3>2, <5>1 DEF MapOperation
        <5> QED BY <5>2, FormerRenames, MapMoves
      <4> HIDE DEF mapped
      <4> QED BY <4>1, FormerRenames, MovedGives
    <3> QED BY <3>1, <3>2
  <2> HIDE DEF mapped
  <2>2. Given(Former(name), mapped, a) = IF a \in DOMAIN mapped THEN {mapped[a]} ELSE {}
    BY <2>1 DEF Given
  <2> QED BY <1>1, <2>2
<1> QED BY <1>1, <1>2

\* One execution has what its object says, the library's within the bounds.
Tells(one) ==
  \A name \in NamesOf(Arguments(one.operation)) :
    LET argument == Defined(Arguments(one.operation), name)
        said == Says(one, argument)
    IN one.members[name] =
         IF said = {} THEN argument.defaultValue
         ELSE LET v == CHOOSE v \in said : TRUE
              IN IF one.python THEN v ELSE Meaning(argument, v)

LEMMA SaysGiven ==
  ASSUME NEW one, NEW a \in NamesOf(Arguments(one.operation))
  PROVE  Says(one, Defined(Arguments(one.operation), a))
           = Given(IF one.renames THEN Former(one.operation) ELSE Nothing, one.given, a)
<1>1. Defined(Arguments(one.operation), a).name = a
  BY NameIsNamed DEF Defined, Named
<1> QED BY <1>1 DEF Says, Given, Former, Nothing

LEMMA LibraryTells ==
  ASSUME NEW name \in DOMAIN Definitions, NEW object, IsObject(object), NEW given, NEW so,
         ~IsPython(name),
         so = PopulateExecutionArguments(Arguments(name), Initial(Arguments(name)), object),
         \A a \in NamesOf(Arguments(name)) :
           Given(Former(name), given, a) = IF a \in DOMAIN object THEN {object[a]} ELSE {}
  PROVE  /\ so.ok => Tells(Told(name, given, so, TRUE))
         /\ ResetArgs(Arguments(name), so.members) = Initial(Arguments(name))
<1> DEFINE arguments == Arguments(name)
           one == Told(name, given, so, TRUE)
<1>1. WellDefined(arguments)
  BY ArgumentNames
<1>2. Fills(arguments, Initial(arguments), object, Range(Keys), so)
  BY <1>1, PopulateTells DEF Initial
<1>3. ResetArgs(arguments, so.members) = Initial(arguments)
  BY <1>1, <1>2, ResetRestores
<1>5. one.operation = name /\ one.renames /\ one.given = given
  BY DEF Told
<1>4. ASSUME so.ok, NEW a \in NamesOf(arguments)
      PROVE  LET argument == Defined(arguments, a)
                 said == Says(one, argument)
             IN one.members[a] = IF said = {} THEN argument.defaultValue
                                 ELSE LET v == CHOOSE v \in said : TRUE
                                      IN IF one.python THEN v ELSE Meaning(argument, v)
  <2>1. Says(one, Defined(arguments, a)) = IF a \in DOMAIN object THEN {object[a]} ELSE {}
    <3> HIDE DEF one
    <3> QED BY <1>5, SaysGiven
  <2>2. one.members = so.members /\ one.python = IsPython(name)
    BY DEF Told
  <2>3. a \in DOMAIN object => so.members[a] = Meaning(Defined(arguments, a), object[a])
    BY <1>2, <1>4 DEF Fills, Filled, IsObject
  <2>4. a \notin DOMAIN object => so.members[a] = Defined(arguments, a).defaultValue
    BY <1>2 DEF Fills, Filled, Initial
  <2> HIDE DEF one, arguments
  <2> QED BY <1>4, <2>1, <2>2, <2>3, <2>4
<1> HIDE DEF one
<1>6. so.ok => Tells(one)
  BY <1>4, <1>5 DEF Tells
<1> QED BY <1>3, <1>6 DEF one

LEMMA PythonTells ==
  ASSUME NEW name, IsPython(name), NEW object, NEW given, NEW renames, NEW ok,
         \A a \in NamesOf(Arguments(name)) :
           Given(IF renames THEN Former(name) ELSE Nothing, given, a)
             = IF a \in DOMAIN object THEN {object[a]} ELSE {}
  PROVE  Tells(Told(name, given, [ok |-> ok, members |-> Merged(Arguments(name), object)], renames))
<1> DEFINE arguments == Arguments(name)
           one == Told(name, given, [ok |-> ok, members |-> Merged(arguments, object)], renames)
<1>2. one.operation = name /\ one.renames = renames /\ one.given = given
  BY DEF Told
<1>1. ASSUME NEW a \in NamesOf(arguments)
      PROVE  LET argument == Defined(arguments, a)
                 said == Says(one, argument)
             IN one.members[a] = IF said = {} THEN argument.defaultValue
                                 ELSE LET v == CHOOSE v \in said : TRUE
                                      IN IF one.python THEN v ELSE Meaning(argument, v)
  <2>1. Says(one, Defined(arguments, a)) = IF a \in DOMAIN object THEN {object[a]} ELSE {}
    <3> HIDE DEF one
    <3> QED BY <1>2, SaysGiven
  <2>2. one.members = Merged(arguments, object) /\ one.python = IsPython(name)
    BY DEF Told
  <2>3. Merged(arguments, object)[a] = IF a \in DOMAIN object THEN object[a]
                                       ELSE Defined(arguments, a).defaultValue
    BY DEF Merged
  <2> HIDE DEF one, arguments
  <2> QED BY <2>1, <2>2, <2>3
<1> HIDE DEF one
<1>3. Tells(one)
  BY <1>1, <1>2 DEF Tells
<1> QED BY <1>3 DEF one

-----------------------------------------------------------------------------
(* Rules and batches *)

LEMMA SequenceIs ==
  ASSUME NEW E, NEW s \in Seq(E)
  PROVE  IsSequence(s)
BY LenProperties, SeqDef DEF IsSequence

\* What is kept of a sequence are elements of it.
LEMMA AmongIs ==
  ASSUME NEW s, IsSequence(s), NEW E
  PROVE  Among(s, E) \in Seq({s[i] : i \in DOMAIN s} \cap E)
<1> DEFINE N == Len(s)
           V == Seq({s[i] : i \in DOMAIN s} \cap E)
           Keep(kept, x) == IF x \in E THEN Append(kept, x) ELSE kept
           base == <<>>
           F == [p \in V \X (1..N) |-> Keep(p[1], s[p[2]])]
           Goes(f) == f = [S \in SUBSET (1..N) |->
                             IF S = {} THEN base ELSE Keep(f[S \ {Max(S)}], s[Max(S)])]
           iter == CHOOSE f : Goes(f)
<1>1. N \in Nat /\ DOMAIN s = 1..N
  BY DEF IsSequence
<1>2. base \in V
  BY EmptySeq
<1>3. \A kept \in V, k \in 1..N : Keep(kept, s[k]) \in V
  BY <1>1, AppendProperties
<1>a. F \in [V \X (1..N) -> V]
  <2> HIDE DEF V, Keep
  <2> QED BY <1>3
<1> HIDE DEF V, base, Keep
<1>4. PICK f : Folding(f, V, base, N, F)
  <2> HIDE DEF F, N
  <2> QED BY <1>1, <1>2, <1>a, FoldRecursion
<1>5. Goes(f)
  <2>1. ASSUME NEW S \in SUBSET (1..N), S # {}
        PROVE  Max(S) \in 1..N /\ S \ {Max(S)} \in SUBSET (1..N)
    BY <1>1, <2>1, MaxInRange
  <2>2. ASSUME NEW S \in SUBSET (1..N)
        PROVE  f[S] = IF S = {} THEN base ELSE Keep(f[S \ {Max(S)}], s[Max(S)])
    BY <1>4, <2>1, <2>2 DEF Folding
  <2> QED BY <1>4, <2>2 DEF Folding
<1>6. Goes(iter)
  <2> HIDE DEF Goes
  <2> QED BY <1>5
<1>7. Among(s, E) = iter[1..N]
  BY <1>1 DEF Among, FoldLeft, MapThenFoldSet, base, Keep
<1>8. \A S \in SUBSET (1..N) : iter[S] = IF S = {} THEN base
                                         ELSE Keep(iter[S \ {Max(S)}], s[Max(S)])
  <2> HIDE DEF iter
  <2> QED BY <1>6
<1> HIDE DEF iter, Goes, F
<1> DEFINE T == {k \in 0..N : iter[1..k] \in V}
<1>9. 0..N \subseteq T
  <2>1. 0 \in T
    <3>1. 1..0 = {} /\ 0 \in 0..N /\ 1..0 \in SUBSET (1..N)
      BY <1>1
    <3> QED BY <1>2, <1>8, <3>1
  <2>2. ASSUME NEW k \in 0..N-1, k \in T PROVE k + 1 \in T
    <3>1. k + 1 \in Nat \ {0} /\ k + 1 \in 1..N /\ k + 1 \in 0..N /\ (k + 1) - 1 = k /\ 1..k+1 \in SUBSET (1..N)
      BY <1>1
    <3>2. Max(1..k+1) = k + 1 /\ (1..k+1) \ {k+1} = 1..k /\ 1..k+1 # {}
      BY <3>1, MaxOfRange
    <3>3. iter[1..k+1] = Keep(iter[1..k], s[k+1])
      BY <1>8, <3>1, <3>2
    <3> QED BY <1>3, <2>2, <3>1, <3>3
  <2> HIDE DEF T
  <2> QED BY <1>1, <2>1, <2>2, InductTo
<1>10. N \in T
  <2> HIDE DEF T
  <2> QED BY <1>1, <1>9
<1> QED BY <1>7, <1>10 DEF V

LEMMA AmongTells ==
  ASSUME NEW s, IsSequence(s), NEW E
  PROVE  /\ IsSequence(Among(s, E))
         /\ \A k \in DOMAIN Among(s, E) : Among(s, E)[k] \in E /\ \E i \in DOMAIN s : Among(s, E)[k] = s[i]
<1> DEFINE kept == Among(s, E)
           values == {s[i] : i \in DOMAIN s} \cap E
<1>1. kept \in Seq(values)
  BY AmongIs
<1> HIDE DEF kept
<1>2. IsSequence(kept) /\ \A k \in DOMAIN kept : kept[k] \in values
  BY <1>1, SequenceIs, ElementOfSeq, LenProperties
<1> QED BY <1>2 DEF kept

\* What a rule asks for is an object of values.
LEMMA EffectiveIsObject ==
  ASSUME NEW rule, IsRule(rule), NEW assigned, \A p \in DOMAIN assigned : IsValue(assigned[p])
  PROVE  IsObject(EffectiveArgs(rule, assigned))
<1> DEFINE N == Len(rule.parameters)
           W == {rule.object[k] : k \in DOMAIN rule.object}
                  \cup {Assigned(rule, rule.parameters[i], assigned) : i \in 1..N}
           V == UNION {[D -> W] : D \in SUBSET Range(Keys)}
           Puts(object, i) == Put(object, rule.parameters[i].opArg, Assigned(rule, rule.parameters[i], assigned))
           base == rule.object
           F == [p \in V \X (1..N) |-> Puts(p[1], p[2])]
           Goes(f) == f = [S \in SUBSET (1..N) |->
                             IF S = {} THEN base ELSE Puts(f[S \ {Max(S)}], Max(S))]
           iter == CHOOSE f : Goes(f)
<1>1. N \in Nat /\ DOMAIN rule.parameters = 1..N
  BY DEF IsRule, IsSequence
<1>b. \A w \in W : IsValue(w)
  <2>1. ASSUME NEW i \in 1..N PROVE IsValue(Assigned(rule, rule.parameters[i], assigned))
    <3> DEFINE p == rule.parameters[i]
    <3>1. IsValue(p.value) /\ rule.operation \in DOMAIN Definitions
      BY <1>1 DEF IsRule
    <3>2. IsValue(FromOperation(rule, p))
      <4>1. CASE Named(Arguments(rule.operation), p.opArg) # {}
        <5>1. IsValue(Defined(Arguments(rule.operation), p.opArg).defaultValue)
          BY <3>1, <4>1, ArgumentNames, DefinedIs
        <5> HIDE DEF p
        <5> QED BY <3>1, <5>1 DEF FromOperation
      <4>2. CASE Named(Arguments(rule.operation), p.opArg) = {}
        BY <3>1, <4>2 DEF FromOperation
      <4> QED BY <4>1, <4>2
    <3> HIDE DEF p
    <3>3. IsValue(Assigned(rule, p, assigned))
      <4>1. CASE <<rule.name, p.name>> \in DOMAIN assigned
        <5>1. Assigned(rule, p, assigned) = assigned[<<rule.name, p.name>>]
          BY <4>1 DEF Assigned
        <5> QED BY <4>1, <5>1
      <4>2. CASE <<rule.name, p.name>> \notin DOMAIN assigned /\ <<p.name>> \in DOMAIN assigned
        <5>1. Assigned(rule, p, assigned) = assigned[<<p.name>>]
          BY <4>2 DEF Assigned
        <5> QED BY <4>2, <5>1
      <4>3. CASE <<rule.name, p.name>> \notin DOMAIN assigned /\ <<p.name>> \notin DOMAIN assigned
        BY <3>2, <4>3 DEF Assigned
      <4> QED BY <4>1, <4>2, <4>3
    <3> QED BY <3>3 DEF p
  <2>2. \A k \in DOMAIN rule.object : IsValue(rule.object[k])
    BY DEF IsRule, IsObject
  <2> QED BY <2>1, <2>2
<1>2. base \in V
  <2>1. rule.object = [k \in DOMAIN rule.object |-> rule.object[k]] /\ DOMAIN rule.object \subseteq Range(Keys)
    BY DEF IsRule, IsObject
  <2>2. rule.object \in [DOMAIN rule.object -> W]
    BY <2>1
  <2> HIDE DEF W
  <2> QED BY <2>1, <2>2
<1>3. ASSUME NEW object \in V, NEW i \in 1..N PROVE Puts(object, i) \in V
  <2>1. PICK D \in SUBSET Range(Keys) : object \in [D -> W]
    OBVIOUS
  <2> DEFINE to == rule.parameters[i].opArg
             v == Assigned(rule, rule.parameters[i], assigned)
  <2>2. to \in Range(Keys) /\ v \in W
    BY <1>1 DEF IsRule
  <2> HIDE DEF to, v, W
  <2>3. Put(object, to, v) \in [D \cup {to} -> W]
    BY <2>1, <2>2 DEF Put
  <2>4. D \cup {to} \in SUBSET Range(Keys)
    BY <2>2
  <2>5. Put(object, to, v) \in V
    BY <2>3, <2>4
  <2> QED BY <2>5 DEF to, v
<1>a. F \in [V \X (1..N) -> V]
  <2> HIDE DEF V, Puts
  <2> QED BY <1>3
<1> HIDE DEF V, base, Puts
<1>4. PICK f : Folding(f, V, base, N, F)
  <2> HIDE DEF F, N
  <2> QED BY <1>1, <1>2, <1>a, FoldRecursion
<1>5. Goes(f)
  <2>1. ASSUME NEW S \in SUBSET (1..N), S # {}
        PROVE  Max(S) \in 1..N /\ S \ {Max(S)} \in SUBSET (1..N)
    BY <1>1, <2>1, MaxInRange
  <2>2. ASSUME NEW S \in SUBSET (1..N)
        PROVE  f[S] = IF S = {} THEN base ELSE Puts(f[S \ {Max(S)}], Max(S))
    BY <1>4, <2>1, <2>2 DEF Folding
  <2> QED BY <1>4, <2>2 DEF Folding
<1>6. Goes(iter)
  <2> HIDE DEF Goes
  <2> QED BY <1>5
<1>7. EffectiveArgs(rule, assigned) = iter[1..N]
  BY <1>1 DEF EffectiveArgs, FoldLeft, MapThenFoldSet, base, Puts
<1>8. \A S \in SUBSET (1..N) : iter[S] = IF S = {} THEN base ELSE Puts(iter[S \ {Max(S)}], Max(S))
  <2> HIDE DEF iter
  <2> QED BY <1>6
<1> HIDE DEF iter, Goes, F
<1> DEFINE T == {k \in 0..N : iter[1..k] \in V}
<1>9. 0..N \subseteq T
  <2>1. 0 \in T
    <3>1. 1..0 = {} /\ 0 \in 0..N /\ 1..0 \in SUBSET (1..N)
      BY <1>1
    <3> QED BY <1>2, <1>8, <3>1
  <2>2. ASSUME NEW k \in 0..N-1, k \in T PROVE k + 1 \in T
    <3>1. k + 1 \in Nat \ {0} /\ k + 1 \in 1..N /\ k + 1 \in 0..N /\ (k + 1) - 1 = k /\ 1..k+1 \in SUBSET (1..N)
      BY <1>1
    <3>2. Max(1..k+1) = k + 1 /\ (1..k+1) \ {k+1} = 1..k /\ 1..k+1 # {}
      BY <3>1, MaxOfRange
    <3>3. iter[1..k+1] = Puts(iter[1..k], k+1)
      BY <1>8, <3>1, <3>2
    <3> QED BY <1>3, <2>2, <3>1, <3>3
  <2> HIDE DEF T
  <2> QED BY <1>1, <2>1, <2>2, InductTo
<1>10. iter[1..N] \in V
  <2>1. N \in T
    <3> HIDE DEF T
    <3> QED BY <1>1, <1>9
  <2> QED BY <2>1
<1>11. PICK D \in SUBSET Range(Keys) : iter[1..N] \in [D -> W]
  BY <1>10 DEF V
<1> DEFINE end == iter[1..N]
<1> HIDE DEF end, W
<1>12. end \in [D -> W]
  BY <1>11 DEF end
<1>13. IsObject(end)
  BY <1>b, <1>12 DEF IsObject
<1> QED BY <1>7, <1>13 DEF end

-----------------------------------------------------------------------------
(* The command line *)

\* Commands that somebody runs, each an object.
Commanded(asked) ==
  /\ IsSequence(asked)
  /\ \A k \in DOMAIN asked : /\ IsObject(asked[k]) /\ "operation" \in DOMAIN asked[k]
                            /\ GetOperation(NameIn(asked[k])) # NoName
\* The arguments of the command line, with all their fields.
Shaped(args) ==
  /\ args = [config |-> args.config, input |-> args.input, output |-> args.output, json |-> args.json,
             flatten |-> args.flatten, relative |-> args.relative, stats |-> args.stats,
             report |-> args.report, analysis |-> args.analysis, commands |-> args.commands]
  /\ Commanded(args.commands)
\* A parse whose commands can be run; an argument is only taken when there is one.
Parsed(p) == /\ p = [what |-> p.what, takes |-> p.takes, args |-> p.args]
             /\ p.takes \in Taking \cup {NoName}
             /\ Shaped(p.args) /\ (p.takes = "-a" => p.args.commands # <<>>)
Defining == DOMAIN operations \subseteq DOMAIN Definitions

LEMMA AppendShape ==
  ASSUME NEW s, IsSequence(s), NEW e
  PROVE  IsSequence(Append(s, e))
<1> DEFINE E == {s[i] : i \in DOMAIN s} \cup {e}
<1>1. s \in Seq(E)
  BY SeqDef DEF IsSequence
<1>2. Append(s, e) \in Seq(E)
  BY <1>1, AppendProperties
<1> QED BY <1>2, SequenceIs

LEMMA AppendCommand ==
  ASSUME NEW asked, Commanded(asked), NEW name, GetOperation(name) # NoName
  PROVE  Commanded(Append(asked, [operation |-> <<"string", name>>]))
<1> DEFINE one == [operation |-> <<"string", name>>]
           more == Append(asked, one)
<1>1. /\ IsSequence(more)
      /\ \A k \in DOMAIN more : (k \in DOMAIN asked /\ more[k] = asked[k]) \/ more[k] = one
  <2>1. IsSequence(asked)
    BY DEF Commanded
  <2>2. asked \in Seq({asked[i] : i \in DOMAIN asked} \cup {one})
    BY <2>1, SeqDef DEF IsSequence
  <2> HIDE DEF one
  <2>3. \A k \in DOMAIN more : (k \in DOMAIN asked /\ more[k] = asked[k]) \/ more[k] = one
    BY <2>2, AppendProperties, LenProperties
  <2> QED BY <2>1, <2>3, AppendShape
<1>2. IsValue(one["operation"]) /\ DOMAIN one = {"operation"} /\ NameIn(one) = name
  BY DEF IsValue, IsNumber, Type, NameIn
<1>3. IsObject(one)
  BY <1>2, TextsAssumption DEF IsObject
<1> HIDE DEF one, more
<1>4. Commanded(more)
  BY <1>1, <1>2, <1>3 DEF Commanded
<1> QED BY <1>4 DEF one, more

\* A value made of a word is a value.
LEMMA TextIsValue ==
  ASSUME NEW argument, NEW text, NEW v \in ValueOfText(argument, text)
  PROVE  IsValue(v)
<1>1. ASSUME NEW type, v \in ParseAs(type, text) PROVE IsValue(v)
  <2>1. CASE type = "int"
    <3>1. text \in DOMAIN Integers10 /\ v = <<"int", Integers10[text]>>
      BY <1>1, <2>1 DEF ParseAs, ParseInt
    <3> QED BY <3>1, TextsAssumption DEF IsValue, Type
  <2>2. CASE type = "real"
    <3>1. text \in DOMAIN Numbers /\ v = <<"real", Numbers[text]>>
      BY <1>1, <2>2 DEF ParseAs, ParseReal
    <3> QED BY <3>1, TextsAssumption DEF IsValue, Type
  <2>3. CASE type = "string"
    <3>1. v = <<"string", text>>
      BY <1>1, <2>3 DEF ParseAs
    <3> QED BY <3>1 DEF IsValue, IsNumber, Type
  <2> QED BY <1>1, <2>1, <2>2, <2>3 DEF ParseAs
<1>2. ASSUME v \in ParseBool(text) PROVE IsValue(v)
  <2>1. \E b : v = <<"bool", b>>
    BY <1>2, Zenon DEF ParseBool
  <2> QED BY <2>1 DEF IsValue, IsNumber, Type
<1>3. ASSUME NEW type, NEW texts, v \in TransformValue(type, texts) PROVE IsValue(v)
  <2>1. \E list : v = <<"array", list>>
    BY <1>3, Zenon DEF TransformValue
  <2> QED BY <2>1 DEF IsValue, IsNumber, Type
<1> QED BY <1>1, <1>2, <1>3 DEF ValueOfText

LEMMA ArgsSet ==
  ASSUME NEW a, Shaped(a), NEW v
  PROVE  /\ Shaped([a EXCEPT !.config = v]) /\ Shaped([a EXCEPT !.input = v])
         /\ Shaped([a EXCEPT !.output = v]) /\ Shaped([a EXCEPT !.json = v])
         /\ Shaped([a EXCEPT !.flatten = v]) /\ Shaped([a EXCEPT !.relative = v])
         /\ Shaped([a EXCEPT !.stats = v]) /\ Shaped([a EXCEPT !.report = v])
         /\ Shaped([a EXCEPT !.analysis = v])
         /\ Commanded(v) => Shaped([a EXCEPT !.commands = v])
<1> QED BY DEF Shaped

LEMMA ParseSet ==
  ASSUME NEW p, Parsed(p), p.takes # "-a", NEW a, Shaped(a), NEW q, q = [p EXCEPT !.args = a]
  PROVE  Parsed(q)
BY DEF Parsed

LEMMA ParseExit ==
  ASSUME NEW p, Parsed(p)
  PROVE  Parsed(Exit(p))
BY DEF Parsed, Exit

LEMMA SwitchParses ==
  ASSUME NEW p, Parsed(p), p.takes = NoName, NEW option \in Switching
  PROVE  Parsed(Switch(p, option))
<1>1. \E a : Shaped(a) /\ Switch(p, option) = [p EXCEPT !.args = a]
  <2>1. Shaped(p.args)
    BY DEF Parsed
  <2>2. option = "-an" \/ option = "-fl" \/ option = "-r" \/ option = "-rp" \/ option = "-s"
    BY DEF Switching
  <2>3. CASE option = "-an"
    BY <2>1, <2>3, ArgsSet DEF Switch
  <2>4. CASE option = "-fl"
    BY <2>1, <2>4, ArgsSet DEF Switch
  <2>5. CASE option = "-r"
    BY <2>1, <2>5, ArgsSet DEF Switch
  <2>6. CASE option = "-rp"
    BY <2>1, <2>6, ArgsSet DEF Switch
  <2>7. CASE option = "-s"
    BY <2>1, <2>7, ArgsSet DEF Switch
  <2> QED BY <2>2, <2>3, <2>4, <2>5, <2>6, <2>7
<1>2. p.takes # "-a"
  BY DEF NoName
<1> QED BY <1>1, <1>2, ParseSet

LEMMA OperationParses ==
  ASSUME NEW p, Parsed(p), p.takes = NoName, NEW name
  PROVE  Parsed(AppendOperation(p, name))
<1> DEFINE one == [operation |-> <<"string", name>>]
           a == [p.args EXCEPT !.commands = Append(@, one)]
<1>1. CASE GetOperation(name) = NoName
  BY <1>1, ParseExit DEF AppendOperation
<1>2. CASE GetOperation(name) # NoName
  <2>1. Shaped(p.args) /\ Commanded(Append(p.args.commands, one))
    BY <1>2, AppendCommand DEF Parsed, Shaped
  <2>2. Shaped(a)
    BY <2>1, ArgsSet
  <2>3. AppendOperation(p, name) \in {p, [p EXCEPT !.args = a]}
    BY <1>2 DEF AppendOperation
  <2>4. p.takes # "-a"
    BY DEF NoName
  <2> HIDE DEF a
  <2> QED BY <2>2, <2>3, <2>4, ParseSet
<1> QED BY <1>1, <1>2

LEMMA ArgumentParses ==
  ASSUME Defining, NEW p, Parsed(p), p.takes = NoName, p.args.commands # <<>>, NEW word
  PROVE  Parsed(AppendArgument(p, word))
<1> DEFINE asked == p.args.commands
           n == Len(asked)
           With0(v) == [asked EXCEPT ![n] = Put(@, word[1], v)]
           name == GetOperation(NameIn(asked[n]))
           arguments == Definitions[name].arguments
           given == Named(arguments, word[1])
           argument == arguments[CHOOSE i \in given : TRUE]
           text == IF Len(word) = 1 /\ Type(argument.defaultValue) = "bool" THEN "1" ELSE word[2]
<1>1. Shaped(p.args) /\ Commanded(asked)
  BY DEF Parsed, Shaped
<1>2. n \in DOMAIN asked /\ DOMAIN asked = 1..n /\ n \in Nat /\ asked = [k \in 1..n |-> asked[k]]
  <2>1. IsSequence(asked)
    BY <1>1 DEF Commanded
  <2>2. n # 0
    <3>1. ASSUME n = 0 PROVE FALSE
      <4>1. asked \in Seq({})
        BY <2>1, <3>1, SeqDef DEF IsSequence
      <4> QED BY <3>1, <4>1, EmptySeq
    <3> QED BY <3>1
  <2> QED BY <2>1, <2>2 DEF IsSequence
<1>3. IsObject(asked[n]) /\ "operation" \in DOMAIN asked[n] /\ name # NoName
  BY <1>1, <1>2 DEF Commanded
<1>4. WellDefined(arguments)
  <2>1. name \in DOMAIN operations
    BY <1>3 DEF GetOperation
  <2> QED BY <2>1, DefinitionsAssumption DEF Defining
<1>5. \/ AppendArgument(p, word) = Exit(p)
      \/ /\ given # {}
         /\ \E v \in ValueOfText(argument, text) :
              AppendArgument(p, word) = [p EXCEPT !.args = [p.args EXCEPT !.commands = With0(v)]]
  <2> DEFINE flag == given # {} /\ Len(word) = 1 /\ Type(argument.defaultValue) = "bool"
             values == IF given = {} \/ (~flag /\ Len(word) # 2) THEN {}
                       ELSE ValueOfText(argument, IF flag THEN "1" ELSE word[2])
  <2>1. AppendArgument(p, word)
          = IF values = {} THEN Exit(p)
            ELSE [p EXCEPT !.args.commands[n] = Put(@, word[1], CHOOSE v \in values : TRUE)]
    BY Zenon DEF AppendArgument, NameIn
  <2>2. CASE values = {}
    BY <2>1, <2>2
  <2>3. CASE values # {}
    <3> DEFINE v == CHOOSE v \in values : TRUE
    <3>1. given # {} /\ values = ValueOfText(argument, text)
      BY <2>3
    <3>2. v \in values
      BY <2>3
    <3> HIDE DEF values, v
    <3>3. AppendArgument(p, word) = [p EXCEPT !.args.commands[n] = Put(@, word[1], v)]
      BY <2>1, <2>3 DEF v
    <3> HIDE DEF n, given, argument, text
    <3>4. AppendArgument(p, word) = [p EXCEPT !.args = [p.args EXCEPT !.commands = With0(v)]]
      BY <3>3, Zenon
    <3> QED BY <3>1, <3>2, <3>4
  <2> QED BY <2>2, <2>3
<1>6. ASSUME given # {}, NEW v \in ValueOfText(argument, text) PROVE Commanded(With0(v))
  <2>1. IsValue(v)
    BY <1>6, TextIsValue
  <2>2. word[1] \in Range(Keys) \ {"operation"}
    <3> HIDE DEF arguments
    <3> QED BY <1>4, <1>6, DefinedIs
  <2> DEFINE one == Put(asked[n], word[1], v)
             all == [asked EXCEPT ![n] = one]
  <2>3. IsObject(one) /\ "operation" \in DOMAIN one /\ one["operation"] = asked[n]["operation"]
    <3> HIDE DEF n, asked
    <3> QED BY <1>3, <2>1, <2>2 DEF Put, IsObject
  <2>4. all = [k \in 1..n |-> all[k]] /\ \A k \in 1..n : all[k] = IF k = n THEN one ELSE asked[k]
    BY <1>2
  <2> HIDE DEF one, all
  <2>5. all \in Seq({all[k] : k \in 1..n})
    <3> HIDE DEF n, asked
    <3> QED BY <1>2, <2>4, SeqDef
  <2>6. IsSequence(all) /\ DOMAIN all = 1..n
    BY <2>4, <2>5, SequenceIs
  <2>7. \A k \in 1..n : /\ IsObject(all[k]) /\ "operation" \in DOMAIN all[k]
                        /\ all[k]["operation"] = asked[k]["operation"]
    BY <1>1, <1>2, <2>3, <2>4 DEF Commanded
  <2>8. \A k \in 1..n : GetOperation(NameIn(all[k])) # NoName
    <3> HIDE DEF n, asked
    <3>1. \A k \in 1..n : NameIn(all[k]) = NameIn(asked[k])
      BY <2>7 DEF NameIn
    <3> QED BY <1>1, <1>2, <3>1 DEF Commanded
  <2>9. Commanded(all)
    BY <2>6, <2>7, <2>8 DEF Commanded
  <2> QED BY <2>9 DEF all, one
<1>7. p.takes # "-a"
  BY DEF NoName
<1> HIDE DEF With0, asked, n, name, arguments, given, argument, text
<1> QED BY <1>1, <1>5, <1>6, <1>7, ArgsSet, ParseSet, ParseExit

LEMMA TakeParses ==
  ASSUME Defining, NEW p, Parsed(p), p.takes = NoName, NEW option \in Taking,
         option = "-a" => p.args.commands # <<>>, NEW word
  PROVE  Parsed(Take(p, option, word))
<1>1. Shaped(p.args) /\ p.takes # "-a"
  BY DEF Parsed, NoName
<1>2. option = "-a" \/ option = "-c" \/ option = "-i" \/ option = "-j" \/ option = "-o" \/ option = "-w"
  BY DEF Taking
<1>3. CASE option = "-a"
  BY <1>3, ArgumentParses DEF Take
<1>4. CASE option = "-o"
  BY <1>4, OperationParses DEF Take
<1>5. CASE option = "-c" \/ option = "-i" \/ option = "-j" \/ option = "-w"
  <2>1. \E a : Shaped(a) /\ Take(p, option, word) = [p EXCEPT !.args = a]
    BY <1>1, <1>5, ArgsSet DEF Take
  <2> QED BY <1>1, <2>1, ParseSet
<1> QED BY <1>2, <1>3, <1>4, <1>5

LEMMA WordParses ==
  ASSUME Defining, NEW p, Parsed(p), NEW word, NEW last
  PROVE  Parsed(Word(p, word, last))
<1>1. CASE p.what = "on" /\ p.takes # NoName
  <2> DEFINE q == [p EXCEPT !.takes = NoName]
  <2>1. p.takes \in Taking /\ (p.takes = "-a" => p.args.commands # <<>>)
    BY <1>1 DEF Parsed
  <2>2. q = [what |-> p.what, takes |-> NoName, args |-> p.args] /\ NoName # "-a" /\ Shaped(p.args)
    <3>1. p = [what |-> p.what, takes |-> p.takes, args |-> p.args] /\ Shaped(p.args)
      BY DEF Parsed
    <3>2. q = [what |-> p.what, takes |-> NoName, args |-> p.args]
      BY <3>1
    <3>3. NoName # "-a"
      BY DEF NoName
    <3> QED BY <3>1, <3>2, <3>3
  <2>4. Parsed(q) /\ q.takes = NoName /\ q.args = p.args
    <3>1. q.what = p.what /\ q.takes = NoName /\ q.args = p.args
      BY <2>2
    <3> HIDE DEF q
    <3> QED BY <2>2, <3>1 DEF Parsed
  <2>3. Word(p, word, last) = Take(q, p.takes, word)
    BY <1>1 DEF Word
  <2> HIDE DEF q
  <2> QED BY <2>1, <2>3, <2>4, TakeParses
<1>2. CASE p.what = "on" /\ p.takes = NoName /\ word[1] \in Taking
  <2>0. word[1] \notin Switching
    BY <1>2 DEF Taking, Switching
  <2>1. Word(p, word, last) = IF word[1] = "-a" /\ p.args.commands = <<>> THEN Exit(p)
                              ELSE [p EXCEPT !.takes = word[1]]
    BY <1>2, <2>0 DEF Word
  <2>2. ~(word[1] = "-a" /\ p.args.commands = <<>>) => Parsed([p EXCEPT !.takes = word[1]])
    BY <1>2 DEF Parsed
  <2> QED BY <2>1, <2>2, ParseExit
<1>3. CASE p.what = "on" /\ p.takes = NoName /\ word[1] \notin Taking /\ word[1] \in Switching
  BY <1>3, SwitchParses DEF Word
<1>4. CASE p.what = "on" /\ p.takes = NoName /\ word[1] \notin Taking /\ word[1] \notin Switching
  <2> DEFINE a == [p.args EXCEPT !.input = word[1]]
  <2>1. Shaped(a) /\ p.takes # "-a"
    BY <1>4, ArgsSet DEF Parsed, NoName
  <2>2. Word(p, word, last) \in {[p EXCEPT !.args = a], Exit(p)}
    BY <1>4 DEF Word
  <2> HIDE DEF a
  <2> QED BY <2>1, <2>2, ParseSet, ParseExit
<1>5. CASE p.what # "on"
  BY <1>5 DEF Word
<1> QED BY <1>1, <1>2, <1>3, <1>4, <1>5

\* The function behind the fold over the words, which is defined on sets of indices.
Start == [what |-> "on", takes |-> NoName, args |-> NoArgs]
Reads(g, argv0, S) ==
  g[S] = IF S = {} THEN Start ELSE Word(g[S \ {Max(S)}], argv0[Max(S)], Max(S) = Len(argv0))
ReadsTo(g, argv0, n) == /\ g = [S \in SUBSET (1..n) |-> g[S]]
                        /\ \A S \in SUBSET (1..n) : Reads(g, argv0, S)

LEMMA WordsFold ==
  ASSUME NEW argv0, Len(argv0) \in Nat
  PROVE  \E g : ReadsTo(g, argv0, Len(argv0))
<1> DEFINE N == Len(argv0)
           T == {n \in 0..N : \E g : ReadsTo(g, argv0, n)}
<1>1. 0 \in T
  <2> DEFINE g == [S \in SUBSET (1..0) |-> Start]
  <2>1. ASSUME NEW S \in SUBSET (1..0) PROVE S = {} /\ g[S] = Start
    OBVIOUS
  <2>2. g = [S \in SUBSET (1..0) |-> g[S]]
    OBVIOUS
  <2> HIDE DEF g
  <2>3. ReadsTo(g, argv0, 0)
    BY <2>1, <2>2 DEF ReadsTo, Reads
  <2> QED BY <2>3
<1>2. ASSUME NEW n \in 0..N-1, n \in T PROVE n + 1 \in T
  <2>1. PICK g : ReadsTo(g, argv0, n)
    BY <1>2
  <2>2. n + 1 \in 1..N /\ n + 1 \in 0..N /\ 1..n+1 = (1..n) \cup {n+1} /\ n + 1 \notin 1..n
    OBVIOUS
  <2> DEFINE h == [S \in SUBSET (1..n+1) |->
                     IF n + 1 \in S THEN Word(g[S \ {n+1}], argv0[n+1], n + 1 = Len(argv0))
                     ELSE g[S]]
  <2>3. ASSUME NEW S \in SUBSET (1..n+1) PROVE S \ {n+1} \in SUBSET (1..n)
    BY <2>2
  <2>4. h = [S \in SUBSET (1..n+1) |-> h[S]]
    OBVIOUS
  <2>5. ASSUME NEW S \in SUBSET (1..n) PROVE h[S] = g[S]
    BY <2>2, <2>5
  <2>6. ASSUME NEW S \in SUBSET (1..n+1) PROVE Reads(h, argv0, S)
    <3>1. CASE n + 1 \in S
      <4>1. Max(S) = n + 1
        <5>1. \A y \in S : n + 1 >= y
          OBVIOUS
        <5>2. \A x \in S : (\A y \in S : x >= y) => x = n + 1
          BY <3>1
        <5> QED BY <3>1, <5>1, <5>2 DEF Max
      <4>2. h[S] = Word(g[S \ {n+1}], argv0[n+1], n + 1 = Len(argv0))
        BY <3>1
      <4>3. h[S \ {n+1}] = g[S \ {n+1}]
        BY <2>3, <2>5
      <4> HIDE DEF h
      <4> QED BY <3>1, <4>1, <4>2, <4>3 DEF Reads
    <3>2. CASE n + 1 \notin S
      <4>1. S \in SUBSET (1..n)
        BY <2>3, <3>2
      <4>2. h[S] = g[S] /\ Reads(g, argv0, S)
        BY <2>1, <2>5, <4>1 DEF ReadsTo
      <4>3. h[S \ {Max(S)}] = g[S \ {Max(S)}]
        BY <2>5, <4>1
      <4> HIDE DEF h
      <4> QED BY <4>2, <4>3 DEF Reads
    <3> QED BY <3>1, <3>2
  <2> HIDE DEF h
  <2>7. ReadsTo(h, argv0, n + 1)
    BY <2>4, <2>6 DEF ReadsTo
  <2> QED BY <2>2, <2>7
<1>3. 0..N \subseteq T
  <2> HIDE DEF T
  <2> QED BY <1>1, <1>2, InductTo
<1>4. N \in 0..N
  OBVIOUS
<1> QED BY <1>3, <1>4

\* Whatever the words are, the commands they make can be run.
LEMMA WordsParse ==
  ASSUME Defining, NEW argv0, IsSequence(argv0)
  PROVE  Parsed(ParseArgs(argv0))
<1> DEFINE N == Len(argv0)
           indices == [i \in 1..N |-> i]
           Goes(f) == f = [S \in SUBSET (1..N) |->
                             IF S = {} THEN Start
                             ELSE Word(f[S \ {Max(S)}], argv0[indices[Max(S)]], indices[Max(S)] = N)]
           iter == CHOOSE f : Goes(f)
<1>1. N \in Nat /\ DOMAIN indices = 1..N
  BY DEF IsSequence
<1>2. PICK f : ReadsTo(f, argv0, N)
  BY <1>1, WordsFold
<1>3. ASSUME NEW S \in SUBSET (1..N), S # {}
      PROVE  Max(S) \in 1..N /\ indices[Max(S)] = Max(S) /\ S \ {Max(S)} \in SUBSET (1..N)
  BY <1>1, <1>3, MaxInRange
<1>4. Goes(f)
  <2>1. ASSUME NEW S \in SUBSET (1..N)
        PROVE  f[S] = IF S = {} THEN Start
                      ELSE Word(f[S \ {Max(S)}], argv0[indices[Max(S)]], indices[Max(S)] = N)
    <3> HIDE DEF indices
    <3> QED BY <1>2, <1>3 DEF ReadsTo, Reads
  <2> QED BY <1>2, <2>1 DEF ReadsTo
<1>5. Goes(iter)
  <2> HIDE DEF Goes
  <2> QED BY <1>4
<1>6. \A S \in SUBSET (1..N) :
        iter[S] = IF S = {} THEN Start
                  ELSE Word(iter[S \ {Max(S)}], argv0[indices[Max(S)]], indices[Max(S)] = N)
  <2> HIDE DEF iter
  <2> QED BY <1>5
<1> DEFINE end == iter[1..N]
<1>7. ParseArgs(argv0) = IF end.what = "on" /\ end.takes # NoName THEN Exit(end) ELSE end
  BY <1>1 DEF ParseArgs, FoldLeft, MapThenFoldSet, Start
<1> HIDE DEF iter, Goes, indices
<1> DEFINE T == {k \in 0..N : Parsed(iter[1..k])}
<1>8. 0..N \subseteq T
  <2>1. 0 \in T
    <3>1. 1..0 = {} /\ 0 \in 0..N /\ 1..0 \in SUBSET (1..N)
      BY <1>1
    <3>2. IsSequence(<<>>)
      BY EmptySeq, SequenceIs
    <3>3. Commanded(<<>>)
      BY <3>2 DEF Commanded
    <3>4. Parsed(Start)
      BY <3>3 DEF Parsed, Shaped, Start, NoArgs, NoName
    <3> QED BY <1>6, <3>1, <3>4
  <2>2. ASSUME NEW k \in 0..N-1, k \in T PROVE k + 1 \in T
    <3>1. k + 1 \in Nat \ {0} /\ k + 1 \in 1..N /\ k + 1 \in 0..N /\ (k + 1) - 1 = k /\ 1..k+1 \in SUBSET (1..N)
      BY <1>1
    <3>2. Max(1..k+1) = k + 1 /\ (1..k+1) \ {k+1} = 1..k /\ 1..k+1 # {}
      BY <3>1, MaxOfRange
    <3>3. iter[1..k+1] = Word(iter[1..k], argv0[indices[k+1]], indices[k+1] = N)
      BY <1>6, <3>1, <3>2
    <3> QED BY <2>2, <3>1, <3>3, WordParses
  <2> HIDE DEF T
  <2> QED BY <1>1, <2>1, <2>2, InductTo
<1>9. Parsed(end)
  BY <1>1, <1>8
<1> HIDE DEF end
<1> QED BY <1>7, <1>9, ParseExit

-----------------------------------------------------------------------------
AllOk == \A k \in 1..Len(executed) : executed[k].ok
Asked(d, n) == { i \in 1..n - 1 : d[i] = "operation" }

\* What the command line knows of its run: success means that every command has been looked
\* at, and as many executions were told as operations asked for.
Telling ==
  /\ \A file \in DOMAIN files : IsSequence(files[file])
  /\ cli.phase \in {"none", "parse", "run", "running", "write", "exited"}
  /\ cli.phase # "none" =>
       /\ queue = <<>> /\ IsSequence(told) /\ IsSequence(cli.args.commands)
       /\ rc => AllOk
       /\ AllOk => Len(told) = Cardinality(Asked(document, next))
       /\ cli.phase # "exited" => cli.written = <<>>
  /\ cli.phase = "parse" => at - 1 \in DOMAIN script /\ script[at - 1].call = "cli"
  /\ cli.phase \in {"parse", "run"} => executed = <<>> /\ told = <<>>
  /\ cli.phase = "running" =>
       /\ pc # "idle" /\ entry = "parseJson" /\ IsSequence(document) /\ IsSequence(commands)
       /\ next <= Len(document) + 1
       /\ pc \in {"cleanup", "returned"} /\ rc => next = Len(document) + 1
       /\ pc = "cut" => ~rc
  /\ cli.phase = "write" => IsSequence(document) /\ (rc => next = Len(document) + 1)
  /\ ExitTells

LEMMA KindsSequence ==
  ASSUME NEW objects, IsSequence(objects)
  PROVE  IsSequence(Kinds(objects))
<1>1. CASE objects = NoObjects
  <2>1. NotArray \in Seq({"not an array"})
    BY DEF NotArray
  <2> QED BY <1>1, <2>1, SequenceIs DEF Kinds
<1>2. CASE objects # NoObjects
  <2> DEFINE kinds == [k \in DOMAIN objects |-> Kind(objects[k])]
             n == Len(objects)
  <2>1. n \in Nat /\ DOMAIN objects = 1..n
    BY DEF IsSequence
  <2>2. kinds = [k \in 1..n |-> kinds[k]]
    BY <2>1
  <2> HIDE DEF kinds, n
  <2>3. kinds \in Seq({kinds[k] : k \in 1..n})
    BY <2>1, <2>2, SeqDef
  <2>4. IsSequence(kinds)
    BY <2>3, SequenceIs
  <2> QED BY <1>2, <2>4 DEF Kinds, kinds
<1> QED BY <1>1, <1>2

LEMMA AskedFinite ==
  ASSUME NEW n \in Nat \ {0}
  PROVE  /\ IsFiniteSet(Asked(document, n)) /\ Cardinality(Asked(document, n)) \in Nat
         /\ document[n] = "operation" => Cardinality(Asked(document, n + 1)) = Cardinality(Asked(document, n)) + 1
         /\ document[n] # "operation" => Asked(document, n + 1) = Asked(document, n)
<1>1. IsFiniteSet(Asked(document, n)) /\ Cardinality(Asked(document, n)) \in Nat
  <2>1. IsFiniteSet(1..n-1)
    BY FS_Interval
  <2>2. Asked(document, n) \in SUBSET (1..n-1)
    BY DEF Asked
  <2>3. IsFiniteSet(Asked(document, n))
    BY <2>1, <2>2, FS_Subset
  <2> QED BY <2>3, FS_CardinalityType
<1>2. 1..(n + 1) - 1 = (1..n-1) \cup {n} /\ n \notin 1..n-1
  OBVIOUS
<1>3. ASSUME document[n] = "operation"
      PROVE  Asked(document, n + 1) = Asked(document, n) \cup {n} /\ n \notin Asked(document, n)
  BY <1>2, <1>3 DEF Asked
<1>4. ASSUME document[n] # "operation" PROVE Asked(document, n + 1) = Asked(document, n)
  BY <1>2, <1>4 DEF Asked
<1> QED BY <1>1, <1>3, <1>4, FS_AddElement

\* While the command line runs its commands nothing else runs.
LEMMA TellingRun ==
  ASSUME Telling, Ordered, cli.phase = "running", UNCHANGED <<script, at, cli, files, queue, commands>>,
         CacheStage \/ CutShort \/ RejectMalformed \/ ChangeContext \/ UnknownOperation \/ EndOfCommands
           \/ Cleanup,
         UNCHANGED told
  PROVE  Telling'
<1> USE DEF caller
<1>1. /\ pc # "idle" /\ entry = "parseJson" /\ IsSequence(document)
      /\ next <= Len(document) + 1 /\ next \in Nat \ {0} /\ Len(document) \in Nat
      /\ pc \in {"cleanup", "returned"} /\ rc => next = Len(document) + 1
      /\ pc = "cut" => ~rc
      /\ IsSequence(told) /\ (rc => AllOk) /\ (AllOk => Len(told) = Cardinality(Asked(document, next)))
  BY DEF Telling, Ordered, IsSequence
<1>2. UNCHANGED <<entry, document, executed>>
  BY DEF CacheStage, CutShort, RejectMalformed, ChangeContext, UnknownOperation, EndOfCommands,
     Cleanup
<1>3. AllOk' <=> AllOk
  BY <1>2 DEF AllOk
<1>4. rc' => rc
  BY DEF CacheStage, CutShort, RejectMalformed, ChangeContext, UnknownOperation, EndOfCommands,
     Cleanup
<1>5. /\ next' <= Len(document) + 1 /\ pc' # "idle"
      /\ pc' \in {"cleanup", "returned"} /\ rc' => next' = Len(document) + 1
      /\ pc' = "cut" => ~rc'
      /\ AllOk => Len(told) = Cardinality(Asked(document, next'))
  <2>1. CASE CacheStage
    BY <1>1, <2>1 DEF CacheStage
  <2>2. CASE CutShort
    BY <1>1, <2>2 DEF CutShort
  <2>3. CASE RejectMalformed
    BY <1>1, <2>3 DEF RejectMalformed
  <2>4. CASE ChangeContext \/ UnknownOperation
    <3>1. next' = next + 1 /\ pc' = pc /\ rc' = rc /\ pc = "loop" /\ next <= Len(document) /\ document[next] # "operation"
      BY <1>1, <2>4 DEF ChangeContext, UnknownOperation, LookingAt, command
    <3>2. Asked(document, next + 1) = Asked(document, next)
      BY <1>1, <3>1, AskedFinite
    <3> QED BY <1>1, <3>1, <3>2
  <2>5. CASE EndOfCommands
    BY <1>1, <2>5 DEF EndOfCommands
  <2>6. CASE Cleanup
    BY <1>1, <2>6 DEF Cleanup
  <2> QED BY <2>1, <2>2, <2>3, <2>4, <2>5, <2>6
<1>6. AllOk' => Len(told') = Cardinality(Asked(document', next'))
  BY <1>2, <1>3, <1>5
<1>7. cli.phase = "running" /\ UNCHANGED <<script, at, cli, files, queue, commands, told, document, entry>>
  BY <1>2
<1>8. ExitTells'
  BY <1>7 DEF ExitTells
<1> QED BY <1>1, <1>3, <1>4, <1>5, <1>6, <1>7, <1>8 DEF Telling

LEMMA TellingCommand ==
  ASSUME Telling, Ordered, Ordered', cli.phase = "running", RunCommand
  PROVE  Telling'
<1>1. /\ entry = "parseJson" /\ IsSequence(document) /\ IsSequence(told)
      /\ next \in Nat \ {0} /\ Len(document) \in Nat
      /\ (rc => AllOk) /\ (AllOk => Len(told) = Cardinality(Asked(document, next)))
      /\ executed \in Seq([command : Nat, ok : BOOLEAN])
  BY DEF Telling, Ordered, IsSequence
<1>2. UNCHANGED <<script, at, cli, files, queue, commands, entry, document>>
  BY DEF RunCommand, ExecuteOperation, caller, callVars, cliVars
<1>3. pc = "loop" /\ next <= Len(document) /\ document[next] = "operation"
  BY DEF RunCommand, ExecuteOperation, LookingAt, command
<1>4. PICK ok \in BOOLEAN : /\ executed' = Append(executed, [command |-> next, ok |-> ok])
                            /\ rc' = ok
                            /\ IF ok THEN next' = next + 1 /\ UNCHANGED pc
                                     ELSE pc' = "cleanup" /\ UNCHANGED next
  BY <1>1 DEF RunCommand, ExecuteOperation
<1>5. /\ Len(executed') = Len(executed) + 1 /\ Len(executed) \in Nat
      /\ \A k \in 1..Len(executed) : executed'[k] = executed[k]
      /\ executed'[Len(executed')].ok = ok
  <2> DEFINE one == [command |-> next, ok |-> ok]
  <2>1. one \in [command : Nat, ok : BOOLEAN] /\ one.ok = ok
    BY <1>1
  <2> HIDE DEF one
  <2>2. executed' = Append(executed, one)
    BY <1>4 DEF one
  <2> QED BY <1>1, <2>1, <2>2, AppendProperties, LenProperties
<1>6. AllOk' => ok
  BY <1>5 DEF AllOk
<1>7. ok => AllOk'
  <2>1. \A k \in 1..Len(executed) : executed[k].ok
    BY <1>3 DEF Ordered
  <2>2. \A k \in 1..Len(executed') : k \in 1..Len(executed) \/ k = Len(executed')
    BY <1>5
  <2> QED BY <1>5, <2>1, <2>2 DEF AllOk
<1>8. IsSequence(told') /\ (ok => Len(told') = Len(told) + 1)
  <2>1. told' = told \/ \E e : told' = Append(told, e)
    BY Zenon DEF RunCommand
  <2>2. executed'[Len(executed')].ok => \E e : told' = Append(told, e)
    BY Zenon DEF RunCommand
  <2>3. \A e : IsSequence(Append(told, e)) /\ Len(Append(told, e)) = Len(told) + 1
    <3> SUFFICES ASSUME NEW e
                 PROVE  IsSequence(Append(told, e)) /\ Len(Append(told, e)) = Len(told) + 1
      OBVIOUS
    <3>1. told \in Seq({told[i] : i \in DOMAIN told} \cup {e})
      BY <1>1, SeqDef DEF IsSequence
    <3> QED BY <1>1, <3>1, AppendShape, AppendProperties
  <2> QED BY <1>1, <1>5, <2>1, <2>2, <2>3
<1>9. ok => Len(told') = Cardinality(Asked(document, next'))
  <2> SUFFICES ASSUME ok PROVE Len(told') = Cardinality(Asked(document, next + 1))
    BY <1>4
  <2>1. AllOk
    BY <1>3 DEF Ordered, AllOk
  <2> QED BY <1>1, <1>3, <1>8, <2>1, AskedFinite
<1>10. document' = document
  BY <1>2
<1>11. /\ next' <= Len(document) + 1 /\ pc' # "idle"
       /\ pc' \in {"cleanup", "returned"} /\ rc' => next' = Len(document) + 1
       /\ pc' = "cut" => ~rc'
  BY <1>1, <1>3, <1>4
<1>12. rc' => AllOk'
  BY <1>4, <1>7
<1>13. AllOk' => Len(told') = Cardinality(Asked(document', next'))
  BY <1>6, <1>9, <1>10
<1>14. ExitTells'
  BY <1>2 DEF ExitTells
<1> QED BY <1>2, <1>8, <1>10, <1>11, <1>12, <1>13, <1>14 DEF Telling

\* Nothing else runs while the command line does.
LEMMA TellingElsewhere ==
  ASSUME Telling, cli.phase = "none", UNCHANGED <<cli, files>>
  PROVE  Telling'
BY DEF Telling, ExitTells

\* The program ends with a code, before anything was executed.
LEMMA TellingExits ==
  ASSUME Telling, Serving, cli.phase \in {"parse", "run"}, NEW code, Exits(code),
         UNCHANGED <<files, queue, told, executed, document, next, rc>>
  PROVE  Telling'
<1>1. /\ cli'.phase = "exited" /\ cli'.args = cli.args /\ cli'.written = cli.written /\ cli'.exit = code
  BY DEF Exits, Serving
<1>2. AllOk' <=> AllOk
  BY DEF AllOk
<1>3. executed' = <<>> /\ cli'.written = <<>> /\ \A k \in DOMAIN executed' : FALSE
  BY <1>1 DEF Telling
<1>4. ExitTells'
  BY <1>3 DEF ExitTells
<1> QED BY <1>1, <1>2, <1>4 DEF Telling

LEMMA TellingParse ==
  ASSUME Telling, Serving, Defining, script \in Scripts, CliParse
  PROVE  Telling'
<1>1. cli.phase = "parse" /\ UNCHANGED <<files, queue, told, executed, document, next, rc>>
  BY DEF CliParse
<1>2. IsSequence(argv)
  <2>1. at - 1 \in DOMAIN script /\ script[at - 1].call = "cli"
    BY <1>1 DEF Telling
  <2> QED BY <2>1, ScriptsAssumption DEF Handed, argv
<1> DEFINE parse == ParseArgs(argv)
<1>3. Parsed(parse)
  BY <1>2, WordsParse
<1>4. IsSequence(parse.args.commands)
  BY <1>3 DEF Parsed, Shaped, Commanded
<1>5. \/ \E code : Exits(code)
      \/ cli' = [cli EXCEPT !.phase = "run", !.args = parse.args]
  BY Zenon DEF CliParse
<1> HIDE DEF parse
<1>6. CASE \E code : Exits(code)
  BY <1>1, <1>6, TellingExits
<1>7. CASE cli' = [cli EXCEPT !.phase = "run", !.args = parse.args]
  <2>1. cli'.phase = "run" /\ cli'.args = parse.args /\ cli'.written = cli.written
    BY <1>7 DEF Serving
  <2>2. AllOk' <=> AllOk
    BY <1>1 DEF AllOk
  <2>3. ExitTells'
    BY <2>1 DEF ExitTells
  <2> QED BY <1>1, <1>4, <2>1, <2>2, <2>3 DEF Telling
<1> QED BY <1>5, <1>6, <1>7

LEMMA TellingStarts ==
  ASSUME Telling, Serving, CliRun
  PROVE  Telling'
<1> DEFINE objects == IF cli.args.config # NoName THEN files[cli.args.config] ELSE cli.args.commands
<1>1. /\ cli.phase = "run" /\ UNCHANGED <<files, queue, told>>
      /\ cli.args.config # NoName => cli.args.config \in DOMAIN files
      /\ CallParseJson(Kinds(objects)) /\ commands' = objects
  BY DEF CliRun
<1>2. IsSequence(objects)
  BY <1>1 DEF Telling
<1>3. cli'.phase = "running" /\ cli'.args = cli.args /\ cli'.written = cli.written
  BY DEF CliRun, Serving
<1> HIDE DEF objects
<1>4. IsSequence(Kinds(objects))
  BY <1>2, KindsSequence
<1>5. /\ entry' = "parseJson" /\ document' = Kinds(objects) /\ next' = 1 /\ executed' = <<>>
      /\ rc' = TRUE /\ pc' = "copied"
  BY <1>1 DEF CallParseJson, Call
<1>6. AllOk' /\ Asked(document', next') = {} /\ Len(told') = 0
  BY <1>1, <1>5 DEF AllOk, Asked, Telling
<1>7. Cardinality({}) = 0
  BY FS_EmptySet
<1>8. next' <= Len(document') + 1
  BY <1>4, <1>5 DEF IsSequence
<1>9. ExitTells'
  BY <1>3 DEF ExitTells
<1> QED BY <1>1, <1>2, <1>3, <1>4, <1>5, <1>6, <1>7, <1>8, <1>9 DEF Telling

LEMMA NoObjectsSequence == IsSequence(NoObjects)
BY DEF IsSequence, NoObjects

LEMMA TellingReturns ==
  ASSUME Telling, Serving, CliReturned
  PROVE  Telling'
<1>1. /\ cli.phase = "running" /\ pc \in {"returned", "cut"}
      /\ UNCHANGED <<queue, told, executed, document, next, rc>>
  BY DEF CliReturned, caller, runVars
<1>2. cli'.phase = "write" /\ cli'.args = cli.args /\ cli'.written = cli.written
  BY DEF CliReturned, Serving
<1>3. \A file \in DOMAIN files' : IsSequence(files'[file])
  <2>1. \/ files' = files
        \/ files' = Put(files, cli.args.json, commands)
        \/ files' = Put(files, cli.args.json, NoObjects)
    BY DEF CliReturned, SaveAs
  <2> QED BY <1>1, <2>1, NoObjectsSequence DEF Telling, Put
<1>4. AllOk' <=> AllOk
  BY <1>1 DEF AllOk
<1>5. ExitTells'
  BY <1>2 DEF ExitTells
<1> QED BY <1>1, <1>2, <1>3, <1>4, <1>5 DEF Telling

LEMMA TellingWrites ==
  ASSUME Telling, Serving, Ordered, CliWrite
  PROVE  Telling'
<1>1. cli.phase = "write" /\ UNCHANGED <<files, queue, told, executed, document, next, rc>>
  BY DEF CliWrite, vars, runVars
<1>2. PICK ok \in BOOLEAN, relative \in BOOLEAN :
        cli' = [cli EXCEPT !.phase = "exited", !.exit = IF rc /\ (ok \/ InPlace) THEN 0 ELSE 1,
                           !.written = IF rc /\ ok /\ cli.args.output # NoName
                               THEN <<Output(relative)>> ELSE <<>>]
  BY Zenon DEF CliWrite
<1>3. /\ cli'.phase = "exited" /\ cli'.args = cli.args
      /\ cli'.exit = IF rc /\ (ok \/ InPlace) THEN 0 ELSE 1
      /\ cli'.written = IF rc /\ ok /\ cli.args.output # NoName THEN <<Output(relative)>> ELSE <<>>
  BY <1>2 DEF Serving
<1>4. AllOk' <=> AllOk
  BY <1>1 DEF AllOk
<1>5. rc => (\A k \in DOMAIN executed : executed[k].ok)
  BY <1>1, LenProperties DEF Telling, AllOk, Ordered
<1>6. rc => Len(told) = Cardinality({ i \in DOMAIN document : document[i] = "operation" })
  <2> SUFFICES ASSUME rc
               PROVE  Len(told) = Cardinality({ i \in DOMAIN document : document[i] = "operation" })
    OBVIOUS
  <2>1. DOMAIN document = 1..Len(document) /\ Len(document) \in Nat /\ next = Len(document) + 1
    BY <1>1 DEF Telling, IsSequence
  <2>2. Asked(document, next) = { i \in DOMAIN document : document[i] = "operation" }
    BY <2>1 DEF Asked
  <2> QED BY <1>1, <2>2 DEF Telling
<1>7. <<Output(relative)>> # <<>>
  OBVIOUS
<1>8. ExitTells'
  BY <1>1, <1>3, <1>5, <1>6, <1>7 DEF ExitTells, InPlace
<1> QED BY <1>1, <1>3, <1>4, <1>8 DEF Telling

LEMMA TellingStep ==
  ASSUME Telling, Serving, Ordered, Ordered', Registering, [SessionNext]_allVars
  PROVE  Telling'
<1>1. CASE Import \/ LoadMore \/ Deregister \/ SetStage \/ ExecuteConfig \/ ExecuteMapped
           \/ ExecuteOne \/ Hold \/ Analyze \/ Optimize \/ CheckStage \/ Ended
  <2>1. cli.phase = "none"
    BY <1>1 DEF Import, LoadMore, Deregister, SetStage, ExecuteConfig, ExecuteMapped, ExecuteOne,
       Hold,
       Analyze, Optimize, CheckStage, Ended, Calls
  <2>2. UNCHANGED <<cli, files>>
    BY <1>1 DEF Import, LoadMore, Deregister, SetStage, ExecuteConfig, ExecuteMapped, ExecuteOne,
       Hold,
       Analyze, Optimize, CheckStage, Analyzed, Ended, cliVars, sessionVars, allVars
  <2> QED BY <2>1, <2>2, TellingElsewhere
<1>2. CASE RunCommand
  <2>1. UNCHANGED <<cli, files>> /\ pc # "idle"
    BY <1>2 DEF RunCommand, cliVars, ExecuteOperation, LookingAt
  <2>2. cli.phase \in {"none", "running"}
    BY <2>1 DEF Serving
  <2> QED BY <1>2, <2>1, <2>2, TellingElsewhere, TellingCommand
<1>3. CASE OtherSteps
  <2>1. UNCHANGED <<script, at, cli, files, queue, commands, told>>
    BY <1>3 DEF OtherSteps, sessionVars
  <2>2. \/ cli.phase = "none"
        \/ CacheStage \/ CutShort \/ RejectMalformed \/ ChangeContext \/ UnknownOperation
           \/ EndOfCommands \/ Cleanup
    BY <1>3 DEF OtherSteps
  <2>3. cli.phase = "none" \/ pc # "idle"
    BY <2>2 DEF CacheStage, CutShort, RejectMalformed, ChangeContext, UnknownOperation,
       EndOfCommands,
       Cleanup, LookingAt
  <2>4. cli.phase \in {"none", "running"}
    BY <2>3 DEF Serving
  <2> QED BY <2>1, <2>2, <2>4, TellingElsewhere, TellingRun
<1>4. CASE ExecuteNext
  <2>1. cli.phase = "none" /\ UNCHANGED <<cli, files>>
    BY <1>4 DEF ExecuteNext, cliVars, Telling
  <2> QED BY <2>1, TellingElsewhere
<1>5. CASE CliProcess
  <2>1. /\ at \in 1..Len(script) /\ script[at].call = "cli" /\ queue = <<>> /\ at' = at + 1
        /\ UNCHANGED <<script, queue, files>> /\ cli' = [NoCli EXCEPT !.phase = "parse"]
        /\ told' = <<>> /\ executed' = <<>> /\ document' = <<>> /\ next' = 1 /\ rc' = TRUE
    BY <1>5, ScriptsAssumption DEF CliProcess, Calls, call, Registering, IsSequence
  <2>2. at' - 1 \in DOMAIN script' /\ script'[at' - 1].call = "cli"
    <3>1. at' - 1 = at
      BY <2>1
    <3>2. DOMAIN script = 1..Len(script)
      BY ScriptsAssumption DEF Registering, IsSequence
    <3> QED BY <2>1, <3>1, <3>2
  <2>3. cli'.phase = "parse" /\ cli'.args.commands = <<>> /\ cli'.written = <<>>
    BY <2>1 DEF NoCli, NoArgs
  <2>4. IsSequence(<<>>)
    BY EmptySeq, SequenceIs
  <2>5. AllOk' /\ Len(told') = Cardinality(Asked(document', next'))
    <3>1. Asked(document', next') = {} /\ Len(told') = 0 /\ AllOk'
      BY <2>1 DEF Asked, AllOk
    <3> QED BY <3>1, FS_EmptySet
  <2>6. ExitTells'
    BY <2>3 DEF ExitTells
  <2> QED BY <2>1, <2>2, <2>3, <2>4, <2>5, <2>6 DEF Telling
<1>6. CASE CliParse
  BY <1>6, RegistryShape, TellingParse DEF Registering, Current, Defining
<1>7. CASE CliRun
  BY <1>7, TellingStarts
<1>8. CASE CliNothing
  <2>1. /\ cli.phase = "run" /\ UNCHANGED <<files, queue, told, executed, document, next, rc>>
        /\ \E code : Exits(code)
    BY <1>8, Zenon DEF CliNothing, vars, runVars
  <2> QED BY <2>1, TellingExits
<1>9. CASE CliReturned
  BY <1>9, TellingReturns
<1>10. CASE CliWrite
  BY <1>10, TellingWrites
<1>11. CASE CliExit
  <2>1. cli'.phase = "none" /\ UNCHANGED files
    BY <1>11 DEF CliExit, NoCli
  <2> QED BY <2>1 DEF Telling, ExitTells
<1>12. CASE UNCHANGED allVars
  BY <1>12 DEF allVars, vars, sessionVars, Telling, AllOk, ExitTells
<1> QED BY <1>1, <1>2, <1>3, <1>4, <1>5, <1>6, <1>7, <1>8, <1>9, <1>10, <1>11, <1>12 DEF SessionNext

\* The command line writes its stage, and says that all went well, only after every operation
\* of its commands was executed and none failed; when it says so of a stage that goes to
\* another file than the input, the stage was exported.
THEOREM ExitCodeTells == SessionSpec => []ExitTells
<1>1. SessionInit => Telling
  <2> SUFFICES ASSUME SessionInit PROVE Telling
    OBVIOUS
  <2>1. cli.phase = "none" /\ files = Disk
    BY DEF SessionInit, NoCli
  <2> QED BY <2>1, DiskAssumption DEF IsConfig, Telling, ExitTells
<1>2. SessionInit => Registering
  BY RegisteringInit
<1>3. Telling => ExitTells
  BY DEF Telling
<1> QED BY <1>1, <1>2, <1>3, ProcessInvariant, RegisteringStep, TellingStep, PTL DEF SessionSpec,
           ProcessSound

-----------------------------------------------------------------------------
(* Saved configurations *)

\* The lookups of the registry for given operations and mappings, as a command line finds
\* them in a process of its own.
OperationIn(ops, maps, name) ==
  CASE name \in DOMAIN ops -> name
    [] name \notin DOMAIN ops /\ name \in DOMAIN maps /\ maps[name].name \in DOMAIN ops -> maps[name].name
    [] OTHER -> NoName
MappedBy(maps, name, object) ==
  IF name \notin DOMAIN maps THEN object ELSE Mapped(name, maps[name].attributes, object)

\* What is told of a command that is executed, and which commands are operations.
Answer(ops, maps, object) ==
  LET name == OperationIn(ops, maps, NameIn(object))
      mapped == MappedBy(maps, name, object)
  IN [operation |-> name,
      members |-> IF ops[name].wrapper # 0 THEN Merged(Arguments(name), mapped)
                  ELSE PopulateExecutionArguments(Arguments(name), Initial(Arguments(name)),
                                                  MappedBy(maps, name, mapped)).members]
IsOperation(ops, maps, object) ==
  /\ "operation" \in DOMAIN object /\ NameIn(object) # "executionContext"
  /\ OperationIn(ops, maps, NameIn(object)) # NoName

LEMMA CommandTold ==
  ASSUME RunCommand
  PROVE  \/ told' = told
         \/ \E e : /\ told' = Append(told, e)
                   /\ e.operation = Answer(operations, mappings, commands[next]).operation
                   /\ e.members = Answer(operations, mappings, commands[next]).members
<1> DEFINE name == GetOperation(NameIn(commands[next]))
           object == MapOperation(name, commands[next])
           populated == Populated(name, Initial(Arguments(name)), object)
           e == Told(name, sources[next], populated, TRUE)
           a == Answer(operations, mappings, commands[next])
<1>1. told' = told \/ told' = Append(told, e)
  BY Zenon DEF RunCommand
<1>2. name = OperationIn(operations, mappings, NameIn(commands[next]))
  BY Zenon DEF GetOperation, OperationIn
<1>3. \A n, o : MapOperation(n, o) = MappedBy(mappings, n, o)
  BY DEF MapOperation, MappedBy
<1>4. a.operation = name
  BY <1>2 DEF Answer
<1>5. a.members = populated.members
  BY <1>2, <1>3 DEF Answer, Populated, IsPython
<1>6. e.operation = name /\ e.members = populated.members
  BY DEF Told
<1> HIDE DEF e, a, name, object, populated
<1>7. e.operation = a.operation /\ e.members = a.members
  BY <1>4, <1>5, <1>6
<1> QED BY <1>1, <1>7 DEF a

LEMMA KindTells ==
  ASSUME NEW object
  PROVE  Kind(object) = "operation" <=> IsOperation(operations, mappings, object)
<1>1. GetOperation(NameIn(object)) = OperationIn(operations, mappings, NameIn(object))
  BY Zenon DEF GetOperation, OperationIn
<1> QED BY <1>1 DEF Kind, IsOperation

\* A command line loads the libraries of the product and of the environment, and no packages.
CliOperations == LoadPaths(Empty, FALSE).operations
Played(object) == Answer(CliOperations, LoadMappings, object)
Runs(object) == IsOperation(CliOperations, LoadMappings, object)
Earlier(objects, i) == { j \in 1..i-1 : Runs(objects[j]) }

\* The executions told are the first operations of a configuration.
Plays(t, objects) ==
  \A k \in DOMAIN t : \E i \in DOMAIN objects :
    /\ Runs(objects[i]) /\ Cardinality(Earlier(objects, i)) = k - 1
    /\ t[k].operation = Played(objects[i]).operation
    /\ t[k].members = Played(objects[i]).members

LEMMA EarlierFinite ==
  ASSUME NEW objects, NEW i \in Nat
  PROVE  /\ IsFiniteSet(Earlier(objects, i)) /\ Cardinality(Earlier(objects, i)) \in Nat
         /\ \A j \in 1..i-1 : Runs(objects[j]) =>
              Cardinality(Earlier(objects, j)) < Cardinality(Earlier(objects, i))
<1>1. \A n \in Nat : IsFiniteSet(Earlier(objects, n)) /\ Cardinality(Earlier(objects, n)) \in Nat
  <2> SUFFICES ASSUME NEW n \in Nat
               PROVE  IsFiniteSet(Earlier(objects, n)) /\ Cardinality(Earlier(objects, n)) \in Nat
    OBVIOUS
  <2>1. IsFiniteSet(1..n-1) /\ Earlier(objects, n) \in SUBSET (1..n-1)
    BY FS_Interval DEF Earlier
  <2> QED BY <2>1, FS_Subset, FS_CardinalityType
<1>2. ASSUME NEW j \in 1..i-1, Runs(objects[j])
      PROVE  Cardinality(Earlier(objects, j)) < Cardinality(Earlier(objects, i))
  <2>1. j \in Earlier(objects, i) \ Earlier(objects, j) /\ Earlier(objects, j) \subseteq Earlier(objects, i)
    BY <1>2 DEF Earlier
  <2>2. Earlier(objects, j) # Earlier(objects, i)
    BY <2>1
  <2> QED BY <1>1, <2>1, <2>2, FS_Subset
<1> QED BY <1>1, <1>2

\* Of one configuration, two runs tell the same as far as both get.
LEMMA PlaysAlike ==
  ASSUME NEW objects, IsSequence(objects), NEW t, NEW u, Plays(t, objects), Plays(u, objects),
         NEW k \in DOMAIN t \cap DOMAIN u
  PROVE  t[k].operation = u[k].operation /\ t[k].members = u[k].members
<1>1. PICK i \in DOMAIN objects : /\ Runs(objects[i]) /\ Cardinality(Earlier(objects, i)) = k - 1
                                  /\ t[k].operation = Played(objects[i]).operation
                                  /\ t[k].members = Played(objects[i]).members
  BY DEF Plays
<1>2. PICK j \in DOMAIN objects : /\ Runs(objects[j]) /\ Cardinality(Earlier(objects, j)) = k - 1
                                  /\ u[k].operation = Played(objects[j]).operation
                                  /\ u[k].members = Played(objects[j]).members
  BY DEF Plays
<1>3. i \in Nat \ {0} /\ j \in Nat \ {0}
  BY DEF IsSequence
<1>4. Cardinality(Earlier(objects, i)) = Cardinality(Earlier(objects, j))
  BY <1>1, <1>2
<1>5. i = j
  <2>1. ~(i < j) /\ ~(j < i)
    <3>1. i < j => i \in 1..j-1
      BY <1>3
    <3>2. j < i => j \in 1..i-1
      BY <1>3
    <3>3. /\ Cardinality(Earlier(objects, i)) \in Nat
          /\ \A m \in 1..i-1 : Runs(objects[m]) => Cardinality(Earlier(objects, m)) < Cardinality(Earlier(objects, i))
          /\ \A m \in 1..j-1 : Runs(objects[m]) => Cardinality(Earlier(objects, m)) < Cardinality(Earlier(objects, j))
      BY <1>3, EarlierFinite
    <3> QED BY <1>1, <1>2, <1>4, <3>1, <3>2, <3>3
  <2> QED BY <1>3, <2>1
<1> QED BY <1>1, <1>2, <1>5

LEMMA PlaysMore ==
  ASSUME NEW t, IsSequence(t), NEW objects, Plays(t, objects), NEW e, NEW i \in DOMAIN objects,
         Runs(objects[i]), Cardinality(Earlier(objects, i)) = Len(t),
         e.operation = Played(objects[i]).operation, e.members = Played(objects[i]).members
  PROVE  Plays(Append(t, e), objects)
<1>1. t \in Seq({t[k] : k \in DOMAIN t} \cup {e}) /\ Len(t) \in Nat /\ DOMAIN t = 1..Len(t)
  BY SeqDef DEF IsSequence
<1>2. /\ DOMAIN Append(t, e) = 1..Len(t) + 1
      /\ \A k \in 1..Len(t) : Append(t, e)[k] = t[k]
      /\ Append(t, e)[Len(t) + 1] = e
  BY <1>1, AppendProperties, LenProperties
<1>3. ASSUME NEW k \in DOMAIN Append(t, e)
      PROVE  \E j \in DOMAIN objects :
               /\ Runs(objects[j]) /\ Cardinality(Earlier(objects, j)) = k - 1
               /\ Append(t, e)[k].operation = Played(objects[j]).operation
               /\ Append(t, e)[k].members = Played(objects[j]).members
  <2>1. CASE k \in 1..Len(t)
    BY <1>1, <1>2, <2>1 DEF Plays
  <2>2. CASE k = Len(t) + 1
    <3>1. Append(t, e)[k] = e /\ k - 1 = Len(t)
      BY <1>1, <1>2, <2>2
    <3> QED BY <3>1
  <2>3. k \in 1..Len(t) \/ k = Len(t) + 1
    BY <1>1, <1>2
  <2> QED BY <2>1, <2>2, <2>3
<1> QED BY <1>3 DEF Plays

\* What is looked at as an operation is one.
LEMMA KindsRun ==
  ASSUME NEW objects, IsSequence(objects), operations = CliOperations, mappings = LoadMappings
  PROVE  /\ Len(Kinds(objects)) = Len(objects)
         /\ \A i \in 1..Len(objects) : Kinds(objects)[i] = "operation" <=> Runs(objects[i])
<1>1. CASE objects = NoObjects
  <2>1. Kinds(objects) = <<"not an array">> /\ Len(objects) = 1 /\ objects[1] = [array |-> <<"bool", FALSE>>]
    BY <1>1 DEF Kinds, NotArray, NoObjects
  <2>2. ~Runs(objects[1])
    BY <2>1 DEF Runs, IsOperation
  <2>3. Len(<<"not an array">>) = 1 /\ <<"not an array">>[1] = "not an array"
    OBVIOUS
  <2>4. Len(Kinds(objects)) = 1 /\ Kinds(objects)[1] = "not an array"
    BY <2>1, <2>3, Zenon
  <2>5. \A i \in 1..1 : i = 1
    OBVIOUS
  <2>6. Len(objects) = 1 /\ "not an array" # "operation"
    BY <2>1
  <2> QED BY <2>2, <2>4, <2>5, <2>6, Zenon
<1>2. CASE objects # NoObjects
  <2>1. Kinds(objects) = [k \in 1..Len(objects) |-> Kind(objects[k])]
    BY <1>2 DEF Kinds, IsSequence
  <2>2. \A i \in 1..Len(objects) : Kind(objects[i]) = "operation" <=> Runs(objects[i])
    BY KindTells DEF Runs
  <2>3. IsSequence(Kinds(objects)) /\ Len(objects) \in Nat
    BY KindsSequence DEF IsSequence
  <2>4. Len(Kinds(objects)) = Len(objects)
    <3>1. DOMAIN Kinds(objects) = 1..Len(objects) /\ DOMAIN Kinds(objects) = 1..Len(Kinds(objects))
      BY <2>1, <2>3 DEF IsSequence
    <3> DEFINE a == Len(Kinds(objects))
               b == Len(objects)
    <3>2. a \in Nat /\ b \in Nat /\ 1..a = 1..b
      BY <2>3, <3>1 DEF IsSequence
    <3> HIDE DEF a, b
    <3>3. (a > 0 => a \in 1..a) /\ (b > 0 => b \in 1..b)
      BY <3>2
    <3>4. (a > 0 => a <= b) /\ (b > 0 => b <= a)
      BY <3>2, <3>3
    <3> QED BY <3>2, <3>4 DEF a, b
  <2> QED BY <2>1, <2>2, <2>4
<1> QED BY <1>1, <1>2

\* A command line has the registry of every other one, and what it and the saved
\* configurations tell is what their commands play.
Replaying ==
  /\ cli.phase # "none" => operations = CliOperations /\ mappings = LoadMappings
  /\ NoName \notin DOMAIN recorded /\ DOMAIN recorded \subseteq DOMAIN files
  /\ \A file \in DOMAIN recorded : Plays(recorded[file], files[file])
  /\ cli.phase # "none" /\ cli.args.config \in DOMAIN recorded => Plays(told, files[cli.args.config])
  /\ cli.phase = "running" =>
       /\ Len(document) = Len(commands)
       /\ \A i \in 1..Len(commands) : document[i] = "operation" <=> Runs(commands[i])
       /\ Plays(told, commands)
       /\ cli.args.config # NoName => commands = files[cli.args.config]

LEMMA PlaysNothing == ASSUME NEW objects PROVE Plays(<<>>, objects)
BY DEF Plays

LEMMA ReplayingElsewhere ==
  ASSUME Replaying, cli'.phase = "none", UNCHANGED <<files, recorded>>
  PROVE  Replaying'
BY DEF Replaying, Plays

LEMMA ReplayingWaits ==
  ASSUME Replaying, UNCHANGED <<files, recorded, operations, mappings, told>>, cli.phase # "none",
         cli'.args = cli.args, cli'.phase # "running"
  PROVE  Replaying'
<1>1. \A t, c : Plays(t, c)' <=> Plays(t, c)
  BY DEF Plays
<1> QED BY <1>1 DEF Replaying

LEMMA ReplayingCommand ==
  ASSUME Replaying, Telling, Ordered, cli.phase = "running", RunCommand
  PROVE  Replaying'
<1>1. UNCHANGED <<cli, files, recorded, operations, mappings, commands, document>>
  BY DEF RunCommand, ExecuteOperation, caller, callVars, cliVars, registryVars
<1>2. /\ pc = "loop" /\ next \in Nat \ {0} /\ next <= Len(document) /\ document[next] = "operation"
  BY DEF RunCommand, ExecuteOperation, LookingAt, command, Ordered
<1>3. Len(document) = Len(commands) /\ IsSequence(commands) /\ IsSequence(document)
  BY DEF Replaying, Telling
<1>4. next \in 1..Len(commands) /\ next \in DOMAIN commands
  BY <1>2, <1>3 DEF IsSequence
<1>5. Runs(commands[next])
  BY <1>2, <1>4 DEF Replaying
<1>6. Cardinality(Earlier(commands, next)) = Len(told) /\ IsSequence(told)
  <2>1. AllOk
    BY <1>2 DEF Ordered, AllOk
  <2>2. \A i \in 1..next-1 : i \in 1..Len(commands)
    BY <1>2, <1>3 DEF IsSequence
  <2>3. Asked(document, next) = Earlier(commands, next)
    BY <2>2 DEF Asked, Earlier, Replaying
  <2> QED BY <2>1, <2>3 DEF Telling
<1>7. Plays(told', commands)
  <2>1. CASE told' = told
    BY <2>1 DEF Replaying
  <2>2. CASE told' # told
    <3>1. PICK e : /\ told' = Append(told, e)
                   /\ e.operation = Answer(operations, mappings, commands[next]).operation
                   /\ e.members = Answer(operations, mappings, commands[next]).members
      BY <2>2, CommandTold
    <3>2. e.operation = Played(commands[next]).operation /\ e.members = Played(commands[next]).members
      BY <3>1 DEF Played, Replaying
    <3>3. Plays(told, commands)
      BY DEF Replaying
    <3> QED BY <1>3, <1>4, <1>5, <1>6, <3>1, <3>2, <3>3, PlaysMore
  <2> QED BY <2>1, <2>2
<1>8. cli.args.config \in DOMAIN recorded => files[cli.args.config] = commands
  BY DEF Replaying
<1>9. \A t, c : Plays(t, c)' <=> Plays(t, c)
  BY DEF Plays
<1> QED BY <1>1, <1>7, <1>8, <1>9 DEF Replaying

LEMMA ReplayingRun ==
  ASSUME Replaying, Telling, Serving, CliRun
  PROVE  Replaying'
<1> DEFINE objects == IF cli.args.config # NoName THEN files[cli.args.config] ELSE cli.args.commands
<1>1. /\ cli.phase = "run" /\ UNCHANGED <<files, recorded, operations, mappings, told>>
      /\ cli.args.config # NoName => cli.args.config \in DOMAIN files
      /\ CallParseJson(Kinds(objects)) /\ commands' = objects
  BY DEF CliRun, registryVars
<1>2. IsSequence(objects)
  BY <1>1 DEF Telling
<1>3. cli'.phase = "running" /\ cli'.args = cli.args
  BY DEF CliRun, Serving
<1>4. cli.args.config # NoName => objects = files[cli.args.config]
  OBVIOUS
<1> HIDE DEF objects
<1>5. document' = Kinds(objects)
  BY <1>1 DEF CallParseJson, Call
<1>6. /\ Len(document') = Len(objects)
      /\ \A i \in 1..Len(objects) : document'[i] = "operation" <=> Runs(objects[i])
  BY <1>1, <1>2, <1>5, KindsRun DEF Replaying
<1>7. told' = <<>> /\ Plays(told', objects) /\ \A c : Plays(told', c)
  BY <1>1, PlaysNothing DEF Telling
<1>9. \A t, c : Plays(t, c)' <=> Plays(t, c)
  BY DEF Plays
<1>10. \A o : Runs(o)' <=> Runs(o)
  BY DEF Runs
<1> QED BY <1>1, <1>3, <1>4, <1>6, <1>7, <1>9, <1>10 DEF Replaying

LEMMA ReplayingReturns ==
  ASSUME Replaying, Serving, CliReturned
  PROVE  Replaying'
<1>1. cli.phase = "running" /\ UNCHANGED <<operations, mappings, told>>
  BY DEF CliReturned, registryVars, runVars
<1>2. cli'.phase = "write" /\ cli'.args = cli.args
  BY DEF CliReturned, Serving
<1>3. \A t, c : Plays(t, c)' <=> Plays(t, c)
  BY DEF Plays
<1>4. CASE UNCHANGED <<files, recorded>>
  BY <1>1, <1>2, <1>4, ReplayingWaits
<1>5. CASE /\ ~UNCHANGED <<files, recorded>>
           /\ files' = Put(files, cli.args.json, NoObjects)
           /\ recorded' = Without(recorded, cli.args.json)
  <2>1. /\ DOMAIN recorded' = DOMAIN recorded \ {cli.args.json}
        /\ \A file \in DOMAIN recorded' : recorded'[file] = recorded[file]
    BY <1>5 DEF Without, Restrict
  <2>2. NoName \notin DOMAIN recorded' /\ DOMAIN recorded' \subseteq DOMAIN files'
    BY <1>5, <2>1 DEF Put, Replaying
  <2>3. \A file \in DOMAIN recorded' : Plays(recorded'[file], files'[file])
    BY <1>5, <2>1 DEF Put, Replaying
  <2>4. cli'.args.config \notin DOMAIN recorded'
    BY <1>2, <1>5, <2>2 DEF CliReturned, SavesCommands
  <2> QED BY <1>1, <1>2, <1>3, <2>2, <2>3, <2>4 DEF Replaying
<1>6. CASE ~UNCHANGED <<files, recorded>> /\ ~(/\ files' = Put(files, cli.args.json, NoObjects)
                                             /\ recorded' = Without(recorded, cli.args.json))
  <2>1. /\ cli.args.config = NoName /\ cli.args.json # NoName
        /\ files' = Put(files, cli.args.json, commands)
        /\ recorded' = Put(recorded, cli.args.json, told)
    BY <1>6 DEF CliReturned, SaveAs, SavesCommands
  <2>2. NoName \notin DOMAIN recorded' /\ DOMAIN recorded' \subseteq DOMAIN files'
    BY <2>1 DEF Put, Replaying
  <2>3. \A file \in DOMAIN recorded' : Plays(recorded'[file], files'[file])
    <3> SUFFICES ASSUME NEW file \in DOMAIN recorded' PROVE Plays(recorded'[file], files'[file])
      OBVIOUS
    <3>1. CASE file = cli.args.json
      <4>1. recorded'[file] = told /\ files'[file] = commands
        BY <2>1, <3>1 DEF Put
      <4> QED BY <1>1, <4>1 DEF Replaying
    <3>2. CASE file # cli.args.json
      <4>1. file \in DOMAIN recorded /\ file \in DOMAIN files
            /\ recorded'[file] = recorded[file] /\ files'[file] = files[file]
        BY <2>1, <3>2 DEF Put, Replaying
      <4> QED BY <4>1 DEF Replaying
    <3> QED BY <3>1, <3>2
  <2>4. cli'.args.config \notin DOMAIN recorded'
    BY <1>2, <2>1, <2>2
  <2> QED BY <1>1, <1>2, <1>3, <2>2, <2>3, <2>4 DEF Replaying
<1> QED BY <1>4, <1>5, <1>6

LEMMA ReplayingStep ==
  ASSUME Replaying, Telling, Serving, Ordered, [SessionNext]_allVars
  PROVE  Replaying'
<1>1. CASE Import \/ LoadMore \/ Deregister \/ SetStage \/ ExecuteConfig \/ ExecuteMapped
           \/ ExecuteOne \/ Hold \/ Analyze \/ Optimize \/ CheckStage \/ Ended
  <2>1. cli.phase = "none"
    BY <1>1 DEF Import, LoadMore, Deregister, SetStage, ExecuteConfig, ExecuteMapped, ExecuteOne,
       Hold,
       Analyze, Optimize, CheckStage, Ended, Calls
  <2>2. UNCHANGED <<cli, files, recorded>>
    BY <1>1 DEF Import, LoadMore, Deregister, SetStage, ExecuteConfig, ExecuteMapped, ExecuteOne,
       Hold,
       Analyze, Optimize, CheckStage, Analyzed, Ended, cliVars, sessionVars, allVars
  <2> QED BY <2>1, <2>2, ReplayingElsewhere
<1>2. CASE RunCommand
  <2>1. UNCHANGED <<cli, files, recorded>> /\ pc # "idle"
    BY <1>2 DEF RunCommand, cliVars, ExecuteOperation, LookingAt
  <2>2. cli.phase \in {"none", "running"}
    BY <2>1 DEF Serving
  <2> QED BY <1>2, <2>1, <2>2, ReplayingElsewhere, ReplayingCommand
<1>3. CASE OtherSteps
  <2>1. UNCHANGED <<cli, files, recorded, commands, told, operations, mappings>>
    BY <1>3 DEF OtherSteps, sessionVars, registryVars
  <2>2. UNCHANGED document
    BY <1>3 DEF OtherSteps, CacheStage, CutShort, RejectMalformed, ChangeContext, UnknownOperation,
       EndOfCommands, Cleanup, Returned, caller
  <2> QED BY <2>1, <2>2 DEF Replaying, Plays, Runs
<1>4. CASE ExecuteNext
  <2>1. cli.phase = "none" /\ UNCHANGED <<cli, files, recorded>>
    BY <1>4 DEF ExecuteNext, cliVars, Telling
  <2> QED BY <2>1, ReplayingElsewhere
<1>5. CASE CliProcess
  <2>1. /\ operations' = CliOperations /\ mappings' = LoadMappings
        /\ UNCHANGED <<files, recorded>> /\ told' = <<>>
        /\ cli' = [NoCli EXCEPT !.phase = "parse"]
    BY <1>5 DEF CliProcess, LoadPlugins, Become, CliOperations
  <2>2. cli'.phase = "parse"
    BY <2>1 DEF NoCli
  <2>3. \A t, c : Plays(t, c)' <=> Plays(t, c)
    BY DEF Plays
  <2> QED BY <2>1, <2>2, <2>3, PlaysNothing DEF Replaying
<1>6. CASE CliParse
  <2>1. /\ cli.phase = "parse" /\ UNCHANGED <<files, recorded, operations, mappings, told>>
    BY <1>6 DEF CliParse, registryVars
  <2>2. told = <<>>
    BY <2>1 DEF Telling
  <2>3. cli'.phase # "running"
    <3>1. \/ \E code : Exits(code)
          \/ \E args : cli' = [cli EXCEPT !.phase = "run", !.args = args]
      BY <1>6, Zenon DEF CliParse
    <3> QED BY <3>1 DEF Exits, Serving
  <2>4. \A t, c : Plays(t, c)' <=> Plays(t, c)
    BY DEF Plays
  <2> QED BY <2>1, <2>2, <2>3, <2>4, PlaysNothing DEF Replaying
<1>7. CASE CliRun
  BY <1>7, ReplayingRun
<1>8. CASE CliNothing
  <2>1. /\ cli.phase = "run" /\ UNCHANGED <<files, recorded, operations, mappings, told>>
        /\ \E code : Exits(code)
    BY <1>8, Zenon DEF CliNothing, registryVars, runVars
  <2>2. cli'.phase = "exited" /\ cli'.args = cli.args
    BY <2>1 DEF Exits, Serving
  <2> QED BY <2>1, <2>2, ReplayingWaits
<1>9. CASE CliReturned
  BY <1>9, ReplayingReturns
<1>10. CASE CliWrite
  <2>1. cli.phase = "write" /\ UNCHANGED <<files, recorded, operations, mappings, told>>
    BY <1>10 DEF CliWrite, registryVars, runVars
  <2>2. \E code, what : cli' = [cli EXCEPT !.phase = "exited", !.exit = code, !.written = what]
    BY <1>10, Zenon DEF CliWrite
  <2>3. cli'.phase = "exited" /\ cli'.args = cli.args
    BY <2>2 DEF Serving
  <2> QED BY <2>1, <2>3, ReplayingWaits
<1>11. CASE CliExit
  <2>1. cli'.phase = "none" /\ UNCHANGED <<files, recorded>>
    BY <1>11 DEF CliExit, NoCli
  <2> QED BY <2>1, ReplayingElsewhere
<1>12. CASE UNCHANGED allVars
  BY <1>12 DEF allVars, vars, sessionVars, registryVars, caller, Replaying, Plays, Runs
<1> QED BY <1>1, <1>2, <1>3, <1>4, <1>5, <1>6, <1>7, <1>8, <1>9, <1>10, <1>11, <1>12 DEF SessionNext

LEMMA ReplayingTells == Telling /\ Replaying => Replayed
<1> SUFFICES ASSUME Telling, Replaying, cli.phase # "none", cli.args.config \in DOMAIN recorded,
                    NEW k \in DOMAIN told \cap DOMAIN recorded[cli.args.config]
             PROVE  /\ told[k].operation = recorded[cli.args.config][k].operation
                    /\ told[k].members = recorded[cli.args.config][k].members
  BY DEF Replayed
<1> DEFINE first == recorded[cli.args.config]
           objects == files[cli.args.config]
<1>1. IsSequence(objects) /\ Plays(told, objects) /\ Plays(first, objects)
  BY DEF Replaying, Telling
<1> HIDE DEF first, objects
<1>2. k \in DOMAIN told \cap DOMAIN first
  BY DEF first
<1>3. told[k].operation = first[k].operation /\ told[k].members = first[k].members
  BY <1>1, <1>2, PlaysAlike
<1> QED BY <1>3 DEF first

\* A configuration that the command line has saved replays, in any later process and after
\* whatever happened in between: the same operations with the same arguments.
THEOREM ConfigurationsReplay == SessionSpec => []Replayed
<1>1. SessionInit => Telling /\ Replaying
  <2> SUFFICES ASSUME SessionInit PROVE Telling /\ Replaying
    OBVIOUS
  <2>1. cli.phase = "none" /\ files = Disk /\ DOMAIN recorded = {}
    BY DEF SessionInit, NoCli, Nothing
  <2> QED BY <2>1, DiskAssumption DEF IsConfig, Telling, ExitTells, Replaying
<1>2. SessionInit => Registering
  BY RegisteringInit
<1> QED BY <1>1, <1>2, ProcessInvariant, RegisteringStep, TellingStep, ReplayingStep,
           ReplayingTells,
           PTL DEF SessionSpec, ProcessSound

-----------------------------------------------------------------------------
(* What is told of an execution is what its caller said *)

\* The table of names is there as soon as anything is registered.
Loaded ==
  /\ DOMAIN operations # {} => mappings = LoadMappings
  /\ \A i \in 1..at-1 : script[i].call = "import" => mappings = LoadMappings

\* What waits to be executed; an operation that is held has its defaults in between.
Waiting(one) ==
  /\ IsObject(one.object)
  /\ one.held /\ GetOperation(one.operation) # NoName =>
       members = Initial(Arguments(GetOperation(one.operation)))
Queued == IsSequence(queue) /\ \A k \in DOMAIN queue : Waiting(queue[k])

\* What files and command lines hold.
Written ==
  /\ \A file \in DOMAIN files : IsConfig(files[file])
  /\ cli.phase \in {"run", "running"} => IsConfig(cli.args.commands)
  /\ cli.phase = "running" => IsConfig(commands)

\* A command says what its source does of the operation that it names.
Faithful(i) ==
  LET name == GetOperation(NameIn(commands[i]))
  IN name # NoName /\ IsObject(commands[i]) /\ Alike(name, commands[i], sources[i])
Following == pc # "idle" => \A i \in 1..Len(document) : document[i] = "operation" => Faithful(i)

\* What was told is what the caller said.
Telltale == IsSequence(told) /\ \A k \in DOMAIN told : Tells(told[k])

\* What comes after the package was imported, and what deregisters, keeps the table.
LEMMA LoadedStep == Loaded /\ Registering /\ [SessionNext]_allVars => Loaded'
<1> SUFFICES ASSUME Loaded, Registering, [SessionNext]_allVars PROVE Loaded'
  OBVIOUS
<1>0. at \in Nat \ {0} /\ script \in Scripts
  BY DEF Registering
<1>1. CASE Import \/ CliProcess
  <2>1. mappings' = LoadMappings
    BY <1>1 DEF Import, CliProcess, LoadPlugins
  <2> QED BY <2>1 DEF Loaded
<1>2. CASE LoadMore
  <2>1. mappings = LoadMappings
    <3>1. at \in DOMAIN script /\ script[at].call = "loadPluginsFromPath"
      BY <1>0, <1>2, ScriptsAssumption DEF LoadMore, Calls, call, IsSequence
    <3>2. \E i \in 1..at-1 : script[i].call = "import"
      BY <1>0, <3>1, ScriptsAssumption
    <3> QED BY <3>2 DEF Loaded
  <2>2. mappings' = mappings
    BY <1>2 DEF LoadMore
  <2> QED BY <2>1, <2>2 DEF Loaded
<1>3. CASE ~(Import \/ CliProcess \/ LoadMore)
  <2>1. /\ mappings' = mappings /\ DOMAIN operations' \subseteq DOMAIN operations
        /\ script' = script
        /\ at' = at \/ (at' = at + 1 /\ script[at].call # "import")
    <3>1. CASE Deregister
      <4>1. mappings' = mappings /\ DOMAIN operations' \subseteq DOMAIN operations
        BY <3>1 DEF Deregister, DeregisterOperation, Without, Restrict
      <4>2. script' = script /\ at' = at + 1 /\ script[at].call # "import"
        BY <3>1 DEF Deregister, Calls, call
      <4> QED BY <4>1, <4>2
    <3>2. CASE ~Deregister
      <4>1. UNCHANGED registryVars
        BY <1>3, <3>2 DEF SessionNext, allVars, SetStage, ExecuteConfig, ExecuteMapped, RunCommand,
           OtherSteps, ExecuteOne, Hold, Analyze, Optimize, CheckStage, Analyzed, ExecuteNext, CliParse,
           CliRun, CliNothing, CliReturned, CliWrite, CliExit, Ended
      <4>2. script' = script /\ (at' = at \/ (at' = at + 1 /\ script[at].call # "import"))
        BY <1>3, <3>2 DEF SessionNext, allVars, sessionVars, callVars, Calls, call, SetStage,
           ExecuteConfig,
           ExecuteMapped, RunCommand, OtherSteps, ExecuteOne, Hold, Analyze, Optimize, CheckStage,
           Analyzed, ExecuteNext, CliParse, CliRun, CliNothing, CliReturned, CliWrite, CliExit, Ended
      <4> QED BY <4>1, <4>2 DEF registryVars
    <3> QED BY <3>1, <3>2
  <2>2. DOMAIN operations' # {} => mappings' = LoadMappings
    BY <2>1 DEF Loaded
  <2>3. \A i \in 1..at'-1 : script'[i].call = "import" => mappings' = LoadMappings
    <3> SUFFICES ASSUME NEW i \in 1..at'-1, script[i].call = "import" PROVE mappings = LoadMappings
      BY <2>1
    <3>1. i \in 1..at-1
      BY <1>0, <2>1
    <3> QED BY <3>1 DEF Loaded
  <2> QED BY <2>2, <2>3 DEF Loaded
<1> QED BY <1>1, <1>2, <1>3

\* A batch has one execution for each of its calls.
LEMMA BatchIs ==
  ASSUME NEW s, IsSequence(s)
  PROVE  /\ IsSequence(Batch(s)) /\ DOMAIN Batch(s) = DOMAIN s
         /\ \A k \in DOMAIN s : Batch(s)[k].object = s[k].object /\ ~Batch(s)[k].held
<1> DEFINE n == Len(s)
           batch == Batch(s)
<1>1. n \in Nat /\ DOMAIN s = 1..n
  BY DEF IsSequence
<1>2. DOMAIN batch = 1..n /\ batch = [k \in 1..n |-> batch[k]]
  BY <1>1 DEF Batch
<1>3. \A k \in 1..n : batch[k].object = s[k].object /\ ~batch[k].held
  BY <1>1 DEF Batch, Execution
<1> HIDE DEF n, batch
<1>4. batch \in Seq({batch[k] : k \in 1..n})
  BY <1>1, <1>2, SeqDef
<1>5. IsSequence(batch)
  BY <1>4, SequenceIs
<1>6. /\ IsSequence(batch) /\ DOMAIN batch = DOMAIN s
      /\ \A k \in DOMAIN s : batch[k].object = s[k].object /\ ~batch[k].held
  BY <1>1, <1>2, <1>3, <1>5
<1> QED BY <1>6 DEF batch

\* A batch of calls with objects of values, none of them held.
LEMMA BatchWaits ==
  ASSUME NEW s, IsSequence(s), \A k \in DOMAIN s : IsObject(s[k].object), queue' = Batch(s)
  PROVE  Queued'
<1>1. /\ IsSequence(Batch(s)) /\ DOMAIN Batch(s) = DOMAIN s
      /\ \A k \in DOMAIN s : Batch(s)[k].object = s[k].object /\ ~Batch(s)[k].held
  BY BatchIs
<1>2. IsSequence(queue') /\ \A k \in DOMAIN queue' : IsObject(queue'[k].object) /\ ~queue'[k].held
  BY <1>1
<1> QED BY <1>2 DEF Queued, Waiting

\* The calls that are registered, and those that analyze, are some of the calls.
LEMMA RegisteredTell ==
  ASSUME NEW s, IsSequence(s), \A k \in DOMAIN s : IsObject(s[k].object)
  PROVE  /\ IsSequence(Registered(s)) /\ \A k \in DOMAIN Registered(s) : IsObject(Registered(s)[k].object)
         /\ IsSequence(Analyzing(s)) /\ \A k \in DOMAIN Analyzing(s) : IsObject(Analyzing(s)[k].object)
<1>1. ASSUME NEW E
      PROVE  IsSequence(Among(s, E)) /\ \A k \in DOMAIN Among(s, E) : IsObject(Among(s, E)[k].object)
  BY AmongTells
<1> QED BY <1>1, Zenon DEF Registered, Analyzing

\* What analyze() and a rule of the validators leave to be executed.
LEMMA AnalyzedWaits ==
  ASSUME NEW s, IsSequence(s), \A k \in DOMAIN s : IsObject(s[k].object), Analyzed(s)
  PROVE  Queued'
<1> DEFINE r == Registered(s)
           a == Analyzing(r)
<1>1. IsSequence(r) /\ \A k \in DOMAIN r : IsObject(r[k].object)
  BY RegisteredTell
<1> HIDE DEF r
<1>2. IsSequence(a) /\ \A k \in DOMAIN a : IsObject(a[k].object)
  BY <1>1, RegisteredTell
<1>3. queue' = Batch(a)
  BY DEF Analyzed, r
<1> HIDE DEF a
<1> QED BY <1>2, <1>3, BatchWaits

\* Sequences of one element and of none.
LEMMA OneIs ==
  ASSUME NEW e
  PROVE  IsSequence(<<e>>) /\ \A k \in DOMAIN <<e>> : <<e>>[k] = e
<1>1. <<e>> \in Seq({e})
  OBVIOUS
<1>2. IsSequence(<<e>>)
  BY <1>1, SequenceIs
<1>3. \A k \in DOMAIN <<e>> : <<e>>[k] = e
  OBVIOUS
<1> QED BY <1>2, <1>3

LEMMA NoneIs == IsSequence(<<>>) /\ \A k \in DOMAIN <<>> : FALSE
<1>1. <<>> \in Seq({})
  BY EmptySeq
<1>2. \A k \in DOMAIN <<>> : FALSE
  OBVIOUS
<1> QED BY <1>1, <1>2, SequenceIs

\* Of what a call hands over, everything is as it should be.
LEMMA CallHanded ==
  ASSUME Registering, NEW kind, Calls(kind)
  PROVE  call.call = kind /\ Handed(call) /\ queue = <<>> /\ pc = "idle" /\ cli.phase = "none"
<1>1. at \in DOMAIN script
  BY ScriptsAssumption DEF Registering, Calls, IsSequence
<1> QED BY <1>1, ScriptsAssumption DEF Registering, Calls, call

\* An execution alone: what is told has its arguments, and an operation that is held has its
\* defaults again.
LEMMA NextTells ==
  ASSUME Queued, Loaded, Defining, ExecuteNext
  PROVE  /\ UNCHANGED members
         /\ told' = told \/ \E e : told' = Append(told, e) /\ Tells(e)
<1> DEFINE one == queue[1]
           name == GetOperation(one.operation)
           held == IF one.held THEN members ELSE Initial(Arguments(name))
           populated == Populated(name, held, one.object)
           e == Told(name, one.object, populated, ~IsPython(name))
           object == MapOperation(name, one.object)
<1>1. CASE name = NoName
  BY <1>1 DEF ExecuteNext
<1>2. CASE name # NoName
  <2>1. Waiting(one)
    <3>1. 1 \in DOMAIN queue
      <4>1. queue # <<>> /\ IsSequence(queue)
        BY DEF Queued, ExecuteNext
      <4>2. Len(queue) # 0
        <5>1. queue \in Seq({queue[k] : k \in DOMAIN queue})
          BY <4>1, SeqDef DEF IsSequence
        <5> QED BY <4>1, <5>1, EmptySeq
      <4> QED BY <4>1, <4>2 DEF IsSequence
    <3> QED BY <3>1 DEF Queued
  <2>2. IsObject(one.object) /\ held = Initial(Arguments(name)) /\ (one.held => members = Initial(Arguments(name)))
    BY <1>2, <2>1 DEF Waiting
  <2>3. name \in DOMAIN operations /\ name \in DOMAIN Definitions /\ mappings = LoadMappings
    <3>1. name \in DOMAIN operations
      BY <1>2 DEF GetOperation
    <3> QED BY <3>1 DEF Defining, Loaded
  <2>4. /\ \/ told' = told
           \/ populated.ok /\ told' = Append(told, e)
        /\ \/ members' = members
           \/ one.held /\ ~IsPython(name) /\ members' = ResetArgs(Arguments(name), populated.members)
    BY <1>2, Zenon DEF ExecuteNext
  <2> HIDE DEF name, one
  <2>5. CASE IsPython(name)
    <3>1. populated = [ok |-> TRUE, members |-> Merged(Arguments(name), one.object)]
      BY <2>5 DEF Populated
    <3>2. \A a : Given(Nothing, one.object, a) = IF a \in DOMAIN one.object THEN {one.object[a]}
                                                 ELSE {}
      BY DEF Given, Nothing
    <3>3. Tells(Told(name, one.object, [ok |-> TRUE, members |-> Merged(Arguments(name), one.object)], FALSE))
      BY <2>5, <3>2, PythonTells
    <3>4. e = Told(name, one.object, populated, FALSE)
      BY <2>5
    <3> HIDE DEF e, populated
    <3> QED BY <2>4, <2>5, <3>1, <3>3, <3>4
  <2>6. CASE ~IsPython(name)
    <3>1. populated = PopulateExecutionArguments(Arguments(name), Initial(Arguments(name)), object)
      BY <2>2, <2>6 DEF Populated
    <3>2. /\ IsObject(object)
          /\ \A a \in NamesOf(Arguments(name)) :
               Given(Former(name), one.object, a) = IF a \in DOMAIN object THEN {object[a]} ELSE {}
      BY <2>2, <2>3, MappedIsAlike
    <3> HIDE DEF object, populated
    <3>3. /\ populated.ok => Tells(Told(name, one.object, populated, TRUE))
          /\ ResetArgs(Arguments(name), populated.members) = Initial(Arguments(name))
      BY <2>3, <2>6, <3>1, <3>2, LibraryTells
    <3>4. e = Told(name, one.object, populated, TRUE)
      BY <2>6
    <3> HIDE DEF e
    <3> QED BY <2>2, <2>4, <3>3, <3>4
  <2> QED BY <2>5, <2>6
<1> QED BY <1>1, <1>2

\* Every caller queues objects of values.
LEMMA QueuedStep ==
  ASSUME Queued, Loaded, Registering, [SessionNext]_allVars
  PROVE  Queued'
<1>0. Defining
  BY RegistryShape DEF Registering, Current, Defining
<1>e. IsSequence(<<>>) /\ \A k \in DOMAIN <<>> : Waiting(<<>>[k])'
  <2>1. <<>> \in Seq({})
    BY EmptySeq
  <2>2. \A k \in DOMAIN <<>> : FALSE
    OBVIOUS
  <2> QED BY <2>1, <2>2, SequenceIs
<1>1. CASE ExecuteOne
  <2>1. queue' = <<Execution(call.operation, call.object, FALSE)>> /\ IsObject(call.object)
    BY <1>1, CallHanded DEF ExecuteOne, Handed
  <2>2. IsSequence(queue')
    BY <2>1, OneIs
  <2>3. \A k \in DOMAIN queue' : queue'[k] = Execution(call.operation, call.object, FALSE)
    BY <2>1, OneIs
  <2>4. \A k \in DOMAIN queue' : IsObject(queue'[k].object) /\ ~queue'[k].held
    BY <2>1, <2>3 DEF Execution
  <2> QED BY <2>2, <2>4 DEF Queued, Waiting
<1>2. CASE Hold
  <2> DEFINE n == Len(call.objects)
             name == GetOperation(call.operation)
  <2>1. /\ queue' = [k \in DOMAIN call.objects |-> Execution(call.operation, call.objects[k], TRUE)]
        /\ members' = Initial(Arguments(name)) /\ UNCHANGED registryVars
        /\ IsSequence(call.objects) /\ \A k \in DOMAIN call.objects : IsObject(call.objects[k])
    BY <1>2, CallHanded DEF Hold, Handed
  <2>2. n \in Nat /\ DOMAIN call.objects = 1..n
    BY <2>1 DEF IsSequence
  <2>3. queue' = [k \in 1..n |-> queue'[k]] /\ DOMAIN queue' = 1..n
    BY <2>1, <2>2
  <2>4. \A k \in 1..n : queue'[k].operation = call.operation /\ IsObject(queue'[k].object)
    BY <2>1, <2>2 DEF Execution
  <2> HIDE DEF n
  <2>5. queue' \in Seq({queue'[k] : k \in 1..n})
    BY <2>2, <2>3, SeqDef
  <2>6. IsSequence(queue')
    BY <2>5, SequenceIs
  <2>7. GetOperation(call.operation)' = GetOperation(call.operation)'
    OBVIOUS
  <2>8. \A o : GetOperation(o)' = GetOperation(o)
    BY <2>1 DEF GetOperation, registryVars
  <2> QED BY <2>1, <2>3, <2>4, <2>6, <2>8 DEF Queued, Waiting
<1>3. CASE Analyze
  <2>1. Analyzed(call.calls) /\ IsSequence(call.calls) /\ \A k \in DOMAIN call.calls : IsObject(call.calls[k].object)
    BY <1>3, CallHanded DEF Analyze, Handed
  <2> QED BY <2>1, AnalyzedWaits
<1>4. CASE Optimize
  <2>1. /\ queue' = Batch(Registered(call.calls))
        /\ IsSequence(call.calls) /\ \A k \in DOMAIN call.calls : IsObject(call.calls[k].object)
    BY <1>4, CallHanded DEF Optimize, Handed
  <2>2. IsSequence(Registered(call.calls))
        /\ \A k \in DOMAIN Registered(call.calls) : IsObject(Registered(call.calls)[k].object)
    BY <2>1, RegisteredTell
  <2> QED BY <2>1, <2>2, BatchWaits
<1>5. CASE CheckStage
  <2> DEFINE object == EffectiveArgs(call.rule, call.assigned)
             one == [operation |-> call.rule.operation, object |-> object]
  <2>1. Analyzed(<<one>>) /\ IsRule(call.rule) /\ \A p \in DOMAIN call.assigned : IsValue(call.assigned[p])
    BY <1>5, CallHanded DEF CheckStage, Handed
  <2>2. IsObject(object)
    BY <2>1, EffectiveIsObject
  <2>3. one.object = object
    OBVIOUS
  <2> HIDE DEF one, object
  <2>5. IsSequence(<<one>>) /\ \A k \in DOMAIN <<one>> : <<one>>[k] = one
    BY OneIs
  <2>6. \A k \in DOMAIN <<one>> : IsObject(<<one>>[k].object)
    BY <2>2, <2>3, <2>5
  <2> QED BY <2>1, <2>5, <2>6, AnalyzedWaits
<1>6. CASE ExecuteNext
  <2>1. UNCHANGED members /\ UNCHANGED registryVars /\ queue' = Tail(queue) /\ queue # <<>>
    BY <1>0, <1>6, NextTells DEF ExecuteNext
  <2> DEFINE E == {queue[k] : k \in DOMAIN queue}
  <2>2. queue \in Seq(E)
    BY SeqDef DEF Queued, IsSequence
  <2>3. queue' \in Seq(E)
    BY <2>1, <2>2, HeadTailProperties
  <2>4. IsSequence(queue') /\ \A k \in DOMAIN queue' : queue'[k] \in E
    BY <2>3, SequenceIs, ElementOfSeq, LenProperties
  <2>5. \A o : Waiting(o)' <=> Waiting(o)
    BY <2>1 DEF Waiting, GetOperation, registryVars
  <2> QED BY <2>4, <2>5 DEF Queued
<1>7. CASE Import \/ LoadMore \/ Deregister \/ CliProcess
  <2>1. queue' = <<>>
    BY <1>7 DEF Import, LoadMore, Deregister, CliProcess, Calls, runVars
  <2> QED BY <1>e, <2>1 DEF Queued
<1>8. CASE ~(Import \/ LoadMore \/ Deregister \/ CliProcess \/ ExecuteOne \/ Hold \/ Analyze \/ Optimize
             \/ CheckStage \/ ExecuteNext)
  <2>1. UNCHANGED registryVars /\ UNCHANGED <<queue, members>>
    BY <1>8 DEF SessionNext, allVars, sessionVars, runVars, SetStage, ExecuteConfig, ExecuteMapped,
       RunCommand, OtherSteps, CliParse, CliRun, CliNothing, CliReturned, CliWrite, CliExit, Ended
  <2>2. \A o : Waiting(o)' <=> Waiting(o)
    BY <2>1 DEF Waiting, GetOperation, registryVars
  <2> QED BY <2>1, <2>2 DEF Queued
<1> QED BY <1>1, <1>2, <1>3, <1>4, <1>5, <1>6, <1>7, <1>8

\* The commands of a command line are a configuration.
LEMMA CommandsAreConfig ==
  ASSUME NEW asked, Commanded(asked)
  PROVE  IsConfig(asked)
BY DEF Commanded, IsConfig

\* A file is one of the disk, or holds the commands of a command line.
LEMMA WrittenStep ==
  ASSUME Written, Serving, Telling, Registering, [SessionNext]_allVars
  PROVE  Written'
<1>1. CASE CliProcess
  <2>1. cli'.phase = "parse" /\ UNCHANGED files
    BY <1>1 DEF CliProcess, NoCli
  <2> QED BY <2>1 DEF Written
<1>2. CASE CliParse
  <2>1. UNCHANGED files /\ cli.phase = "parse"
    BY <1>2 DEF CliParse
  <2> DEFINE parse == ParseArgs(argv)
  <2>2. IsConfig(parse.args.commands)
    <3>1. IsSequence(argv)
      <4>1. at - 1 \in DOMAIN script /\ script[at - 1].call = "cli"
        BY <2>1 DEF Telling
      <4> QED BY <4>1, ScriptsAssumption DEF Handed, argv, Registering
    <3>2. Parsed(parse)
      BY <3>1, RegistryShape, WordsParse DEF Registering, Current, Defining
    <3> HIDE DEF parse
    <3> QED BY <3>2, CommandsAreConfig DEF Parsed, Shaped
  <2>3. \/ \E code : Exits(code)
        \/ cli' = [cli EXCEPT !.phase = "run", !.args = parse.args]
    BY <1>2, Zenon DEF CliParse
  <2> HIDE DEF parse
  <2>4. CASE \E code : Exits(code)
    <3>1. cli'.phase = "exited"
      BY <2>4 DEF Exits, Serving
    <3> QED BY <2>1, <3>1 DEF Written
  <2>5. CASE cli' = [cli EXCEPT !.phase = "run", !.args = parse.args]
    <3>1. cli'.phase = "run" /\ cli'.args = parse.args
      BY <2>5 DEF Serving
    <3> QED BY <2>1, <2>2, <3>1 DEF Written
  <2> QED BY <2>3, <2>4, <2>5
<1>3. CASE CliRun
  <2> DEFINE objects == IF cli.args.config # NoName THEN files[cli.args.config]
                        ELSE cli.args.commands
  <2>1. /\ cli.phase = "run" /\ UNCHANGED files /\ commands' = objects
        /\ cli.args.config # NoName => cli.args.config \in DOMAIN files
    BY <1>3 DEF CliRun
  <2>2. IsConfig(objects)
    BY <2>1 DEF Written
  <2>3. cli'.phase = "running" /\ cli'.args = cli.args
    BY <1>3 DEF CliRun, Serving
  <2> HIDE DEF objects
  <2> QED BY <2>1, <2>2, <2>3 DEF Written
<1>4. CASE CliReturned
  <2>1. cli.phase = "running" /\ cli'.phase = "write"
    BY <1>4 DEF CliReturned, Serving
  <2>2. \/ files' = files
        \/ files' = Put(files, cli.args.json, commands)
        \/ files' = Put(files, cli.args.json, NoObjects)
    BY <1>4 DEF CliReturned, SaveAs
  <2>3. IsConfig(NoObjects)
    BY NoObjectsSequence DEF IsConfig
  <2>4. \A file \in DOMAIN files' : IsConfig(files'[file])
    BY <2>1, <2>2, <2>3 DEF Written, Put
  <2> QED BY <2>1, <2>4 DEF Written
<1>5. CASE CliNothing \/ CliWrite
  <2>1. UNCHANGED files /\ cli'.phase = "exited"
    BY <1>5 DEF CliNothing, CliWrite, Exits, Serving
  <2> QED BY <2>1 DEF Written
<1>6. CASE CliExit
  <2>1. UNCHANGED files /\ cli'.phase = "none"
    BY <1>6 DEF CliExit, NoCli
  <2> QED BY <2>1 DEF Written
<1>7. CASE RunCommand \/ OtherSteps \/ UNCHANGED allVars
  <2>1. UNCHANGED <<files, cli, commands>>
    BY <1>7 DEF RunCommand, OtherSteps, allVars, sessionVars, cliVars
  <2> QED BY <2>1 DEF Written
<1>8. CASE Import \/ LoadMore \/ Deregister \/ SetStage \/ ExecuteConfig \/ ExecuteMapped
           \/ ExecuteOne \/ Hold \/ Analyze \/ Optimize \/ CheckStage \/ ExecuteNext \/ Ended
  <2>1. cli.phase = "none"
    BY <1>8 DEF Import, LoadMore, Deregister, SetStage, ExecuteConfig, ExecuteMapped, ExecuteOne,
       Hold,
       Analyze, Optimize, CheckStage, Ended, Calls, ExecuteNext, Telling
  <2>2. UNCHANGED <<cli, files>>
    BY <1>8 DEF Import, LoadMore, Deregister, SetStage, ExecuteConfig, ExecuteMapped, ExecuteOne,
       Hold,
       Analyze, Optimize, CheckStage, Analyzed, ExecuteNext, Ended, cliVars, sessionVars, allVars
  <2> QED BY <2>1, <2>2 DEF Written
<1> QED BY <1>1, <1>2, <1>3, <1>4, <1>5, <1>6, <1>7, <1>8 DEF SessionNext

\* A command of the document that is an operation is an object of values.
LEMMA KindsReady ==
  ASSUME NEW objects, IsConfig(objects), NEW i \in 1..Len(Kinds(objects)), Kinds(objects)[i] = "operation"
  PROVE  /\ objects # NoObjects /\ i \in DOMAIN objects /\ IsObject(objects[i])
         /\ GetOperation(NameIn(objects[i])) # NoName
<1>1. CASE objects = NoObjects
  <2>1. Kinds(objects) = <<"not an array">>
    BY <1>1 DEF Kinds, NotArray
  <2>2. Len(<<"not an array">>) = 1 /\ <<"not an array">>[1] = "not an array"
    OBVIOUS
  <2>3. i = 1
    <3>1. Len(Kinds(objects)) = 1
      BY <2>1, <2>2, Zenon
    <3>2. \A k \in 1..1 : k = 1
      OBVIOUS
    <3> QED BY <3>1, <3>2, Zenon
  <2>4. Kinds(objects)[1] = "not an array"
    BY <2>1, <2>2, Zenon
  <2>5. "not an array" # "operation"
    OBVIOUS
  <2> QED BY <2>3, <2>4, <2>5, Zenon
<1>2. CASE objects # NoObjects
  <2>1. Kinds(objects) = [k \in DOMAIN objects |-> Kind(objects[k])] /\ IsSequence(Kinds(objects))
    BY <1>2, KindsSequence DEF Kinds, IsConfig
  <2>2. i \in DOMAIN objects /\ Kind(objects[i]) = "operation"
    <3>1. i \in DOMAIN Kinds(objects)
      BY <2>1 DEF IsSequence
    <3> QED BY <2>1, <3>1
  <2>3. GetOperation(NameIn(objects[i])) # NoName
    BY <2>2 DEF Kind
  <2> QED BY <1>2, <2>2, <2>3 DEF IsConfig
<1> QED BY <1>1, <1>2

\* A configuration that runs as it was written.
LEMMA StartFollows ==
  ASSUME NEW objects, IsConfig(objects), document' = Kinds(objects), commands' = objects,
         sources' = objects, UNCHANGED registryVars
  PROVE  Following'
<1>1. \A o : GetOperation(o)' = GetOperation(o)
  BY DEF GetOperation, registryVars
<1>2. ASSUME NEW i \in 1..Len(document'), document'[i] = "operation" PROVE Faithful(i)'
  <2>1. IsObject(objects[i]) /\ GetOperation(NameIn(objects[i])) # NoName
    BY <1>2, KindsReady
  <2>2. NameIn(commands'[i]) = NameIn(objects[i])
    OBVIOUS
  <2>3. GetOperation(NameIn(commands[i]))' = GetOperation(NameIn(objects[i]))
    BY <1>1, <2>2
  <2> QED BY <2>1, <2>3 DEF Faithful, Alike
<1> QED BY <1>2 DEF Following

\* A configuration that is mapped first is one of objects, which say the same.
LEMMA MappedFollows ==
  ASSUME Loaded, Registering, ExecuteMapped
  PROVE  Following'
<1> DEFINE known == Known(call.commands)
           mapped == MapConfig(call.commands)
<1>1. /\ document' = Kinds(mapped) /\ commands' = mapped /\ sources' = known /\ UNCHANGED registryVars
      /\ IsConfig(call.commands)
  BY CallHanded DEF ExecuteMapped, MappedConfig, CallExecuteConfig, Call, Handed
<1>2. \A o : GetOperation(o)' = GetOperation(o)
  BY <1>1 DEF GetOperation, registryVars
<1>3. /\ IsSequence(known)
      /\ \A k \in DOMAIN known : /\ IsObject(known[k]) /\ "operation" \in DOMAIN known[k]
                                 /\ GetOperation(NameIn(known[k])) # NoName
  <2> DEFINE E == { o \in Range(call.commands) : "operation" \in DOMAIN o /\ GetOperation(NameIn(o)) # NoName }
  <2>1. known = Among(call.commands, E) /\ IsSequence(call.commands)
    BY <1>1, Zenon DEF Known, IsConfig
  <2>2. ASSUME NEW o \in E, NEW i \in DOMAIN call.commands, o = call.commands[i] PROVE IsObject(o)
    <3>1. CASE call.commands = NoObjects
      <4>1. NoObjects[i] = [array |-> <<"bool", FALSE>>]
        BY <2>2, <3>1, OneIs DEF NoObjects
      <4>2. DOMAIN o = {"array"}
        BY <2>2, <3>1, <4>1
      <4> QED BY <2>2, <4>2
    <3>2. CASE call.commands # NoObjects
      BY <1>1, <2>2, <3>2 DEF IsConfig
    <3> QED BY <3>1, <3>2
  <2>3. \A o \in E : "operation" \in DOMAIN o /\ GetOperation(NameIn(o)) # NoName
    OBVIOUS
  <2> HIDE DEF known, E
  <2> QED BY <2>1, <2>2, <2>3, AmongTells
<1>4. mapped = [k \in DOMAIN known |-> MapOperation(GetOperation(NameIn(known[k])), known[k])]
  BY DEF MapConfig
<1> HIDE DEF known, mapped
<1>5. ASSUME NEW k \in DOMAIN known
      PROVE  LET name == GetOperation(NameIn(known[k]))
             IN /\ IsObject(mapped[k]) /\ Alike(name, mapped[k], known[k])
                /\ GetOperation(NameIn(mapped[k])) = name /\ name # NoName
  <2> DEFINE name == GetOperation(NameIn(known[k]))
  <2>1. name # NoName /\ name \in DOMAIN operations /\ mapped[k] = MapOperation(name, known[k])
    BY <1>3, <1>4 DEF GetOperation
  <2>2. name \in DOMAIN Definitions /\ mappings = LoadMappings
    BY <2>1, RegistryShape DEF Registering, Current, Loaded
  <2>3. GetOperation(name) = name
    BY <2>1 DEF GetOperation
  <2>4. IsObject(mapped[k]) /\ Alike(name, mapped[k], known[k])
    <3> HIDE DEF name
    <3> QED BY <1>3, <2>1, <2>2, MappedIsAlike
  <2>5. NameIn(mapped[k]) \in {name, NameIn(known[k])}
    <3> HIDE DEF name
    <3> QED BY <1>3, <2>1, <2>2, MappingGives
  <2>6. GetOperation(NameIn(mapped[k])) = name
    BY <2>3, <2>5
  <2> QED BY <2>1, <2>4, <2>6
<1>6. IsConfig(mapped) /\ DOMAIN mapped = DOMAIN known
  <2> DEFINE n == Len(known)
  <2>1. n \in Nat /\ DOMAIN known = 1..n
    BY <1>3 DEF IsSequence
  <2>2. mapped = [k \in 1..n |-> mapped[k]] /\ DOMAIN mapped = 1..n
    BY <1>4, <2>1
  <2>3. mapped \in Seq({mapped[k] : k \in 1..n})
    <3> HIDE DEF n
    <3> QED BY <2>1, <2>2, SeqDef
  <2>4. IsSequence(mapped)
    BY <2>3, SequenceIs
  <2>5. \A k \in DOMAIN mapped : IsObject(mapped[k])
    BY <1>5, <2>1, <2>2
  <2> QED BY <2>1, <2>2, <2>4, <2>5 DEF IsConfig
<1>7. ASSUME NEW i \in 1..Len(document'), document'[i] = "operation" PROVE Faithful(i)'
  <2>1. i \in DOMAIN known
    BY <1>1, <1>6, <1>7, KindsReady
  <2> DEFINE name == GetOperation(NameIn(known[i]))
  <2>2. /\ IsObject(mapped[i]) /\ Alike(name, mapped[i], known[i])
        /\ GetOperation(NameIn(mapped[i])) = name /\ name # NoName
    BY <1>5, <2>1
  <2>3. NameIn(commands'[i]) = NameIn(mapped[i])
    BY <1>1
  <2>4. GetOperation(NameIn(commands[i]))' = name
    BY <1>2, <2>2, <2>3
  <2> HIDE DEF name
  <2> QED BY <1>1, <2>2, <2>4 DEF Faithful, Alike
<1> QED BY <1>7 DEF Following

\* A configuration keeps to its source as long as it runs: nothing is registered meanwhile.
LEMMA FollowingStep ==
  ASSUME Following, Loaded, Registering, Written, Serving, [SessionNext]_allVars
  PROVE  Following'
<1>1. CASE ExecuteConfig
  <2>1. /\ IsConfig(call.commands) /\ document' = Kinds(call.commands)
        /\ commands' = call.commands /\ sources' = call.commands /\ UNCHANGED registryVars
    BY <1>1, CallHanded DEF ExecuteConfig, CallExecuteConfig, Call, Handed
  <2> QED BY <2>1, StartFollows
<1>2. CASE ExecuteMapped
  BY <1>2, MappedFollows
<1>3. CASE CliRun
  <2> DEFINE objects == IF cli.args.config # NoName THEN files[cli.args.config]
                        ELSE cli.args.commands
  <2>1. /\ cli.phase = "run" /\ document' = Kinds(objects) /\ UNCHANGED registryVars
        /\ commands' = objects /\ sources' = objects
        /\ cli.args.config # NoName => cli.args.config \in DOMAIN files
    BY <1>3 DEF CliRun, CallParseJson, Call
  <2>2. IsConfig(objects)
    BY <2>1 DEF Written
  <2> HIDE DEF objects
  <2> QED BY <2>1, <2>2, StartFollows
<1>4. CASE RunCommand \/ OtherSteps
  <2>1. /\ UNCHANGED <<document, commands, sources, registryVars>>
        /\ pc # "idle" \/ pc' = "idle"
    BY <1>4 DEF RunCommand, OtherSteps, sessionVars, ExecuteOperation, CacheStage, CutShort,
       RejectMalformed,
       ChangeContext, UnknownOperation, EndOfCommands, Cleanup, Returned, LookingAt, caller
  <2>2. \A i : Faithful(i)' <=> Faithful(i)
    BY <2>1 DEF Faithful, GetOperation, Alike, registryVars
  <2> QED BY <2>1, <2>2 DEF Following
<1>5. CASE UNCHANGED allVars
  <2>1. UNCHANGED <<document, commands, sources, registryVars, pc>>
    BY <1>5 DEF allVars, vars, caller, sessionVars
  <2>2. \A i : Faithful(i)' <=> Faithful(i)
    BY <2>1 DEF Faithful, GetOperation, Alike, registryVars
  <2> QED BY <2>1, <2>2 DEF Following
<1>6. CASE Import \/ LoadMore \/ Deregister \/ SetStage \/ ExecuteOne \/ Hold \/ Analyze \/ Optimize
           \/ CheckStage \/ ExecuteNext
  <2>1. pc' = "idle"
    BY <1>6 DEF Import, LoadMore, Deregister, SetStage, CallerCaches, ExecuteOne, Hold, Analyze,
       Optimize,
       CheckStage, Analyzed, InsertsStage, ExecuteNext, Calls, vars
  <2> QED BY <2>1 DEF Following
<1>7. CASE CliProcess \/ CliParse \/ CliNothing \/ CliReturned \/ CliWrite \/ CliExit
  <2>1. pc' = "idle"
    BY <1>7 DEF Serving, CliProcess, CliParse, CliNothing, CliReturned, CliWrite, CliExit, Calls,
       vars
  <2> QED BY <2>1 DEF Following
<1>8. CASE Ended
  <2>1. pc' = "idle"
    BY <1>8 DEF Ended, allVars, vars
  <2> QED BY <2>1 DEF Following
<1> QED BY <1>1, <1>2, <1>3, <1>4, <1>5, <1>6, <1>7, <1>8 DEF SessionNext

\* A command of a configuration: its arguments are mapped when it is looked at, and those of
\* a library's operation once more when it is executed.
LEMMA CommandTells ==
  ASSUME Following, Loaded, Registering, Ordered, RunCommand
  PROVE  told' = told \/ \E e : told' = Append(told, e) /\ Tells(e)
<1> DEFINE source == sources[next]
           name == GetOperation(NameIn(commands[next]))
           object == MapOperation(name, commands[next])
           populated == Populated(name, Initial(Arguments(name)), object)
           e == Told(name, source, populated, TRUE)
<1>1. next \in 1..Len(document) /\ document[next] = "operation" /\ pc # "idle"
  BY DEF RunCommand, ExecuteOperation, LookingAt, command, Ordered
<1>2. name # NoName /\ IsObject(commands[next]) /\ Alike(name, commands[next], source)
  BY <1>1 DEF Following, Faithful
<1>3. name \in DOMAIN Definitions /\ mappings = LoadMappings
  <2>1. name \in DOMAIN operations
    BY <1>2 DEF GetOperation
  <2> QED BY <2>1, RegistryShape DEF Registering, Current, Loaded
<1>4. told' = told \/ (populated.ok /\ told' = Append(told, e))
  BY Zenon DEF RunCommand
<1> HIDE DEF name, source
<1>5. /\ IsObject(object)
      /\ \A a \in NamesOf(Arguments(name)) :
           /\ Given(Former(name), source, a) = Given(Former(name), commands[next], a)
           /\ Given(Former(name), source, a) = Given(Former(name), object, a)
           /\ Given(Former(name), source, a) = IF a \in DOMAIN object THEN {object[a]} ELSE {}
  BY <1>2, <1>3, MappedIsAlike DEF Alike
<1>6. CASE IsPython(name)
  <2>1. populated = [ok |-> TRUE, members |-> Merged(Arguments(name), object)]
    BY <1>6 DEF Populated
  <2> HIDE DEF object
  <2>2. Tells(Told(name, source, [ok |-> TRUE, members |-> Merged(Arguments(name), object)], TRUE))
    BY <1>5, <1>6, PythonTells
  <2>3. Tells(e)
    BY <2>1, <2>2
  <2> HIDE DEF e, populated
  <2> QED BY <1>4, <2>3
<1>7. CASE ~IsPython(name)
  <2> DEFINE mapped == MapOperation(name, object)
  <2>1. populated = PopulateExecutionArguments(Arguments(name), Initial(Arguments(name)), mapped)
    BY <1>7 DEF Populated
  <2> HIDE DEF object
  <2>2. /\ IsObject(mapped)
        /\ \A a \in NamesOf(Arguments(name)) :
             Given(Former(name), object, a) = IF a \in DOMAIN mapped THEN {mapped[a]} ELSE {}
    BY <1>3, <1>5, MappedIsAlike
  <2>3. \A a \in NamesOf(Arguments(name)) :
          Given(Former(name), source, a) = IF a \in DOMAIN mapped THEN {mapped[a]} ELSE {}
    BY <1>5, <2>2
  <2> HIDE DEF mapped, populated
  <2>4. populated.ok => Tells(Told(name, source, populated, TRUE))
    BY <1>3, <1>7, <2>1, <2>2, <2>3, LibraryTells
  <2> QED BY <1>4, <2>4
<1> QED BY <1>6, <1>7

\* Nothing else tells than the two that execute, and a process starts with nothing told.
LEMMA TelltaleStep ==
  ASSUME Telltale, Queued, Following, Loaded, Registering, Ordered, [SessionNext]_allVars
  PROVE  Telltale'
<1>1. \A e : Tells(e)' <=> Tells(e)
  BY DEF Tells, Says
<1>2. ASSUME NEW e, Tells(e), told' = Append(told, e) PROVE Telltale'
  <2> DEFINE values == {told[k] : k \in DOMAIN told} \cup {e}
  <2>1. told \in Seq(values)
    BY SeqDef DEF Telltale, IsSequence
  <2>2. told' \in Seq(values)
    BY <1>2, <2>1, AppendProperties
  <2>3. IsSequence(told') /\ \A k \in DOMAIN told' : told'[k] \in values
    BY <2>2, SequenceIs, ElementOfSeq, LenProperties
  <2>4. \A v \in values : Tells(v)
    BY <1>2 DEF Telltale
  <2> QED BY <1>1, <2>3, <2>4 DEF Telltale
<1>3. ASSUME told' = told PROVE Telltale'
  BY <1>1, <1>3 DEF Telltale
<1>4. CASE RunCommand
  BY <1>2, <1>3, <1>4, CommandTells
<1>5. CASE ExecuteNext
  <2>1. Defining
    BY RegistryShape DEF Registering, Current, Defining
  <2> QED BY <1>2, <1>3, <1>5, <2>1, NextTells
<1>6. CASE CliProcess
  <2>1. told' = <<>>
    BY <1>6 DEF CliProcess
  <2> QED BY <2>1, NoneIs DEF Telltale
<1>7. CASE ~(RunCommand \/ ExecuteNext \/ CliProcess)
  <2>1. told' = told
    BY <1>7 DEF SessionNext, allVars, sessionVars, runVars, Import, LoadMore, Deregister, SetStage,
       ExecuteConfig, ExecuteMapped, OtherSteps, ExecuteOne, Hold, Analyze, Optimize, CheckStage, Analyzed,
       CliParse, CliRun, CliNothing, CliReturned, CliWrite, CliExit, Ended
  <2> QED BY <1>3, <2>1
<1> QED BY <1>4, <1>5, <1>6, <1>7

LEMMA HearingInit == SessionInit => Loaded /\ Queued /\ Written /\ Following /\ Telltale
<1> SUFFICES ASSUME SessionInit PROVE Loaded /\ Queued /\ Written /\ Following /\ Telltale
  OBVIOUS
<1>2. /\ queue = <<>> /\ told = <<>> /\ DOMAIN operations = {} /\ at = 1 /\ pc = "idle"
      /\ cli.phase = "none" /\ files = Disk
  BY DEF SessionInit, Init, NoCli, Nothing
<1>3. Loaded
  BY <1>2 DEF Loaded
<1>4. Queued /\ Telltale
  BY <1>2, NoneIs DEF Queued, Telltale
<1>5. Written /\ Following
  BY <1>2, DiskAssumption DEF Written, Following
<1> QED BY <1>3, <1>4, <1>5

\* Whichever way an operation is executed, however often, from whatever words, objects or
\* rules: each of its arguments has what the caller said of it, within its bounds, and its
\* default when nothing was said.
THEOREM ArgumentsReach == SessionSpec => []ArgumentsTold
<1> DEFINE Hearing == Loaded /\ Queued /\ Written /\ Following /\ Telltale
<1>1. SessionInit => Telling
  <2> SUFFICES ASSUME SessionInit PROVE Telling
    OBVIOUS
  <2>1. cli.phase = "none" /\ files = Disk
    BY DEF SessionInit, NoCli
  <2> QED BY <2>1, DiskAssumption DEF IsConfig, Telling, ExitTells
<1>2. SessionInit => Registering /\ Hearing
  BY RegisteringInit, HearingInit
<1>3. ProcessSound /\ Registering /\ Telling /\ Hearing /\ [SessionNext]_allVars => Hearing'
  BY LoadedStep, QueuedStep, WrittenStep, FollowingStep, TelltaleStep DEF ProcessSound
<1>4. Hearing => ArgumentsTold
  BY DEF Telltale, ArgumentsTold, Tells
<1> HIDE DEF Hearing
<1>5. ProcessSound /\ ProcessSound' /\ Registering /\ Telling /\ [SessionNext]_allVars => Telling'
  BY TellingStep DEF ProcessSound
<1> QED BY <1>1, <1>2, <1>3, <1>4, <1>5, ProcessInvariant, RegisteringStep, PTL DEF SessionSpec
=============================================================================
