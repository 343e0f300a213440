------------------------------ MODULE ConfigRun ------------------------------
(***************************************************************************)
(* Running a JSON configuration: UsdOptimizeCore::executeConfig            *)
(* (source/core/src/Core.cpp), which the Python API uses, and _parseJson   *)
(* (source/core/src/ParseJson.cpp), which the command line uses.           *)
(*                                                                         *)
(* Both copy the caller's execution context, run the commands in order on  *)
(* the copy and hand its reportPath back.  reportPath is a C string that   *)
(* whoever holds the pointer has to free, so the strings are modelled as   *)
(* blocks of a heap and the pointers as the numbers of blocks, 0 for null. *)
(* Operation::execute is one step here, with the effects on the context    *)
(* that module OperationExecution spells out.                              *)
(***************************************************************************)
EXTENDS Naturals, Sequences, SequencesExt, FiniteSets

CONSTANTS Commands,      \* the kinds of commands configurations are made of
          MaxCommands,   \* bound on the length of a configuration
          MaxRuns        \* bound on the configurations run

ASSUME CommandsAssumption ==
  Commands \subseteq {"operation", "reportOn", "reportOff", "unknown", "malformed"}
ASSUME MaxAssumption == MaxCommands \in Nat /\ MaxRuns \in Nat

VARIABLES entry,        \* the function that runs
          pc,           \* where it is
          document,     \* the commands; NotArray when the JSON is something else
          next,         \* the command to look at
          hasContext,   \* the caller passes a context and not a null pointer
          callerPath,   \* reportPath of the caller's context
          ownPath,      \* reportPath of the copy
          reporting,    \* generateReport of the copy
          heap,         \* live block -> the file it names
          allocated,    \* blocks allocated so far
          memoryError,  \* a block was used or freed after it was freed
          cached,       \* the stage is in the stage cache
          callerCached, \* it is the caller that put it there
          inserted,     \* insertedStage
          executed,     \* operations of this run: their command and their success
          reports,      \* file -> operations with BEGIN and END in it
          results, rc,  \* what executeConfig and _parseJson return
          leaked, left, \* history: blocks, and the stage in the cache, nobody cleans up
          runs

vars == <<entry, pc, document, next, hasContext, callerPath, ownPath, reporting, heap,
          allocated, memoryError, cached, callerCached, inserted, executed,
          reports, results, rc, leaked, left, runs>>
memory == <<callerPath, ownPath, heap, allocated, memoryError, leaked>>
stage  == <<cached, callerCached, inserted, left>>
caller == <<entry, document, hasContext, runs>>

NotArray  == <<"not an array">>
Documents == SeqOf(Commands, MaxCommands)
Malformed(d) == d = NotArray \/ "malformed" \in Range(d)

\* Every block, and so every temporary file, is named by a number.
MaxBlocks == MaxRuns * (1 + MaxCommands)
Null == 0

command == document[next]
running == pc \in {"copied", "loop", "cleanup"}

\* free(): of null it does nothing.
Freed(h, b)  == [x \in DOMAIN h \ {b} |-> h[x]]
Dead(h, b)   == b # Null /\ b \notin DOMAIN h
With(h, b, f) == [x \in DOMAIN h \cup {b} |-> IF x = b THEN f ELSE h[x]]

\* usd_optimize_execution_context_copy onto a new context.
CopyContext == IF hasContext /\ callerPath # Null
               THEN /\ allocated' = allocated + 1
                    /\ memoryError' = (memoryError \/ Dead(heap, callerPath))
                    /\ heap' = IF callerPath \in DOMAIN heap
                               THEN With(heap, allocated + 1, heap[callerPath]) ELSE heap
                    /\ ownPath' = allocated + 1
               ELSE /\ ownPath' = Null
                    /\ UNCHANGED <<allocated, memoryError, heap>>

\* The report of an operation that is executed: opened at the context's path, or at
\* a new file; when it opens, the path is allocated anew and the old one is freed.
OpenReport(opened) ==
  LET file == IF ownPath = Null THEN allocated + 1 ELSE heap[ownPath]
  IN IF reporting /\ opened
     THEN /\ allocated' = allocated + 1
          /\ memoryError' = (memoryError \/ Dead(heap, ownPath))
          /\ heap' = With(Freed(heap, ownPath), allocated + 1, file)
          /\ ownPath' = allocated + 1
          /\ reports' = With(reports, file,
                             Append(IF file \in DOMAIN reports THEN reports[file] ELSE <<>>,
                                    <<runs, next>>))
     ELSE UNCHANGED <<heap, allocated, memoryError, ownPath, reports>>

-----------------------------------------------------------------------------
(* Faulty variants of the steps below, as a slip in the code would have them. *)

\* A failed operation does not end the loop.
M_ExecuteGoesOn ==
  /\ pc = "loop" /\ next <= Len(document) /\ command = "operation"
  /\ \E ok, opened \in BOOLEAN :
       /\ OpenReport(opened)
       /\ executed' = Append(executed, [command |-> next, ok |-> ok])
       /\ IF entry = "executeConfig"
          THEN results' = Append(results, ok) /\ UNCHANGED rc
          ELSE rc' = (rc /\ ok) /\ UNCHANGED results
       /\ next' = next + 1
  /\ UNCHANGED <<pc, caller, callerPath, leaked, reporting, stage>>

\* The pointer is handed to the caller and freed with the copy as well.
M_CleanupFreesBoth ==
  /\ pc = "cleanup"
  /\ pc' = "returned"
  /\ cached' = (cached /\ ~inserted)
  /\ inserted' = FALSE /\ UNCHANGED <<callerCached, left, leaked>>
  /\ memoryError' = (memoryError \/ (hasContext /\ Dead(heap, callerPath)))
  /\ callerPath' = IF hasContext THEN ownPath ELSE callerPath
  /\ heap' = Freed(IF hasContext THEN Freed(heap, callerPath) ELSE heap, ownPath)
  /\ ownPath' = Null
  /\ UNCHANGED <<caller, next, reporting, allocated, executed, reports, results, rc>>

\* The path is only handed back when every operation succeeded.
M_CleanupAfterSuccessOnly ==
  /\ pc = "cleanup"
  /\ pc' = "returned"
  /\ cached' = (cached /\ ~inserted)
  /\ inserted' = FALSE /\ UNCHANGED <<callerCached, left, leaked>>
  /\ LET failed == ~rc \/ FALSE \in Range(results)
         handed == hasContext /\ ~failed
     IN /\ callerPath' = IF handed THEN ownPath ELSE callerPath
        /\ heap' = IF handed THEN Freed(heap, callerPath) ELSE Freed(heap, ownPath)
  /\ ownPath' = Null
  /\ UNCHANGED <<caller, next, reporting, allocated, memoryError, executed, reports,
                 results, rc>>

\* The stage is erased from the cache whoever put it there.
M_CleanupErasesAlways ==
  /\ pc = "cleanup"
  /\ pc' = "returned"
  /\ cached' = (cached /\ entry = "executeConfig")
  /\ inserted' = FALSE /\ UNCHANGED <<callerCached, left, leaked>>
  /\ callerPath' = IF hasContext THEN ownPath ELSE callerPath
  /\ heap' = IF hasContext THEN Freed(heap, callerPath) ELSE Freed(heap, ownPath)
  /\ ownPath' = Null
  /\ UNCHANGED <<caller, next, reporting, allocated, memoryError, executed, reports,
                 results, rc>>

-----------------------------------------------------------------------------
Init == /\ pc = "idle"
        /\ entry = "executeConfig" /\ document = <<>> /\ next = 1
        /\ hasContext \in BOOLEAN
        /\ callerPath = Null /\ ownPath = Null /\ reporting = FALSE
        /\ heap = [b \in {} |-> 0] /\ allocated = 0 /\ memoryError = FALSE
        /\ cached \in BOOLEAN /\ callerCached = cached /\ inserted = FALSE
        /\ leaked = {} /\ left = FALSE
        /\ executed = <<>> /\ reports = [f \in {} |-> <<>>]
        /\ results = <<>> /\ rc = TRUE
        /\ runs = 0

\* The caller puts its stage into the cache, or takes it out.
CallerCaches == /\ pc = "idle"
                /\ callerCached' = ~callerCached
                /\ cached' = callerCached' /\ left' = FALSE
                /\ UNCHANGED <<pc, caller, next, memory, reporting, inserted, executed,
                               reports, results, rc>>

\* What the two functions have in common when they are entered.
Call(e, d) == /\ pc = "idle" /\ runs < MaxRuns
              /\ entry' = e /\ document' = d
              /\ runs' = runs + 1
              /\ next' = 1 /\ executed' = <<>> /\ rc' = TRUE
              /\ \E on \in BOOLEAN : reporting' = (hasContext /\ on)
              /\ UNCHANGED <<hasContext, callerPath, leaked, stage, reports>>

\* A document that is no array is one failure, and the context is not even copied.
CallExecuteConfig(d) ==
  /\ Call("executeConfig", d)
  /\ IF d = NotArray
     THEN /\ results' = <<FALSE>> /\ pc' = "returned"
          /\ UNCHANGED <<heap, ownPath, allocated, memoryError>>
     ELSE results' = <<>> /\ pc' = "loop" /\ CopyContext

CallParseJson(d) == /\ Call("parseJson", d)
                    /\ results' = <<>> /\ pc' = "copied"
                    /\ CopyContext

\* The stage is put into the cache unless it is there.
CacheStage == /\ pc = "copied" /\ document # NotArray
              /\ inserted' = ~cached /\ cached' = TRUE
              /\ pc' = "loop"
              /\ UNCHANGED <<caller, next, memory, reporting, callerCached, left, executed,
                             reports, results, rc>>

-----------------------------------------------------------------------------
LookingAt(kinds) == pc = "loop" /\ next <= Len(document) /\ command \in kinds

\* _parseJson returns there and then when the document is no array, or an entry is no
\* object or has no "operation": what it has to undo stays as it is.
CutShort ==
  /\ entry = "parseJson"
  /\ LookingAt({"malformed"}) \/ (pc = "copied" /\ document = NotArray)
  /\ pc' = "cut" /\ rc' = FALSE
  /\ leaked' = leaked \cup ({ownPath} \ {Null}) /\ ownPath' = Null
  /\ left' = (left \/ inserted) /\ inserted' = FALSE
  /\ UNCHANGED <<caller, next, callerPath, heap, allocated, memoryError, reporting, cached,
                 callerCached, executed, reports, results>>

\* executeConfig leaves the loop at such an entry.
RejectMalformed ==
  /\ entry = "executeConfig" /\ LookingAt({"malformed"})
  /\ pc' = "cleanup" /\ results' = Append(results, FALSE)
  /\ UNCHANGED <<caller, next, memory, reporting, stage, executed, reports, rc>>

\* An executionContext entry that switches reporting on or off.
ChangeContext ==
  /\ LookingAt({"reportOn", "reportOff"})
  /\ reporting' = (command = "reportOn")
  /\ next' = next + 1
  /\ UNCHANGED <<pc, caller, memory, stage, executed, reports, results, rc>>

\* An operation nobody registered: a failure for executeConfig, a warning for
\* _parseJson.
UnknownOperation ==
  /\ LookingAt({"unknown"})
  /\ IF entry = "executeConfig"
     THEN pc' = "cleanup" /\ results' = Append(results, FALSE) /\ UNCHANGED next
     ELSE next' = next + 1 /\ UNCHANGED <<pc, results>>
  /\ UNCHANGED <<caller, memory, reporting, stage, executed, reports, rc>>

\* Without a context, executeConfig runs the operation with a stage id that names
\* no stage, and the operation returns before it opens a report.
ExecuteOperation ==
  /\ LookingAt({"operation"})
  /\ \E ok, opened \in BOOLEAN :
       /\ ok \/ opened => entry = "parseJson" \/ hasContext
       /\ OpenReport(opened)
       /\ executed' = Append(executed, [command |-> next, ok |-> ok])
       /\ IF entry = "executeConfig"
          THEN results' = Append(results, ok) /\ UNCHANGED rc
          ELSE rc' = ok /\ UNCHANGED results
       /\ IF ok THEN next' = next + 1 /\ UNCHANGED pc
                ELSE pc' = "cleanup" /\ UNCHANGED next
  /\ UNCHANGED <<caller, callerPath, leaked, reporting, stage>>

EndOfCommands ==
  /\ pc = "loop" /\ next > Len(document)
  /\ pc' = "cleanup"
  /\ UNCHANGED <<caller, next, memory, reporting, stage, executed, reports, results, rc>>

\* The stage is taken out of the cache again; the path moves to the caller's context,
\* whose own is freed, or is freed with the copy when there is no such context.
Cleanup ==
  /\ pc = "cleanup"
  /\ pc' = "returned"
  /\ cached' = (cached /\ ~inserted)
  /\ inserted' = FALSE /\ UNCHANGED <<callerCached, left, leaked>>
  /\ IF hasContext
     THEN /\ memoryError' = (memoryError \/ Dead(heap, callerPath))
          /\ heap' = Freed(heap, callerPath)
          /\ callerPath' = ownPath
     ELSE /\ memoryError' = (memoryError \/ Dead(heap, ownPath))
          /\ heap' = Freed(heap, ownPath)
          /\ UNCHANGED callerPath
  /\ ownPath' = Null
  /\ UNCHANGED <<caller, next, reporting, allocated, executed, reports, results, rc>>

FreeContext == /\ memoryError' = (memoryError \/ Dead(heap, callerPath))
               /\ heap' = Freed(heap, callerPath)
               /\ callerPath' = Null

\* The caller looks at what was returned; it may then free its context.
Returned ==
  /\ pc \in {"returned", "cut"}
  /\ pc' = "idle"
  /\ UNCHANGED <<callerPath, heap, memoryError>> \/ FreeContext
  /\ UNCHANGED <<caller, next, ownPath, allocated, leaked, reporting, stage, executed, reports,
                 results, rc>>

Done == pc = "idle" /\ runs = MaxRuns /\ UNCHANGED vars

Next == \/ CallerCaches
        \/ \E d \in Documents \cup {NotArray} : CallExecuteConfig(d) \/ CallParseJson(d)
        \/ CacheStage \/ CutShort \/ RejectMalformed \/ ChangeContext
            \/ UnknownOperation \/ ExecuteOperation
        \/ EndOfCommands \/ Cleanup \/ Returned \/ Done

Spec == Init /\ [][Next]_vars

-----------------------------------------------------------------------------
\* The variables hold what their C++ counterparts can hold, and the blocks allocated
\* suffice for the runs.
TypeOK == /\ entry \in {"executeConfig", "parseJson"}
          /\ pc \in {"idle", "copied", "loop", "cleanup", "returned", "cut"}
          /\ document \in Documents \cup {NotArray}
          /\ next \in 1..MaxCommands + 1
          /\ {hasContext, reporting, memoryError, cached, callerCached, inserted, left, rc}
               \subseteq BOOLEAN
          /\ {callerPath, ownPath} \subseteq 0..MaxBlocks
          /\ allocated \in 0..MaxBlocks
          /\ DOMAIN heap \subseteq 1..allocated /\ Range(heap) \subseteq 1..allocated
          /\ executed \in Seq([command : 1..MaxCommands, ok : BOOLEAN])
          /\ DOMAIN reports \subseteq 1..allocated
          /\ results \in Seq(BOOLEAN)
          /\ runs \in 0..MaxRuns
          /\ leaked \subseteq 1..allocated
          /\ ~running => ownPath = Null /\ ~inserted

\* "Operations are executed in order. Execution stops on the first failure"
\* (Core.h:157): nothing is executed after an operation that failed, and every
\* operation before it was executed, in the order of the document.
InOrderUpToFirstFailure ==
  /\ \A k \in 1..Len(executed) : ~executed[k].ok => k = Len(executed)
  /\ \A j, k \in 1..Len(executed) : j < k => executed[j].command < executed[k].command
  /\ { executed[k].command : k \in { k \in 1..Len(executed) : executed[k].ok } }
       = { i \in 1..next - 1 : document[i] = "operation" }

\* The path is freed once, by whoever holds it last: no block is used after it was
\* freed, and when nothing runs the only live blocks are the caller's and those of
\* runs that were cut short.
MemoryOwned == /\ ~memoryError
               /\ ~running => DOMAIN heap \ leaked = {callerPath} \ {Null}
               /\ leaked \subseteq DOMAIN heap
               /\ running /\ hasContext /\ callerPath # Null => callerPath # ownPath

\* "If we generated a report, we should copy this value back": after a run that was not
\* cut short, the caller's context names the file that all the reporting operations of the
\* run wrote to.
CallerFindsReport ==
  pc = "returned" /\ hasContext =>
    \A f \in DOMAIN reports :
      (\E k \in 1..Len(reports[f]) : reports[f][k][1] = runs)
        => callerPath \in DOMAIN heap /\ heap[callerPath] = f

\* A run leaves the stage cache of the process as it was found, whichever operation
\* failed and whoever had put the stage there, unless it was cut short.
StageCacheKept == ~running => cached = (callerCached \/ left)

\* "check if it has already been cached. If not, we add it, and then make a note to
\* remove it again afterward": no run leaves the stage in the cache.
StageCacheRestored == ~running => cached = callerCached
=============================================================================
