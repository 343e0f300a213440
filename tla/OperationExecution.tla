-------------------------- MODULE OperationExecution --------------------------
(***************************************************************************)
(* source/core/src/Operation.cpp: Operation::execute, the scoped logger it *)
(* installs and usdOptimizeLog, through which operations log.              *)
(*                                                                         *)
(* One caller executes operations; an operation may execute another one    *)
(* while it runs (DiceMeshes, OptimizeSkelRoots, MeshPreparation and       *)
(* MeshMerge do), so the calls in progress form a stack.  While the top    *)
(* operation runs, worker tasks of its parallel loops log as well.  The    *)
(* scoped logger is reached through a static pointer, shared by all of     *)
(* them.  A report file is the list of its lines: module Report shows that *)
(* the Report class stores what it is given, in order.                     *)
(***************************************************************************)
EXTENDS Naturals, Sequences, SequencesExt

CONSTANTS Ops,            \* operation instances
          Args,           \* argument names
          Files,          \* report files there can be
          Caller,         \* the thread that calls execute
          Workers,        \* threads of the parallel loops of a running operation
          NoFile,         \* no report: a null pointer in the code
          MaxExecutions,  \* bound on the calls of execute
          MaxLogs         \* bound on the messages about arguments, of running
                          \* operations and of others

ASSUME BoundsAssumption == MaxExecutions \in Nat /\ MaxLogs \in Nat
ASSUME ThreadsAssumption == Caller \notin Workers
ASSUME NoFileAssumption == NoFile \notin Files

VARIABLES carb,        \* a carb logging interface is available
          loggers,     \* the loggers registered with it
          threshold,   \* its level threshold
          logger,      \* s_logger: installed?, its m_report set?, m_fromOperation, and
                       \* the m_oldVerbosity of the scoped logger that it belongs to
          stack,       \* the calls of execute in progress, outermost first
          args,        \* per operation, the arguments that are not at their default
          reportPath,  \* reportPath of the context of each depth of nesting
          text,        \* the lines of every report file opened so far
          call,        \* where each thread is inside usdOptimizeLog
          executions, logs

vars == <<carb, loggers, threshold, logger, stack, args, reportPath, text, call,
          executions, logs>>
carbVars == <<carb, loggers, threshold>>
counters == <<executions, logs>>

Threads  == {Caller} \cup Workers
MaxDepth == 2

Steps == {"validate", "rejected", "report", "begin", "populate", "badArgs",
          "run", "threw", "finish", "drop", "reset", "return"}
Frames == [op : Ops, owner : BOOLEAN, reporting : BOOLEAN, given : SUBSET Args,
           file : Files \cup {NoFile}, step : Steps]

Kinds == {"BEGIN", "END", "MSG", "FOREIGN"}
Line(kind, op) == [kind |-> kind, op |-> op]
Lines == [kind : Kinds, op : Ops]
Idle  == [at |-> "idle"]

Loggers  == [on : BOOLEAN, report : BOOLEAN, fromOperation : BOOLEAN,
             saved : {"none", "user", "info"}]
NoLogger == [on |-> FALSE, report |-> FALSE, fromOperation |-> FALSE, saved |-> "none"]

depth == Len(stack)
top   == stack[depth]
OnStack(o) == \E i \in 1..depth : stack[i].op = o

At(step) == depth > 0 /\ top.step = step /\ call[Caller].at = "idle"
GoTo(step) == stack' = [stack EXCEPT ![depth].step = step]

\* The step that follows the message logged at a step.
AfterLog == [step \in Steps |-> CASE step = "rejected" -> "return"
                                  [] step = "begin"    -> "populate"
                                  [] step = "badArgs"  -> "finish"
                                  [] step = "threw"    -> "finish"
                                  [] step = "finish"   -> "drop"
                                  [] OTHER             -> step]

\* OperationLogger::handleMessage: only what originates from usdOptimizeLog goes to
\* the report, and then nowhere else.
HandleMessage == IF logger.report /\ logger.fromOperation
                 THEN IF stack[1].file = NoFile THEN "destroyed" ELSE "report"
                 ELSE "console"

Targets == {"none", "report", "console", "destroyed"}

-----------------------------------------------------------------------------
(* Faulty variants of the steps below, as a slip in the code would have them. *)

\* The signal is not taken back when usdOptimizeLog returns.
M_UnsignalKeepsFlag(t) ==
  /\ call[t].at = "delivered"
  /\ call' = [call EXCEPT ![t] = Idle]
  /\ IF t = Caller /\ depth > 0 THEN GoTo(AfterLog[top.step]) ELSE UNCHANGED stack
  /\ UNCHANGED <<carbVars, logger, args, reportPath, text, counters>>

\* enableReporting is called for a report in a new file only.
M_OpenReportQuietly ==
  /\ At("report")
  /\ IF top.reporting
     THEN \E f \in Files \ DOMAIN text :
            /\ stack' = [stack EXCEPT ![depth].file = f, ![depth].step = "begin"]
            /\ text' = [g \in DOMAIN text \cup {f} |-> IF g = f THEN <<>> ELSE text[g]]
            /\ reportPath' = [reportPath EXCEPT ![depth] = f]
            /\ logger' = [logger EXCEPT !.report = reportPath[depth] = NoFile]
     ELSE GoTo("begin") /\ UNCHANGED <<text, reportPath, logger>>
  /\ UNCHANGED <<carbVars, args, call, counters>>

\* The report is dropped before END is logged.
M_FinishDropsFirst ==
  /\ At("finish")
  /\ stack' = [stack EXCEPT ![depth].file = NoFile, ![depth].step = "finish"]
  /\ IF top.file = NoFile
     THEN call' = [call EXCEPT ![Caller] = [at |-> "begun", line |-> Line("END", top.op),
                                            reporting |-> FALSE, target |-> "none"]]
     ELSE UNCHANGED call
  /\ UNCHANGED <<carbVars, logger, args, reportPath, text, counters>>

\* ~ScopedOperationLogger leaves the threshold enableReporting lowered.
M_ReturnKeepsThreshold ==
  /\ At("return")
  /\ stack' = SubSeq(stack, 1, depth - 1)
  /\ reportPath' = IF depth > 1 THEN [reportPath EXCEPT ![depth] = NoFile] ELSE reportPath
  /\ IF top.owner
     THEN /\ logger' = NoLogger
          /\ loggers' = IF carb THEN {"default"} ELSE loggers
     ELSE UNCHANGED <<logger, loggers>>
  /\ UNCHANGED <<carb, threshold, args, text, call, counters>>

-----------------------------------------------------------------------------
\* usdOptimizeLog, in the order of its steps: SignalFromOperationLog raises
\* m_fromOperation and looks at m_report, the message is delivered, and the
\* destructor of the signal takes m_fromOperation back.
BeginLog(t, line) ==
  call' = [call EXCEPT ![t] = [at |-> "begun", line |-> line,
                               reporting |-> FALSE, target |-> "none"]]

Signal(t) ==
  /\ call[t].at = "begun"
  /\ call' = [call EXCEPT ![t].at = "signalled", ![t].reporting = logger.report]
  /\ logger' = IF logger.on THEN [logger EXCEPT !.fromOperation = TRUE] ELSE logger
  /\ UNCHANGED <<carbVars, stack, args, reportPath, text, counters>>

\* Through carb when it is there and no report is written, directly otherwise;
\* without a logger the message is printed.
Deliver(t) ==
  /\ call[t].at = "signalled"
  /\ LET viaCarb == carb /\ ~call[t].reporting
         handled == IF viaCarb THEN "operation" \in loggers ELSE logger.on
         target  == IF handled THEN HandleMessage ELSE "console"
     IN /\ call' = [call EXCEPT ![t].at = "delivered", ![t].target = target]
        /\ text' = IF target = "report"
                   THEN [text EXCEPT ![stack[1].file] = Append(@, call[t].line)]
                   ELSE text
  /\ UNCHANGED <<carbVars, logger, stack, args, reportPath, counters>>

Unsignal(t) ==
  /\ call[t].at = "delivered"
  /\ call' = [call EXCEPT ![t] = Idle]
  /\ logger' = IF logger.on THEN [logger EXCEPT !.fromOperation = FALSE] ELSE logger
  /\ IF t = Caller /\ depth > 0 THEN GoTo(AfterLog[top.step]) ELSE UNCHANGED stack
  /\ UNCHANGED <<carbVars, args, reportPath, text, counters>>

\* Somebody else logs through carb while an operation is executed, on any thread
\* that is not inside usdOptimizeLog: every registered logger gets the message.
ForeignMessage(t) ==
  /\ carb /\ depth > 0 /\ logs < MaxLogs
  /\ call[t].at = "idle"
  /\ text' = IF "operation" \in loggers /\ HandleMessage = "report"
             THEN [text EXCEPT ![stack[1].file] = Append(@, Line("FOREIGN", top.op))]
             ELSE text
  /\ logs' = logs + 1
  /\ UNCHANGED <<carbVars, logger, stack, args, reportPath, call, executions>>

-----------------------------------------------------------------------------
Init == /\ carb \in BOOLEAN
        /\ loggers = {"default"}
        /\ threshold = "user"
        /\ logger = NoLogger
        /\ stack = <<>>
        /\ args = [o \in Ops |-> {}]
        /\ reportPath = [d \in 1..MaxDepth |-> NoFile]
        /\ text = [f \in {} |-> <<>>]
        /\ call = [t \in Threads |-> Idle]
        /\ executions = 0
        /\ logs = 0

\* The caller frees its context and makes another, with or without a reportPath.
NewContext == /\ depth = 0
              /\ \E f \in (Files \ DOMAIN text) \cup {NoFile} :
                   /\ f # reportPath[1]
                   /\ reportPath' = [reportPath EXCEPT ![1] = f]
              /\ UNCHANGED <<carbVars, logger, stack, args, text, call, counters>>

\* execute() is entered: a scoped logger is created unless there is one already.
Enter(o, reporting, given) ==
  /\ executions < MaxExecutions
  /\ executions' = executions + 1
  /\ stack' = Append(stack, [op |-> o, owner |-> ~logger.on, reporting |-> reporting,
                             given |-> given, file |-> NoFile, step |-> "validate"])
  /\ IF logger.on
     THEN UNCHANGED <<logger, loggers>>
     ELSE /\ logger' = [NoLogger EXCEPT !.on = TRUE, !.saved = IF carb THEN threshold ELSE "none"]
          /\ loggers' = IF carb THEN {"operation"} ELSE loggers
  /\ UNCHANGED <<carb, threshold, args, text, call, logs>>

Execute(o) == /\ depth = 0
              /\ \E reporting \in BOOLEAN, given \in SUBSET Args : Enter(o, reporting, given)
              /\ UNCHANGED reportPath

\* A running operation executes another one, once its workers are done, with a
\* copy of its context (MeshMerge: without report and path).
ExecuteNested(o) ==
  /\ At("run") /\ depth < MaxDepth
  /\ ~OnStack(o)
  /\ \A t \in Workers : call[t].at = "idle"
  /\ \E copied \in BOOLEAN, given \in SUBSET Args :
       /\ Enter(o, copied /\ top.reporting, given)
       /\ reportPath' = [reportPath EXCEPT ![depth + 1] =
                           IF copied THEN reportPath[depth] ELSE NoFile]

\* The context and the stage are in order; or an error is logged (no context, no
\* support for analysis mode); or the stage is not found, which is not logged.
Validate == /\ At("validate")
            /\ \E step \in {"report", "rejected", "return"} : GoTo(step)
            /\ UNCHANGED <<carbVars, logger, args, reportPath, text, call, counters>>

LogRejected == /\ At("rejected")
               /\ BeginLog(Caller, Line("MSG", top.op))
               /\ UNCHANGED <<carbVars, logger, stack, args, reportPath, text, counters>>

\* The report is opened at the context's path, or else at the path of a new
\* temporary file (if there can be one); a report that does not open is dropped.  The context gets the
\* path, and the scoped logger of this call the report.
OpenReport ==
  /\ At("report")
  /\ IF top.reporting
     THEN \E f \in IF reportPath[depth] = NoFile THEN (Files \ DOMAIN text) \cup {NoFile}
                                                 ELSE {reportPath[depth]},
             opened \in BOOLEAN :
            /\ opened => f # NoFile
            /\ stack' = [stack EXCEPT ![depth].file = IF opened THEN f ELSE NoFile,
                                      ![depth].step = "begin"]
            /\ IF opened
               THEN /\ text' = [g \in DOMAIN text \cup {f} |->
                                  IF g \in DOMAIN text THEN text[g] ELSE <<>>]
                    /\ reportPath' = [reportPath EXCEPT ![depth] = f]
               ELSE UNCHANGED <<text, reportPath>>
            /\ IF top.owner
               THEN /\ logger' = [logger EXCEPT !.report = opened]
                    /\ threshold' = IF carb THEN "info" ELSE threshold
               ELSE UNCHANGED <<logger, threshold>>
     ELSE GoTo("begin") /\ UNCHANGED <<text, reportPath, logger, threshold>>
  /\ UNCHANGED <<carb, loggers, args, call, counters>>

LogBegin == /\ At("begin")
            /\ IF top.file # NoFile
               THEN BeginLog(Caller, Line("BEGIN", top.op)) /\ UNCHANGED stack
               ELSE GoTo("populate") /\ UNCHANGED call
            /\ UNCHANGED <<carbVars, logger, args, reportPath, text, counters>>

\* populateExecutionArguments warns of names it does not know and says what is wrong
\* with a value, ...
LogArgument == /\ At("populate")
               /\ logs < MaxLogs
               /\ BeginLog(Caller, Line("MSG", top.op))
               /\ logs' = logs + 1
               /\ UNCHANGED <<carbVars, logger, stack, args, reportPath, text, executions>>

\* ... and stops at the first argument it cannot set.
Populate == /\ At("populate")
            /\ \/ /\ args' = [args EXCEPT ![top.op] = top.given]
                  /\ GoTo("run")
               \/ \E some \in SUBSET top.given :
                    /\ some # top.given
                    /\ args' = [args EXCEPT ![top.op] = some]
                    /\ GoTo("badArgs")
            /\ UNCHANGED <<carbVars, logger, reportPath, text, call, counters>>

LogBadArgs == /\ At("badArgs")
              /\ BeginLog(Caller, Line("MSG", top.op))
              /\ UNCHANGED <<carbVars, logger, stack, args, reportPath, text, counters>>

\* executeImpl() logs: on the calling thread and, in its parallel loops, on others.
RunLog(t) == /\ depth > 0 /\ top.step = "run"
             /\ call[t].at = "idle"
             /\ logs < MaxLogs
             /\ BeginLog(t, Line("MSG", top.op))
             /\ logs' = logs + 1
             /\ UNCHANGED <<carbVars, logger, stack, args, reportPath, text, executions>>

\* executeImpl() returns, whatever the result, or throws; its workers are done then.
RunEnd == /\ At("run")
          /\ \A t \in Workers : call[t].at = "idle"
          /\ \E step \in {"finish", "threw"} : GoTo(step)
          /\ UNCHANGED <<carbVars, logger, args, reportPath, text, call, counters>>

LogThrew == /\ At("threw")
            /\ BeginLog(Caller, Line("MSG", top.op))
            /\ UNCHANGED <<carbVars, logger, stack, args, reportPath, text, counters>>

LogEnd == /\ At("finish")
          /\ IF top.file # NoFile
             THEN BeginLog(Caller, Line("END", top.op)) /\ UNCHANGED stack
             ELSE GoTo("reset") /\ UNCHANGED call
          /\ UNCHANGED <<carbVars, logger, args, reportPath, text, counters>>

\* m_report = nullptr flushes and closes the file; the logger keeps its pointer.
DropReport == /\ At("drop")
              /\ stack' = [stack EXCEPT ![depth].file = NoFile, ![depth].step = "reset"]
              /\ UNCHANGED <<carbVars, logger, args, reportPath, text, call, counters>>

ResetArgs == /\ At("reset")
             /\ GoTo("return")
             /\ args' = [args EXCEPT ![top.op] = {}]
             /\ UNCHANGED <<carbVars, logger, reportPath, text, call, counters>>

\* execute() returns: the scoped logger, if this call made it, puts back what it
\* replaced; whoever made a copy of a context for a nested call frees it.
Return ==
  /\ At("return")
  /\ stack' = SubSeq(stack, 1, depth - 1)
  /\ reportPath' = IF depth > 1 THEN [reportPath EXCEPT ![depth] = NoFile] ELSE reportPath
  /\ IF top.owner
     THEN /\ logger' = NoLogger
          /\ loggers' = IF carb THEN {"default"} ELSE loggers
          /\ threshold' = IF carb THEN logger.saved ELSE threshold
     ELSE UNCHANGED <<logger, loggers, threshold>>
  /\ UNCHANGED <<carb, args, text, call, counters>>

\* The caller is done.
Done == depth = 0 /\ executions = MaxExecutions /\ UNCHANGED vars

Logging(t) == Signal(t) \/ Deliver(t) \/ Unsignal(t)

Next == \/ NewContext
        \/ \E o \in Ops : Execute(o) \/ ExecuteNested(o)
        \/ Validate \/ LogRejected \/ OpenReport \/ LogBegin
        \/ LogArgument \/ Populate \/ LogBadArgs
        \/ RunEnd \/ LogThrew
        \/ LogEnd \/ DropReport \/ ResetArgs \/ Return
        \/ \E t \in Threads : RunLog(t) \/ Logging(t) \/ ForeignMessage(t)
        \/ Done

Spec == Init /\ [][Next]_vars

-----------------------------------------------------------------------------
\* The variables hold what their C++ counterparts can hold; the outermost call, and
\* no other, owns the scoped logger, and while it lasts the logger is installed.
TypeOK == /\ carb \in BOOLEAN
          /\ loggers \in {{"default"}, {"operation"}}
          /\ threshold \in {"user", "info"}
          /\ logger \in Loggers
          /\ stack \in Seq(Frames) /\ depth <= MaxDepth
          /\ \A i \in 1..depth : stack[i].owner <=> i = 1
          /\ args \in [Ops -> SUBSET Args]
          /\ reportPath \in [1..MaxDepth -> Files \cup {NoFile}]
          /\ DOMAIN text \subseteq Files
          /\ \A f \in DOMAIN text : text[f] \in Seq(Lines)
          /\ call \in [Threads -> {Idle} \cup [at : {"begun", "signalled", "delivered"},
                                               line : Lines, reporting : BOOLEAN, target : Targets]]
          /\ executions \in 0..MaxExecutions
          /\ logs \in 0..MaxLogs

\* Reading a report, line by line: the operations begun and not ended yet, and
\* whether every line is where it belongs.
ReadLine(reading, line) ==
  CASE line.kind = "BEGIN" -> [reading EXCEPT !.open = Append(@, line.op)]
    [] line.kind = "END" /\ reading.open # <<>> /\ Last(reading.open) = line.op
         -> [reading EXCEPT !.open = Front(@)]
    [] line.kind = "MSG" /\ reading.open # <<>> -> reading
    [] OTHER -> [reading EXCEPT !.sound = FALSE]
Read(lines) == FoldLeft(ReadLine, [open |-> <<>>, sound |-> TRUE], lines)

\* A report can be filtered by its BEGIN and END markers: they nest, every message
\* is between the markers of an operation, nothing but messages of operations gets
\* in, and a marker is missing only while the operation is executed, however the
\* executions of the file end.
ReportNests == \A f \in DOMAIN text :
                 /\ Read(text[f]).sound
                 /\ depth = 0 => Read(text[f]).open = <<>>

\* While the outermost operation has a report, what operations log goes to the
\* report and is not printed (Operation.cpp:69, "if we are logging to the report,
\* nothing is printed to the console").
OnlyToReport == \A t \in Threads :
                  call[t].at = "delivered" /\ depth > 0 /\ stack[1].file # NoFile
                    => call[t].target = "report"

\* The logger's plain pointer to the report is not used after the report is gone.
NeverToDestroyedReport == \A t \in Threads :
                            call[t].at = "delivered" => call[t].target # "destroyed"

\* However an execution ends, it leaves the logging of the process as it found it.
LoggingRestored == depth = 0 => /\ logger = NoLogger
                                /\ loggers = {"default"}
                                /\ threshold = "user"

\* For TLC: operations, arguments and files are alike.
Alike == Permutations(Ops) \cup Permutations(Args) \cup Permutations(Files)
=============================================================================
