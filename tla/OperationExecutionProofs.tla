----------------------- MODULE OperationExecutionProofs -----------------------
(***************************************************************************)
(* Proofs about OperationExecution for any operations, arguments, files,   *)
(* threads and bounds: what an execution leaves of the logging, that no    *)
(* message reaches a report that is gone and, without the threads of       *)
(* parallel loops, what a report is read as.                               *)
(***************************************************************************)
EXTENDS OperationExecution, Induction

Paths == [1..MaxDepth -> Files \cup {NoFile}]

\* The part of the types that the proofs need.
Typed == /\ stack \in Seq(Frames)
         /\ logger \in Loggers
         /\ carb \in BOOLEAN
         /\ depth <= MaxDepth /\ reportPath \in Paths

\* The logger is installed while there is a call, and the outermost one owns it.
Installed == /\ logger.on <=> depth > 0
             /\ \A i \in 1..depth : stack[i].owner <=> i = 1

\* What is changed is what the outermost call puts back.
PutBack == /\ depth = 0 => LoggingRestored
           /\ ~carb => loggers = {"default"} /\ threshold = "user"
           /\ carb /\ depth > 0 => logger.saved = "user"

Restoring == Typed /\ Installed /\ PutBack

-----------------------------------------------------------------------------
\* The calls of execute after one is entered, ...
LEMMA Pushed ==
  ASSUME NEW s \in Seq(Frames), NEW f \in Frames
  PROVE  /\ Append(s, f) \in Seq(Frames) /\ Len(Append(s, f)) = Len(s) + 1
         /\ \A i \in 1..Len(s) : Append(s, f)[i] = s[i]
         /\ Append(s, f)[Len(s) + 1] = f
         /\ Len(s) \in Nat
BY AppendProperties, LenProperties

\* ... has returned, ...
LEMMA Popped ==
  ASSUME NEW s \in Seq(Frames), Len(s) > 0
  PROVE  /\ SubSeq(s, 1, Len(s) - 1) \in Seq(Frames)
         /\ Len(SubSeq(s, 1, Len(s) - 1)) = Len(s) - 1
         /\ \A i \in 1..Len(s) - 1 : SubSeq(s, 1, Len(s) - 1)[i] = s[i]
         /\ Len(s) \in Nat \ {0}
<1>1. Len(s) \in Nat \ {0} /\ \A i \in 1..Len(s) : s[i] \in Frames
  BY LenProperties, ElementOfSeq
<1> DEFINE n == Len(s) - 1
<1>2. n \in Nat /\ n < Len(s) /\ 1 \in Int /\ n \in Int
  BY <1>1
<1>3. \A i \in 1..n : s[i] \in Frames
  BY <1>1, <1>2
<1> HIDE DEF n
<1>4. /\ SubSeq(s, 1, n) \in Seq(Frames)
      /\ Len(SubSeq(s, 1, n)) = IF 1 <= n THEN n - 1 + 1 ELSE 0
      /\ \A i \in 1..n - 1 + 1 : SubSeq(s, 1, n)[i] = s[1 + i - 1]
  BY <1>2, <1>3, SubSeqProperties
<1>5. /\ Len(SubSeq(s, 1, n)) = n
      /\ \A i \in 1..n : SubSeq(s, 1, n)[i] = s[i]
  BY <1>2, <1>4
<1> QED BY <1>1, <1>4, <1>5 DEF n

\* ... or has gone on.
LEMMA Moved ==
  ASSUME NEW s \in Seq(Frames), NEW f \in Frames, Len(s) > 0,
         NEW r, r = [s EXCEPT ![Len(s)] = f]
  PROVE  /\ r \in Seq(Frames) /\ Len(r) = Len(s)
         /\ \A i \in 1..Len(s) : r[i] = IF i = Len(s) THEN f ELSE s[i]
BY ExceptSeq, LenProperties

\* Going on to another step leaves the rest of the call as it is.
LEMMA Going ==
  ASSUME Typed, depth > 0, NEW step \in Steps, GoTo(step)
  PROVE  /\ stack' \in Seq(Frames) /\ depth' = depth /\ depth \in Nat
         /\ \A i \in 1..depth - 1 : stack'[i] = stack[i]
         /\ top'.step = step /\ top'.owner = top.owner /\ top'.file = top.file
         /\ top'.op = top.op
<1>1. depth \in Nat \ {0} /\ depth \in 1..depth /\ DOMAIN stack = 1..depth /\ stack \in Seq(Frames)
  BY LenProperties DEF Typed, depth
<1>2. stack[depth] \in Frames
  BY <1>1, ElementOfSeq DEF depth
<1>3. PICK f : f = [stack[depth] EXCEPT !.step = step]
  OBVIOUS
<1>4. /\ f \in Frames /\ f.step = step /\ f.owner = stack[depth].owner
      /\ f.file = stack[depth].file /\ f.op = stack[depth].op
  BY <1>2, <1>3 DEF Frames
<1>5. stack' = [stack EXCEPT ![depth] = f]
  BY <1>3 DEF GoTo
<1>6. /\ stack' \in Seq(Frames) /\ Len(stack') = Len(stack)
      /\ \A i \in 1..Len(stack) : stack'[i] = IF i = Len(stack) THEN f ELSE stack[i]
  BY <1>1, <1>4, <1>5, Moved DEF depth
<1>7. depth' = depth /\ top' = f
  BY <1>1, <1>6 DEF depth, top
<1>8. \A i \in 1..depth - 1 : stack'[i] = stack[i]
  <2>1. \A i \in 1..depth - 1 : i \in 1..Len(stack) /\ i # Len(stack)
    <3>1. depth = Len(stack) /\ depth \in Nat \ {0}
      BY <1>1 DEF depth
    <3> QED BY <3>1
  <2> QED BY <1>6, <2>1
<1>9. top = stack[depth]
  BY DEF top
<1> QED BY <1>1, <1>4, <1>6, <1>7, <1>8, <1>9

\* A call that goes on with another report, or none.
LEMMA Filed ==
  ASSUME Typed, depth > 0, NEW g \in Files \cup {NoFile}, NEW step \in Steps,
         stack' = [stack EXCEPT ![depth].file = g, ![depth].step = step]
  PROVE  /\ stack' \in Seq(Frames) /\ depth' = depth /\ depth \in Nat
         /\ \A i \in 1..depth - 1 : stack'[i] = stack[i]
         /\ top'.step = step /\ top'.owner = top.owner /\ top'.file = g
         /\ top'.op = top.op
<1>1. depth \in Nat \ {0} /\ depth \in 1..depth /\ DOMAIN stack = 1..depth /\ stack \in Seq(Frames)
  BY LenProperties DEF Typed, depth
<1>2. stack[depth] \in Frames
  BY <1>1, ElementOfSeq DEF depth
<1>3. PICK f : f = [[stack[depth] EXCEPT !.file = g] EXCEPT !.step = step]
  OBVIOUS
<1>4. /\ f \in Frames /\ f.step = step /\ f.owner = stack[depth].owner /\ f.file = g
      /\ f.op = stack[depth].op
  BY <1>2, <1>3 DEF Frames
<1>5. stack' = [stack EXCEPT ![depth] = f]
  BY <1>1, <1>3
<1>6. /\ stack' \in Seq(Frames) /\ Len(stack') = Len(stack)
      /\ \A i \in 1..Len(stack) : stack'[i] = IF i = Len(stack) THEN f ELSE stack[i]
  BY <1>1, <1>4, <1>5, Moved DEF depth
<1>7. depth' = depth /\ top' = f
  BY <1>1, <1>6 DEF depth, top
<1>8. \A i \in 1..depth - 1 : stack'[i] = stack[i]
  BY <1>1, <1>6 DEF depth
<1>9. top = stack[depth]
  BY DEF top
<1> QED BY <1>1, <1>4, <1>6, <1>7, <1>8, <1>9

-----------------------------------------------------------------------------
\* What a step that goes on within a call may change of the logging.
LEMMA Within ==
  ASSUME Restoring, depth > 0, NEW step \in Steps, GoTo(step) \/ UNCHANGED stack,
         logger' \in Loggers, logger'.on = logger.on, logger'.saved = logger.saved,
         UNCHANGED <<carb, loggers>>, carb \/ UNCHANGED threshold, reportPath' \in Paths
  PROVE  Restoring'
<1>1. Typed' /\ depth' = depth /\ \A i \in 1..depth : stack'[i].owner = stack[i].owner
  <2>1. CASE UNCHANGED stack
    BY <2>1 DEF Restoring, Typed, depth
  <2>2. CASE GoTo(step)
    <3>1. /\ stack' \in Seq(Frames) /\ depth' = depth /\ depth \in Nat
          /\ \A i \in 1..depth - 1 : stack'[i] = stack[i]
          /\ stack'[depth].owner = stack[depth].owner
      BY <2>2, Going DEF Restoring, top
    <3>2. \A i \in 1..depth : i \in 1..depth - 1 \/ i = depth
      BY <3>1
    <3> QED BY <3>1, <3>2 DEF Restoring, Typed
  <2> QED BY <2>1, <2>2
<1>2. Installed'
  BY <1>1 DEF Restoring, Installed
<1>3. PutBack'
  BY <1>1 DEF Restoring, PutBack, Typed
<1> QED BY <1>1, <1>2, <1>3 DEF Restoring

\* Outside of any call, the logger is not there for messages to touch.
LEMMA Outside ==
  ASSUME Restoring, UNCHANGED <<carbVars, logger, stack>>, reportPath' \in Paths
  PROVE  Restoring'
BY DEF Restoring, Typed, Installed, PutBack, LoggingRestored, carbVars, depth

LEMMA RestoringStep == Restoring /\ [Next]_vars => Restoring'
<1> SUFFICES ASSUME Restoring, [Next]_vars PROVE Restoring'
  OBVIOUS
<1> USE DEF carbVars
<1>p. reportPath' \in Paths
  <2>1. reportPath \in Paths /\ NoFile \in Files \cup {NoFile} /\ depth \in Nat /\ depth <= MaxDepth
    BY LenProperties DEF Restoring, Typed, depth
  <2>2. CASE UNCHANGED reportPath
    BY <2>1, <2>2
  <2>3. ASSUME NEW d, NEW f \in Files \cup {NoFile}, reportPath' = [reportPath EXCEPT ![d] = f]
        PROVE  reportPath' \in Paths
    BY <2>1, <2>3 DEF Paths
  <2>4. CASE NewContext
    BY <2>3, <2>4 DEF NewContext
  <2>5. ASSUME NEW o \in Ops, ExecuteNested(o) PROVE reportPath' \in Paths
    <3>1. depth \in 1..MaxDepth
      BY <2>1, <2>5 DEF ExecuteNested, At
    <3>2. reportPath[depth] \in Files \cup {NoFile}
      BY <2>1, <3>1 DEF Paths
    <3>3. PICK copied \in BOOLEAN :
            reportPath' = [reportPath EXCEPT ![depth + 1] =
                             IF copied THEN reportPath[depth] ELSE NoFile]
      BY <2>5 DEF ExecuteNested
    <3> QED BY <2>3, <3>2, <3>3
  <2>6. CASE OpenReport
    <3>1. CASE UNCHANGED reportPath
      BY <2>2, <3>1
    <3>2. ASSUME NEW f, f \in Files \cup {NoFile, reportPath[depth]},
                 reportPath' = [reportPath EXCEPT ![depth] = f]
          PROVE  reportPath' \in Paths
      <4>1. depth \in 1..MaxDepth
        BY <2>1, <2>6 DEF OpenReport, At
      <4>2. f \in Files \cup {NoFile}
        BY <2>1, <3>2, <4>1 DEF Paths
      <4> QED BY <2>3, <3>2, <4>2
    <3>3. UNCHANGED reportPath \/ \E f \in Files \cup {NoFile, reportPath[depth]} :
            reportPath' = [reportPath EXCEPT ![depth] = f]
      BY <2>6 DEF OpenReport
    <3> QED BY <3>1, <3>2, <3>3
  <2>7. CASE Return
    BY <2>1, <2>2, <2>3, <2>7 DEF Return
  <2> QED
    BY <2>2, <2>4, <2>5, <2>6, <2>7
    DEF Next, vars, Execute, Logging, Validate, LogRejected, LogBegin, Populate, LogBadArgs, RunEnd, LogThrew, LogEnd,
        DropReport, ResetArgs, LogArgument, RunLog, Signal, Deliver, Unsignal, ForeignMessage, Done
<1>t. /\ logger \in Loggers
      /\ carb \in BOOLEAN /\ depth \in Nat /\ stack \in Seq(Frames)
      /\ reportPath \in Paths /\ depth <= MaxDepth
  BY LenProperties DEF Restoring, Typed, depth
<1>1. CASE NewContext
  BY <1>1, <1>p, Outside DEF NewContext
<1>2. ASSUME NEW o \in Ops, Execute(o) \/ ExecuteNested(o) PROVE Restoring'
  <2>1. PICK reporting \in BOOLEAN, given \in SUBSET Args : Enter(o, reporting, given)
    <3>1. CASE Execute(o)
      BY <3>1 DEF Execute
    <3>2. CASE ExecuteNested(o)
      <4>1. top.reporting \in BOOLEAN
        <5>1. depth \in 1..Len(stack)
          BY <3>2, <1>t DEF ExecuteNested, At, depth
        <5>2. stack[depth] \in Frames
          BY <5>1, <1>t, ElementOfSeq
        <5> QED BY <5>2 DEF Frames, top
      <4>2. PICK copied \in BOOLEAN, given \in SUBSET Args : Enter(o, copied /\ top.reporting, given)
        BY <3>2 DEF ExecuteNested
      <4>3. (copied /\ top.reporting) \in BOOLEAN
        OBVIOUS
      <4> QED BY <4>2, <4>3
    <3> QED BY <1>2, <3>1, <3>2
  <2> DEFINE f == [op |-> o, owner |-> ~logger.on, reporting |-> reporting,
                   given |-> given, file |-> NoFile, step |-> "validate"]
  <2>2. f \in Frames /\ (f.owner <=> ~logger.on)
    <3>1. f.owner = ~logger.on
      OBVIOUS
    <3>2. PICK b \in BOOLEAN : b = ~logger.on
      OBVIOUS
    <3>3. f = [op |-> o, owner |-> b, reporting |-> reporting,
               given |-> given, file |-> NoFile, step |-> "validate"]
      BY <3>2
    <3> HIDE DEF f
    <3>4. f \in Frames
      BY <2>1, <3>3 DEF Frames, Steps
    <3> QED BY <3>1, <3>4
  <2>3. stack' = Append(stack, f)
    BY <2>1 DEF Enter
  <2> HIDE DEF f
  <2>4. /\ stack' \in Seq(Frames) /\ depth' = depth + 1
        /\ \A i \in 1..depth : stack'[i] = stack[i]
        /\ stack'[depth + 1] = f
    BY <1>t, <2>2, <2>3, Pushed DEF depth
  <2>5. /\ logger' \in Loggers /\ logger'.on /\ (carb => logger'.saved = "user")
        /\ UNCHANGED <<carb, threshold>> /\ (UNCHANGED loggers \/ carb)
    <3>1. ~logger.on => depth = 0 /\ threshold = "user"
      BY <1>t DEF Restoring, Installed, PutBack, LoggingRestored
    <3>2. logger.on => depth > 0
      BY DEF Restoring, Installed
    <3>3. CASE logger.on
      BY <2>1, <1>t, <3>2, <3>3 DEF Enter, Restoring, PutBack
    <3>4. CASE ~logger.on
      BY <2>1, <1>t, <3>1, <3>4 DEF Enter, NoLogger, Loggers
    <3> QED BY <3>3, <3>4
  <2>6. depth' > 0 /\ \A i \in 1..depth + 1 : i \in 1..depth \/ i = depth + 1
    BY <1>t, <2>4
  <2>7. Installed'
    <3>1. \A i \in 1..depth : stack[i].owner <=> i = 1
      BY DEF Restoring, Installed
    <3>2. f.owner <=> depth + 1 = 1
      BY <1>t, <2>2 DEF Restoring, Installed
    <3> QED BY <2>4, <2>5, <2>6, <3>1, <3>2 DEF Installed
  <2>8. PutBack'
    BY <1>t, <2>5, <2>6 DEF Restoring, PutBack
  <2>9. depth' <= MaxDepth
    BY <1>2, <1>t, <2>4 DEF Execute, ExecuteNested, MaxDepth
  <2> QED BY <1>p, <1>t, <2>4, <2>5, <2>7, <2>8, <2>9 DEF Restoring, Typed
<1>3. CASE Validate \/ Populate \/ RunEnd \/ ResetArgs
  <2>1. PICK step \in Steps : GoTo(step)
    BY <1>3 DEF Validate, Populate, RunEnd, ResetArgs, Steps
  <2>2. depth > 0 /\ UNCHANGED <<carbVars, logger>>
    BY <1>3 DEF Validate, Populate, RunEnd, ResetArgs, At
  <2> QED BY <1>t, <2>1, <2>2, <1>p, Within
<1>4. CASE LogRejected \/ LogArgument \/ LogBadArgs \/ LogThrew
  BY <1>4, <1>p, Outside DEF LogRejected, LogArgument, LogBadArgs, LogThrew
<1>5. CASE LogBegin \/ LogEnd
  <2>1. (\E step \in Steps : GoTo(step)) \/ UNCHANGED stack
    BY <1>5 DEF LogBegin, LogEnd, Steps
  <2>2. depth > 0 /\ UNCHANGED <<carbVars, logger>>
    BY <1>5 DEF LogBegin, LogEnd, At
  <2> QED BY <1>t, <2>1, <2>2, <1>p, Within, <1>p, Outside
<1>6. ASSUME NEW t \in Threads, RunLog(t) \/ ForeignMessage(t) \/ Deliver(t) PROVE Restoring'
  BY <1>6, <1>p, Outside DEF RunLog, ForeignMessage, Deliver
<1>7. CASE Done \/ UNCHANGED vars
  BY <1>7, <1>p, Outside DEF Done, vars
<1>s. "begin" \in Steps /\ "reset" \in Steps /\ "run" \in Steps
  BY DEF Steps
<1>8. CASE OpenReport
  <2>1. depth > 0 /\ UNCHANGED <<carb, loggers>> /\ depth \in 1..depth
    BY <1>8, <1>t DEF OpenReport, At
  <2>2. CASE ~top.reporting
    <3>1. GoTo("begin") /\ UNCHANGED <<carbVars, logger>> /\ "begin" \in Steps
      BY <1>8, <2>2 DEF OpenReport, Steps
    <3> QED BY <1>t, <2>1, <3>1, <1>p, Within
  <2>3. CASE top.reporting
    <3>0. reportPath[depth] \in Files \cup {NoFile}
      BY <1>t, <2>1 DEF Paths
    <3>1. PICK f \in Files \cup {NoFile}, opened \in BOOLEAN :
            /\ stack' = [stack EXCEPT ![depth].file = IF opened THEN f ELSE NoFile,
                                      ![depth].step = "begin"]
            /\ IF top.owner
               THEN /\ logger' = [logger EXCEPT !.report = opened]
                    /\ threshold' = IF carb THEN "info" ELSE threshold
               ELSE UNCHANGED <<logger, threshold>>
      <4> DEFINE Openable == IF reportPath[depth] = NoFile THEN (Files \ DOMAIN text) \cup {NoFile}
                                                           ELSE {reportPath[depth]}
      <4>1. Openable \subseteq Files \cup {NoFile}
        BY <3>0
      <4>2. \E f \in Openable, opened \in BOOLEAN :
              /\ stack' = [stack EXCEPT ![depth].file = IF opened THEN f ELSE NoFile,
                                        ![depth].step = "begin"]
              /\ IF top.owner
                 THEN /\ logger' = [logger EXCEPT !.report = opened]
                      /\ threshold' = IF carb THEN "info" ELSE threshold
                 ELSE UNCHANGED <<logger, threshold>>
        BY <1>8, <2>3 DEF OpenReport
      <4> HIDE DEF Openable
      <4> QED BY <4>1, <4>2
    <3>3. PICK g \in Files \cup {NoFile} :
            stack' = [stack EXCEPT ![depth].file = g, ![depth].step = "begin"]
      BY <3>1
    <3>4. /\ stack' \in Seq(Frames) /\ depth' = depth
          /\ \A i \in 1..depth - 1 : stack'[i] = stack[i]
          /\ top'.owner = top.owner
      BY <2>1, <3>3, <1>s, Filed DEF Restoring
    <3>5. \A i \in 1..depth : stack'[i].owner = stack[i].owner
      <4>1. \A i \in 1..depth : i \in 1..depth - 1 \/ i = depth
        BY <1>t
      <4> QED BY <3>4, <4>1 DEF top
    <3>6. /\ logger' \in Loggers
          /\ logger'.on = logger.on /\ logger'.saved = logger.saved /\ (carb \/ UNCHANGED threshold)
      BY <1>t, <3>1 DEF Loggers
    <3>7. Installed'
      BY <3>4, <3>5, <3>6 DEF Restoring, Installed
    <3>8. PutBack'
      BY <2>1, <3>4, <3>6 DEF Restoring, PutBack
    <3> QED BY <1>p, <1>t, <2>1, <3>4, <3>6, <3>7, <3>8 DEF Restoring, Typed
  <2>4. top.reporting \in BOOLEAN
    <3>1. stack[depth] \in Frames
      BY <1>t, <2>1, ElementOfSeq DEF depth
    <3> QED BY <3>1 DEF Frames, top
  <2> QED BY <2>2, <2>3, <2>4
<1>9. CASE DropReport
  <2>1. depth > 0 /\ UNCHANGED <<carbVars, logger>> /\ "reset" \in Steps
    BY <1>9 DEF DropReport, At, Steps
  <2>2. PICK g \in Files \cup {NoFile} :
          stack' = [stack EXCEPT ![depth].file = g, ![depth].step = "reset"]
    BY <1>9 DEF DropReport
  <2>3. /\ stack' \in Seq(Frames) /\ depth' = depth
        /\ \A i \in 1..depth - 1 : stack'[i] = stack[i]
        /\ top'.owner = top.owner
    BY <2>1, <2>2, Filed DEF Restoring
  <2>4. \A i \in 1..depth : stack'[i].owner = stack[i].owner
    <3>1. \A i \in 1..depth : i \in 1..depth - 1 \/ i = depth
      BY <1>t
    <3> QED BY <2>3, <3>1 DEF top
  <2>5. Installed'
    BY <2>1, <2>3, <2>4 DEF Restoring, Installed
  <2>6. PutBack'
    BY <2>1, <2>3 DEF Restoring, PutBack
  <2> QED BY <1>p, <1>t, <2>1, <2>3, <2>5, <2>6 DEF Restoring, Typed
<1>10. CASE Return
  <2>1. depth > 0 /\ stack' = SubSeq(stack, 1, depth - 1) /\ UNCHANGED carb
    BY <1>10 DEF Return, At
  <2>2. /\ stack' \in Seq(Frames) /\ depth' = depth - 1
        /\ \A i \in 1..depth - 1 : stack'[i] = stack[i]
    BY <1>t, <2>1, Popped DEF depth
  <2>3. top.owner <=> depth = 1
    BY <1>t, <2>1 DEF Restoring, Installed, top
  <2>4. CASE depth = 1
    <3>1. logger' = NoLogger /\ loggers' = (IF carb THEN {"default"} ELSE loggers)
                             /\ threshold' = IF carb THEN "user" ELSE threshold
      BY <1>10, <2>1, <2>3, <2>4 DEF Return, Restoring, PutBack
    <3>2. loggers' = {"default"} /\ threshold' = "user"
      BY <1>t, <3>1 DEF Restoring, PutBack
    <3>3. depth' = 0 /\ logger'.on = FALSE
          /\ logger' \in Loggers
      BY <2>2, <2>4, <3>1 DEF NoLogger, Loggers
    <3>4. Installed'
      BY <3>3 DEF Installed
    <3>5. PutBack'
      BY <3>1, <3>2, <3>3 DEF PutBack, LoggingRestored
    <3>6. Typed'
      BY <1>p, <1>t, <2>1, <2>2, <3>3 DEF Typed, MaxDepth
    <3> QED BY <3>4, <3>5, <3>6 DEF Restoring
  <2>5. CASE depth > 1
    <3>1. UNCHANGED <<logger, loggers, threshold>>
      BY <1>10, <2>3, <2>5 DEF Return
    <3>2. Installed'
      BY <1>t, <2>2, <2>5, <3>1 DEF Restoring, Installed
    <3>3. PutBack'
      BY <1>t, <2>1, <2>2, <2>5, <3>1 DEF Restoring, PutBack
    <3> QED BY <1>p, <1>t, <2>1, <2>2, <3>1, <3>2, <3>3 DEF Restoring, Typed, MaxDepth
  <2> QED BY <1>t, <2>1, <2>4, <2>5
<1>11. ASSUME NEW t \in Threads, Signal(t) PROVE Restoring'
  <2>1. UNCHANGED <<carbVars, stack>>
    BY <1>11 DEF Signal
  <2>2. depth' = depth
    BY <2>1 DEF depth
  <2>3. CASE depth > 0
    <3>1. /\ logger' \in Loggers
          /\ logger'.on = logger.on /\ logger'.saved = logger.saved
      BY <1>11, <1>t DEF Signal, Loggers
    <3> QED BY <2>1, <2>3, <3>1, <1>p, Within, <1>s
  <2>4. CASE depth = 0
    <3>1. UNCHANGED logger
      BY <1>11, <2>4 DEF Signal, Restoring, Installed
    <3> QED BY <2>1, <3>1, <1>p, Outside
  <2> QED BY <1>t, <2>3, <2>4
<1>12. ASSUME NEW t \in Threads, Unsignal(t) PROVE Restoring'
  <2>1. UNCHANGED carbVars
    BY <1>12 DEF Unsignal
  <2>2. CASE depth > 0
    <3>1. /\ logger' \in Loggers
          /\ logger'.on = logger.on /\ logger'.saved = logger.saved
      BY <1>12, <1>t DEF Unsignal, Loggers
    <3>2. AfterLog[top.step] \in Steps
      <4>1. stack[depth] \in Frames
        BY <1>t, <2>2, ElementOfSeq DEF depth
      <4>2. top.step \in Steps
        BY <4>1 DEF Frames, top
      <4> QED BY <4>2 DEF AfterLog, Steps
    <3>3. GoTo(AfterLog[top.step]) \/ UNCHANGED stack
      BY <1>12 DEF Unsignal
    <3> QED BY <2>1, <2>2, <3>1, <3>2, <3>3, <1>p, Within
  <2>3. CASE depth = 0
    <3>1. UNCHANGED <<logger, stack>>
      BY <1>12, <2>3 DEF Unsignal, Restoring, Installed
    <3> QED BY <2>1, <3>1, <1>p, Outside
  <2> QED BY <1>t, <2>2, <2>3
<1> QED BY <1>1, <1>2, <1>3, <1>4, <1>5, <1>6, <1>7, <1>8, <1>9, <1>10, <1>11, <1>12
        DEF Next, Logging

\* However an execution ends, the logging of the process is what it was: execute has
\* many ways out, and each passes the destructor of the scoped logger.
THEOREM LoggingLeft == Spec => []LoggingRestored
<1>1. Init => Restoring
  BY DEF Init, Loggers, NoLogger, Restoring, Typed, Paths, MaxDepth, Installed, PutBack, LoggingRestored, depth
<1>2. Restoring => LoggingRestored
  BY DEF Restoring, PutBack, LoggingRestored
<1> QED BY <1>1, <1>2, RestoringStep, PTL DEF Spec

-----------------------------------------------------------------------------
(* The logger keeps a plain pointer to the report.  The outermost call drops the *)
(* report when it has logged END and resets its arguments before it returns: no  *)
(* thread may be about to log then.                                              *)

\* Only the outermost call is past the end of its report while the pointer is set.
Covered == depth > 0 /\ logger.report
             => stack[1].file # NoFile \/ stack[1].step \in {"reset", "return"}

\* Calls with another above them are running.
Waiting == \A i \in 1..depth - 1 : stack[i].step = "run"

\* A thread logs only when the call on top of the stack may.
LogSteps == {"rejected", "begin", "populate", "badArgs", "run", "threw", "finish"}
Busy == \A t \in Threads : call[t].at # "idle"
          => depth > 0 /\ top.step \in LogSteps /\ (t # Caller => top.step = "run")

Delivered == \A t \in Threads : call[t].at = "delivered" => call[t].target # "destroyed"

\* A thread in usdOptimizeLog has something to deliver.
Shaped == /\ DOMAIN call = Threads
          /\ \A t \in Threads : call[t].at # "idle"
               => DOMAIN call[t] = {"at", "line", "reporting", "target"}

Covering == Shaped /\ Covered /\ Waiting /\ Busy /\ Delivered

\* Outside of executeImpl the other threads do not log.
LEMMA AllIdle ==
  ASSUME Busy, NEW step, At(step), step # "run"
  PROVE  \A t \in Threads : call[t].at = "idle"
BY DEF Busy, At

\* While nobody logs there is nothing to show about the calls.
LEMMA Silent ==
  ASSUME \A t \in Threads : call[t].at = "idle", Shaped, UNCHANGED call
  PROVE  Shaped' /\ Busy' /\ Delivered'
BY DEF Shaped, Busy, Delivered, Threads

\* A call does not come back from the end of its report.
LEMMA Onward ==
  ASSUME Restoring, Covered, Waiting, depth > 0, NEW step \in Steps, GoTo(step),
         logger'.report = logger.report,
         top.step \in {"reset", "return"} => step \in {"reset", "return"}
  PROVE  Covered' /\ Waiting'
<1>1. /\ depth' = depth /\ depth \in Nat
      /\ \A i \in 1..depth - 1 : stack'[i] = stack[i]
      /\ stack'[depth].step = step /\ stack'[depth].file = stack[depth].file
  <2>1. top' = stack'[depth'] /\ top = stack[depth]
    BY DEF top
  <2> QED BY <2>1, Going DEF Restoring
<1>2. Waiting'
  BY <1>1 DEF Waiting
<1>3. CASE depth = 1
  <2>1. stack'[1].step = step /\ stack'[1].file = stack[1].file /\ top = stack[1]
    BY <1>1, <1>3 DEF top
  <2>2. logger.report => stack[1].file # NoFile \/ step \in {"reset", "return"}
    BY <2>1 DEF Covered
  <2>3. logger'.report => logger.report
    OBVIOUS
  <2> QED BY <1>2, <2>1, <2>2, <2>3 DEF Covered
<1>4. CASE depth # 1
  <2>1. 1 \in 1..depth - 1
    BY <1>1, <1>4
  <2>2. stack'[1] = stack[1]
    BY <1>1, <2>1
  <2>3. logger'.report => logger.report
    OBVIOUS
  <2> QED BY <1>1, <1>2, <2>2, <2>3 DEF Covered
<1> QED BY <1>2, <1>3, <1>4

LEMMA CoveringStep == Restoring /\ Covering /\ [Next]_vars => Covering'
<1> SUFFICES ASSUME Restoring, Covering, [Next]_vars PROVE Covering'
  OBVIOUS
<1> USE DEF carbVars
<1>t. depth \in Nat /\ stack \in Seq(Frames) /\ Caller \in Threads
  BY LenProperties DEF Restoring, Typed, depth, Threads
<1>f. depth > 0 => top \in Frames /\ top.step \in Steps
  <2>1. depth > 0 => depth \in 1..Len(stack)
    BY <1>t DEF depth
  <2>2. depth > 0 => stack[depth] \in Frames
    BY <1>t, <2>1, ElementOfSeq
  <2> QED BY <2>2 DEF Frames, top
<1>s. "begin" \in Steps /\ "reset" \in Steps
  BY DEF Steps
<1>1. CASE UNCHANGED <<stack, logger, call>>
  BY <1>1 DEF Covering, Shaped, Covered, Waiting, Busy, Delivered, depth, top
<1>2. ASSUME NEW o \in Ops, Execute(o) \/ ExecuteNested(o) PROVE Covering'
  <2>1. \A t \in Threads : call[t].at = "idle"
    BY <1>2 DEF Execute, ExecuteNested, Covering, Busy, At, Threads
  <2>2. PICK f : stack' = Append(stack, f) /\ f \in Frames
    <3>1. PICK reporting \in BOOLEAN, given \in SUBSET Args : Enter(o, reporting, given)
      <4>1. CASE Execute(o)
        BY <4>1 DEF Execute
      <4>2. CASE ExecuteNested(o)
        <5>1. top.reporting \in BOOLEAN
          BY <1>f, <4>2 DEF ExecuteNested, At, Frames
        <5>2. PICK copied \in BOOLEAN, given \in SUBSET Args :
                Enter(o, copied /\ top.reporting, given)
          BY <4>2 DEF ExecuteNested
        <5>3. (copied /\ top.reporting) \in BOOLEAN
          OBVIOUS
        <5> QED BY <5>2, <5>3
      <4> QED BY <1>2, <4>1, <4>2
    <3>2. PICK b \in BOOLEAN : b = ~logger.on
      OBVIOUS
    <3>3. stack' = Append(stack, [op |-> o, owner |-> b, reporting |-> reporting,
                                  given |-> given, file |-> NoFile, step |-> "validate"])
      BY <3>1, <3>2 DEF Enter
    <3>4. [op |-> o, owner |-> b, reporting |-> reporting, given |-> given,
           file |-> NoFile, step |-> "validate"] \in Frames
      BY <3>1 DEF Frames, Steps
    <3> QED BY <3>3, <3>4
  <2>3. /\ depth' = depth + 1
        /\ \A i \in 1..depth : stack'[i] = stack[i]
    BY <1>t, <2>2, Pushed DEF depth
  <2>4. UNCHANGED call
    BY <1>2 DEF Execute, ExecuteNested, Enter
  <2>5. Shaped' /\ Busy' /\ Delivered'
    BY <2>1, <2>4, Silent DEF Covering
  <2>6. Waiting'
    <3>1. \A i \in 1..depth : i \in 1..depth - 1 \/ i = depth
      BY <1>t
    <3>2. depth > 0 => stack[depth].step = "run"
      BY <1>2 DEF Execute, ExecuteNested, At, top
    <3> QED BY <1>t, <2>3, <3>1, <3>2 DEF Covering, Waiting
  <2>7. Covered'
    <3>1. PICK s : IF logger.on THEN UNCHANGED logger
                   ELSE logger' = [NoLogger EXCEPT !.on = TRUE, !.saved = s]
      BY <1>2 DEF Execute, ExecuteNested, Enter
    <3>2. CASE ~logger.on
      BY <3>1, <3>2 DEF Covered, NoLogger
    <3>3. CASE logger.on
      <4>1. depth > 0
        BY <3>3 DEF Restoring, Installed
      <4> QED BY <1>t, <2>3, <3>1, <3>3, <4>1 DEF Covering, Covered
    <3> QED BY <3>2, <3>3
  <2> QED BY <2>5, <2>6, <2>7 DEF Covering
<1>3. CASE Validate \/ Populate \/ RunEnd \/ ResetArgs \/ (LogBegin /\ top.file = NoFile)
                    \/ (LogEnd /\ top.file = NoFile)
  <2>1. UNCHANGED <<logger, call>> /\ depth > 0
    BY <1>3 DEF Validate, Populate, RunEnd, ResetArgs, LogBegin, LogEnd, At
  <2>2. \A t \in Threads : call[t].at = "idle"
    <3>1. CASE RunEnd
      BY <3>1 DEF RunEnd, At, Threads
    <3>2. \E step \in {"validate", "populate", "reset", "begin", "finish"} : At(step) \/ RunEnd
      BY <1>3 DEF Validate, Populate, ResetArgs, LogBegin, LogEnd
    <3> QED BY <3>1, <3>2, AllIdle DEF Covering
  <2>3. PICK step \in Steps :
          GoTo(step) /\ (top.step \in {"reset", "return"} => step \in {"reset", "return"})
    BY <1>3 DEF Validate, Populate, RunEnd, ResetArgs, LogBegin, LogEnd, At, Steps
  <2>4. Covered' /\ Waiting'
    BY <2>1, <2>3, Onward DEF Covering
  <2> QED BY <2>1, <2>2, <2>4, Silent DEF Covering
<1>4. ASSUME NEW t \in Threads, NEW line, BeginLog(t, line), UNCHANGED <<stack, logger>>,
             depth > 0, top.step \in LogSteps, t # Caller => top.step = "run"
      PROVE  Covering'
  <2>1. /\ DOMAIN call' = Threads
        /\ \A u \in Threads : call'[u] = IF u = t THEN [at |-> "begun", line |-> line,
                                                       reporting |-> FALSE, target |-> "none"]
                                         ELSE call[u]
    BY <1>4 DEF BeginLog, Covering, Shaped
  <2>2. Covered' /\ Waiting' /\ depth' = depth /\ top' = top
    BY <1>4 DEF Covering, Covered, Waiting, depth, top
  <2>3. Shaped'
    BY <2>1 DEF Covering, Shaped
  <2>4. Busy'
    BY <1>4, <2>1, <2>2 DEF Covering, Busy
  <2>5. Delivered'
    BY <2>1 DEF Covering, Delivered
  <2> QED BY <2>2, <2>3, <2>4, <2>5 DEF Covering
<1>5. CASE LogRejected \/ LogArgument \/ LogBadArgs \/ LogThrew \/ (LogBegin /\ top.file # NoFile)
                       \/ (LogEnd /\ top.file # NoFile)
  <2>1. \E line : BeginLog(Caller, line)
    BY <1>5 DEF LogRejected, LogArgument, LogBadArgs, LogThrew, LogBegin, LogEnd
  <2>2. UNCHANGED <<stack, logger>> /\ depth > 0 /\ top.step \in LogSteps
    BY <1>5 DEF LogRejected, LogArgument, LogBadArgs, LogThrew, LogBegin, LogEnd, At, LogSteps
  <2> QED BY <1>t, <1>4, <2>1, <2>2
<1>6. ASSUME NEW t \in Threads, RunLog(t) PROVE Covering'
  <2>1. /\ BeginLog(t, Line("MSG", top.op)) /\ UNCHANGED <<stack, logger>>
        /\ depth > 0 /\ top.step = "run"
    BY <1>6 DEF RunLog
  <2>2. "run" \in LogSteps
    BY DEF LogSteps
  <2> QED BY <1>4, <2>1, <2>2
<1>7. ASSUME NEW t \in Threads, Signal(t) PROVE Covering'
  <2>1. UNCHANGED stack /\ logger'.report = logger.report /\ depth' = depth /\ top' = top
    BY <1>7 DEF Signal, Restoring, Typed, depth, top
  <2>2. /\ DOMAIN call' = Threads /\ call[t].at = "begun"
        /\ \A u \in Threads \ {t} : call'[u] = call[u]
        /\ call'[t] = [[call[t] EXCEPT !.at = "signalled"] EXCEPT !.reporting = logger.report]
    BY <1>7 DEF Signal, Covering, Shaped
  <2>3. DOMAIN call'[t] = DOMAIN call[t] /\ call'[t].at = "signalled"
    BY <2>2 DEF Covering, Shaped
  <2>4. Shaped' /\ Delivered'
    <3>1. \A u \in Threads : call'[u].at # "idle"
                          => DOMAIN call'[u] = {"at", "line", "reporting", "target"}
      BY <2>2, <2>3 DEF Covering, Shaped
    <3>2. Shaped'
      BY <2>2, <3>1 DEF Shaped
    <3>3. \A u \in Threads : call'[u].at = "delivered" => u # t
      BY <2>3
    <3>4. Delivered'
      BY <2>2, <3>3 DEF Covering, Delivered
    <3> QED BY <3>2, <3>4
  <2>5. Busy'
    BY <2>1, <2>2, <2>3 DEF Covering, Busy
  <2>6. Covered' /\ Waiting'
    BY <2>1 DEF Covering, Covered, Waiting
  <2> QED BY <2>4, <2>5, <2>6 DEF Covering
<1>8. ASSUME NEW t \in Threads, Deliver(t) PROVE Covering'
  <2>1. UNCHANGED <<stack, logger>> /\ depth' = depth /\ top' = top
    BY <1>8 DEF Deliver, depth, top
  <2>2. HandleMessage # "destroyed"
    <3>1. call[t].at # "idle"
      BY <1>8 DEF Deliver
    <3>2. depth > 0 /\ top.step \in LogSteps
      BY <3>1 DEF Covering, Busy
    <3>3. stack[1].step \notin {"reset", "return"}
      <4>1. CASE depth = 1
        BY <3>2, <4>1 DEF top, LogSteps
      <4>2. CASE depth > 1
        BY <1>t, <4>2 DEF Covering, Waiting
      <4> QED BY <1>t, <3>2, <4>1, <4>2
    <3> QED BY <3>2, <3>3 DEF Covering, Covered, HandleMessage
  <2>3. PICK target : /\ target # "destroyed"
                      /\ call' = [call EXCEPT ![t].at = "delivered", ![t].target = target]
    BY <1>8, <2>2 DEF Deliver
  <2>4. /\ DOMAIN call' = Threads /\ call[t].at = "signalled"
        /\ \A u \in Threads \ {t} : call'[u] = call[u]
        /\ call'[t] = [[call[t] EXCEPT !.at = "delivered"] EXCEPT !.target = target]
    BY <1>8, <2>3 DEF Deliver, Covering, Shaped
  <2>5. DOMAIN call'[t] = DOMAIN call[t] /\ call'[t].at = "delivered" /\ call'[t].target = target
    BY <2>4 DEF Covering, Shaped
  <2>6. Shaped' /\ Delivered'
    BY <2>3, <2>4, <2>5 DEF Covering, Shaped, Delivered
  <2>7. Busy'
    BY <2>1, <2>4, <2>5 DEF Covering, Busy
  <2>8. Covered' /\ Waiting'
    BY <2>1 DEF Covering, Covered, Waiting
  <2> QED BY <2>6, <2>7, <2>8 DEF Covering
<1>9. ASSUME NEW t \in Threads, Unsignal(t) PROVE Covering'
  <2>1. /\ DOMAIN call' = Threads /\ call'[t].at = "idle" /\ call[t].at = "delivered"
        /\ \A u \in Threads \ {t} : call'[u] = call[u]
    BY <1>9 DEF Unsignal, Covering, Shaped, Idle
  <2>2. Shaped' /\ Delivered'
    BY <2>1 DEF Covering, Shaped, Delivered
  <2>3. depth > 0 /\ top.step \in LogSteps /\ (t # Caller => top.step = "run")
    BY <2>1 DEF Covering, Busy
  <2>4. logger'.report = logger.report
    BY <1>9 DEF Unsignal, Restoring, Typed
  <2>5. CASE t # Caller
    <3>1. UNCHANGED stack /\ depth' = depth /\ top' = top
      BY <1>9, <2>5 DEF Unsignal, depth, top
    <3>2. Covered' /\ Waiting'
      BY <2>4, <3>1 DEF Covering, Covered, Waiting
    <3>3. Busy'
      BY <2>1, <3>1 DEF Covering, Busy
    <3> QED BY <2>2, <3>2, <3>3 DEF Covering
  <2>6. CASE t = Caller
    <3>1. GoTo(AfterLog[top.step])
      BY <1>9, <2>3, <2>6 DEF Unsignal
    <3>2. AfterLog[top.step] \in Steps /\ (top.step = "run" => AfterLog[top.step] = "run")
      BY <1>f, <2>3 DEF AfterLog, Steps
    <3>3. top.step \notin {"reset", "return"}
      BY <2>3 DEF LogSteps
    <3>4. Covered' /\ Waiting'
      BY <2>3, <2>4, <3>1, <3>2, <3>3, Onward DEF Covering
    <3>5. depth' = depth /\ top'.step = AfterLog[top.step]
      BY <2>3, <3>1, <3>2, Going DEF Restoring
    <3>6. Busy'
      <4> SUFFICES ASSUME NEW u \in Threads, call'[u].at # "idle"
                   PROVE  (depth > 0 /\ top.step \in LogSteps /\ (u # Caller => top.step = "run"))'
        BY DEF Busy
      <4>1. u # t /\ call[u].at # "idle"
        BY <2>1
      <4>2. top.step = "run"
        BY <2>6, <4>1 DEF Covering, Busy
      <4> QED BY <2>3, <3>2, <3>5, <4>2 DEF LogSteps
    <3> QED BY <2>2, <3>4, <3>6 DEF Covering
  <2> QED BY <2>5, <2>6
<1>10. CASE OpenReport
  <2>1. depth > 0 /\ UNCHANGED call /\ depth \in 1..depth /\ At("report")
    BY <1>10, <1>t DEF OpenReport, At
  <2>2. Shaped' /\ Busy' /\ Delivered'
    BY <2>1, AllIdle, Silent DEF Covering
  <2>3. CASE ~top.reporting
    <3>1. GoTo("begin") /\ UNCHANGED logger /\ top.step = "report"
      BY <1>10, <2>1, <2>3 DEF OpenReport, At
    <3>2. Covered' /\ Waiting'
      BY <1>s, <2>1, <3>1, Onward DEF Covering
    <3> QED BY <2>2, <3>2 DEF Covering
  <2>4. CASE top.reporting
    <3>1. reportPath[depth] \in Files \cup {NoFile}
      BY <2>1 DEF Restoring, Typed, Paths
    <3>2. PICK f \in Files \cup {NoFile}, opened \in BOOLEAN :
            /\ opened => f # NoFile
            /\ stack' = [stack EXCEPT ![depth].file = IF opened THEN f ELSE NoFile,
                                      ![depth].step = "begin"]
            /\ IF top.owner THEN logger' = [logger EXCEPT !.report = opened]
                            ELSE UNCHANGED logger
      BY <1>10, <2>4, <3>1 DEF OpenReport
    <3>3. PICK g \in Files \cup {NoFile} :
            /\ g = IF opened THEN f ELSE NoFile
            /\ stack' = [stack EXCEPT ![depth].file = g, ![depth].step = "begin"]
      BY <3>2
    <3>4. /\ depth' = depth /\ top'.file = g
          /\ \A i \in 1..depth - 1 : stack'[i] = stack[i]
      BY <1>s, <2>1, <3>3, Filed DEF Restoring
    <3>5. top.owner <=> depth = 1
      BY <2>1 DEF Restoring, Installed, top
    <3>6. Waiting'
      BY <3>4 DEF Covering, Waiting
    <3>7. CASE depth = 1
      <4>1. logger'.report = opened
        BY <3>2, <3>5, <3>7 DEF Restoring, Typed, Loggers
      <4>2. stack'[1].file = g
        BY <3>4, <3>7 DEF top
      <4>3. Covered'
        BY <3>2, <3>3, <4>1, <4>2 DEF Covered
      <4> QED BY <2>2, <3>6, <4>3 DEF Covering
    <3>8. CASE depth # 1
      <4>0. 1 \in 1..depth - 1
        BY <1>t, <2>1, <3>8
      <4>1. UNCHANGED logger /\ stack'[1] = stack[1]
        BY <3>2, <3>4, <3>5, <3>8, <4>0
      <4>2. Covered'
        BY <3>4, <4>1 DEF Covering, Covered
      <4> QED BY <2>2, <3>6, <4>2 DEF Covering
    <3> QED BY <3>7, <3>8
  <2>5. top.reporting \in BOOLEAN
    BY <1>f, <2>1 DEF Frames
  <2> QED BY <2>3, <2>4, <2>5
<1>11. CASE DropReport
  <2>1. depth > 0 /\ UNCHANGED <<call, logger>> /\ At("drop")
    BY <1>11 DEF DropReport, At
  <2>2. Shaped' /\ Busy' /\ Delivered'
    BY <2>1, AllIdle, Silent DEF Covering
  <2>3. PICK g \in Files \cup {NoFile} :
          stack' = [stack EXCEPT ![depth].file = g, ![depth].step = "reset"]
    BY <1>11 DEF DropReport
  <2>4. /\ depth' = depth /\ top'.step = "reset"
        /\ \A i \in 1..depth - 1 : stack'[i] = stack[i]
    BY <1>s, <2>1, <2>3, Filed DEF Restoring
  <2>5. Waiting'
    BY <2>4 DEF Covering, Waiting
  <2>6. Covered'
    <3>1. CASE depth = 1
      BY <2>4, <3>1 DEF Covered, top
    <3>2. CASE depth # 1
      <4>1. stack'[1] = stack[1]
        BY <1>t, <2>1, <2>4, <3>2
      <4> QED BY <2>1, <2>4, <4>1 DEF Covering, Covered
    <3> QED BY <3>1, <3>2
  <2> QED BY <2>2, <2>5, <2>6 DEF Covering
<1>12. CASE Return
  <2>1. depth > 0 /\ UNCHANGED call /\ At("return") /\ stack' = SubSeq(stack, 1, depth - 1)
    BY <1>12 DEF Return, At
  <2>2. Shaped' /\ Busy' /\ Delivered'
    BY <2>1, AllIdle, Silent DEF Covering
  <2>3. depth' = depth - 1 /\ \A i \in 1..depth - 1 : stack'[i] = stack[i]
    BY <1>t, <2>1, Popped DEF depth
  <2>4. Waiting'
    BY <1>t, <2>3 DEF Covering, Waiting
  <2>5. Covered'
    <3>1. CASE depth = 1
      BY <2>3, <3>1 DEF Covered
    <3>2. CASE depth > 1
      <4>1. ~top.owner
        BY <1>t, <2>1, <3>2 DEF Restoring, Installed, top
      <4>2. UNCHANGED logger
        BY <1>12, <4>1 DEF Return
      <4> QED BY <1>t, <2>3, <3>2, <4>2 DEF Covering, Covered
    <3> QED BY <1>t, <2>1, <3>1, <3>2
  <2> QED BY <2>2, <2>4, <2>5 DEF Covering
<1> QED
  BY <1>1, <1>2, <1>3, <1>5, <1>6, <1>7, <1>8, <1>9, <1>10, <1>11, <1>12
  DEF Next, Logging, NewContext, ForeignMessage, Done, vars

\* No message is delivered to a report that is gone, whatever threads log when, and
\* although the logger keeps its pointer when the report is dropped.
THEOREM ReportAlive == Spec => []NeverToDestroyedReport
<1>1. Init => Restoring
  BY DEF Init, Loggers, NoLogger, Restoring, Typed, Paths, MaxDepth, Installed, PutBack, LoggingRestored, depth
<1>2. Init => Covering
  BY DEF Init, NoLogger, Idle, Covering, Shaped, Covered, Waiting, Busy, Delivered, depth
<1>3. Covering => NeverToDestroyedReport
  BY DEF Covering, Delivered, NeverToDestroyedReport
<1> QED BY <1>1, <1>2, <1>3, RestoringStep, CoveringStep, PTL DEF Spec

-----------------------------------------------------------------------------
(* Reading a report line by line: the operators of the model, over any lines. *)

Readings == [open : Seq(Ops), sound : BOOLEAN]
Blank == [open |-> <<>>, sound |-> TRUE]

LEMMA ReadLineType ==
  ASSUME NEW reading \in Readings, NEW line \in Lines
  PROVE  ReadLine(reading, line) \in Readings
<1>1. reading.open # <<>> => Front(reading.open) \in Seq(Ops)
  BY FrontShape DEF Readings
<1>2. Append(reading.open, line.op) \in Seq(Ops)
  BY DEF Readings, Lines
<1> QED BY <1>1, <1>2 DEF ReadLine, Readings, Lines, Kinds

\* Reading goes through the prefixes of the report.
LEMMA ReadPrefixes ==
  ASSUME NEW lines \in Seq(Lines)
  PROVE  \E g \in [0..Len(lines) -> Readings] :
           /\ g[0] = Blank
           /\ \A k \in 1..Len(lines) : g[k] = ReadLine(g[k-1], lines[k])
           /\ Read(lines) = g[Len(lines)]
<1> DEFINE N == Len(lines)
           F == [p \in Readings \X (1..N) |-> ReadLine(p[1], lines[p[2]])]
           Goes(f) == f = [S \in SUBSET (1..N) |->
                             IF S = {} THEN Blank
                             ELSE ReadLine(f[S \ {Max(S)}], lines[Max(S)])]
           iter == CHOOSE f : Goes(f)
<1>1. N \in Nat /\ DOMAIN lines = 1..N /\ \A k \in 1..N : lines[k] \in Lines
  BY LenProperties, ElementOfSeq
<1>2. Blank \in Readings
  BY DEF Blank, Readings
<1>3. F \in [Readings \X (1..N) -> Readings]
  BY <1>1, ReadLineType
<1>4. PICK f : Folding(f, Readings, Blank, N, F)
  <2>1. N \in Nat
    BY <1>1
  <2> HIDE DEF F, N
  <2> QED BY <2>1, <1>2, <1>3, FoldRecursion
<1>5. Goes(f)
  <2>1. ASSUME NEW S \in SUBSET (1..N), S # {} PROVE Max(S) \in 1..N /\ S \ {Max(S)} \in SUBSET (1..N)
    BY <1>1, <2>1, MaxInRange
  <2>2. ASSUME NEW S \in SUBSET (1..N)
        PROVE  f[S] = IF S = {} THEN Blank ELSE ReadLine(f[S \ {Max(S)}], lines[Max(S)])
    BY <1>4, <2>1, <2>2 DEF Folding
  <2> QED BY <1>4, <2>2 DEF Folding
<1>6. Goes(iter)
  <2> HIDE DEF Goes
  <2> QED BY <1>5
<1>7. Read(lines) = iter[1..N]
  BY <1>1 DEF Read, FoldLeft, MapThenFoldSet, Blank
<1> DEFINE g == [k \in 0..N |-> iter[1..k]]
<1>8. \A k \in 0..N : 1..k \in SUBSET (1..N)
  BY <1>1
<1>9. \A S \in SUBSET (1..N) :
        iter[S] = IF S = {} THEN Blank ELSE ReadLine(iter[S \ {Max(S)}], lines[Max(S)])
  <2> HIDE DEF iter
  <2> QED BY <1>6
<1> HIDE DEF iter, Goes
<1>10. g[0] = Blank
  <2>1. 1..0 = {} /\ 0 \in 0..N
    BY <1>1
  <2> QED BY <1>8, <1>9, <2>1
<1>11. ASSUME NEW k \in 1..N PROVE g[k] = ReadLine(g[k-1], lines[k])
  <2>1. k \in Nat \ {0} /\ k \in 0..N /\ k - 1 \in 0..N
    BY <1>1
  <2>2. Max(1..k) = k /\ (1..k) \ {k} = 1..k-1 /\ 1..k # {}
    BY <2>1, MaxOfRange
  <2> QED BY <1>8, <1>9, <2>1, <2>2
<1>12. Read(lines) = g[N]
  BY <1>1, <1>7
<1> DEFINE T == {k \in 0..N : g[k] \in Readings}
<1>13. 0..N \subseteq T
  <2>1. 0 \in T
    BY <1>1, <1>2, <1>10
  <2>2. ASSUME NEW k \in 0..N-1, k \in T PROVE k + 1 \in T
    <3>1. k + 1 \in 1..N /\ k + 1 \in 0..N /\ (k + 1) - 1 = k
      BY <1>1
    <3>2. lines[k + 1] \in Lines /\ g[k + 1] = ReadLine(g[k], lines[k + 1]) /\ g[k] \in Readings
      BY <1>1, <1>11, <2>2, <3>1
    <3> HIDE DEF g
    <3> QED BY <3>1, <3>2, ReadLineType
  <2> HIDE DEF T
  <2> QED BY <1>1, <2>1, <2>2, InductTo
<1>14. g \in [0..N -> Readings]
  BY <1>13
<1> HIDE DEF g
<1> QED BY <1>10, <1>11, <1>12, <1>14

LEMMA ReadType ==
  ASSUME NEW lines \in Seq(Lines)
  PROVE  Read(lines) \in Readings
<1>1. Len(lines) \in 0..Len(lines)
  BY LenProperties
<1> QED BY <1>1, ReadPrefixes

LEMMA ReadNothing == Read(<<>>) = Blank
<1>1. <<>> \in Seq(Lines) /\ Len(<<>>) = 0
  BY EmptySeq
<1>2. PICK g \in [0..Len(<<>>) -> Readings] :
        /\ g[0] = Blank
        /\ \A k \in 1..Len(<<>>) : g[k] = ReadLine(g[k-1], <<>>[k])
        /\ Read(<<>>) = g[Len(<<>>)]
  BY <1>1, ReadPrefixes
<1> QED BY <1>1, <1>2

\* A line that is added to a report is read last.
LEMMA ReadAppend ==
  ASSUME NEW lines \in Seq(Lines), NEW line \in Lines
  PROVE  /\ Append(lines, line) \in Seq(Lines)
         /\ Read(Append(lines, line)) = ReadLine(Read(lines), line)
<1> DEFINE N == Len(lines)
           more == Append(lines, line)
<1>1. /\ N \in Nat /\ more \in Seq(Lines) /\ Len(more) = N + 1
      /\ \A k \in 1..N : more[k] = lines[k]
      /\ more[N + 1] = line
  BY LenProperties, AppendProperties
<1> HIDE DEF more, N
<1>2. PICK g \in [0..N -> Readings] :
        /\ g[0] = Blank
        /\ \A k \in 1..N : g[k] = ReadLine(g[k-1], lines[k])
        /\ Read(lines) = g[N]
  BY ReadPrefixes DEF N
<1>3. PICK h \in [0..N + 1 -> Readings] :
        /\ h[0] = Blank
        /\ \A k \in 1..N + 1 : h[k] = ReadLine(h[k-1], more[k])
        /\ Read(more) = h[N + 1]
  BY <1>1, ReadPrefixes
<1> DEFINE T == {k \in 0..N : g[k] = h[k]}
<1>4. 0..N \subseteq T
  <2>1. 0 \in T
    BY <1>1, <1>2, <1>3
  <2>2. ASSUME NEW k \in 0..N-1, k \in T PROVE k + 1 \in T
    <3>1. k + 1 \in 1..N /\ k + 1 \in 1..N+1 /\ k + 1 \in 0..N /\ (k + 1) - 1 = k
      BY <1>1
    <3>2. g[k + 1] = ReadLine(g[k], lines[k + 1]) /\ h[k + 1] = ReadLine(h[k], more[k + 1])
      BY <1>2, <1>3, <3>1
    <3>3. g[k] = h[k] /\ lines[k + 1] = more[k + 1]
      BY <1>1, <2>2, <3>1
    <3> QED BY <3>1, <3>2, <3>3
  <2> HIDE DEF T
  <2> QED BY <1>1, <2>1, <2>2, InductTo
<1>5. g[N] = h[N]
  BY <1>1, <1>4
<1>6. h[N + 1] = ReadLine(h[N], line)
  <2>1. N + 1 \in 1..N+1 /\ (N + 1) - 1 = N
    BY <1>1
  <2> QED BY <1>1, <1>3, <2>1
<1> QED BY <1>1, <1>2, <1>3, <1>5, <1>6 DEF more

-----------------------------------------------------------------------------
(* What is in the reports.  Without the threads of parallel loops the flag of *)
(* the logger says whether the message that is handled is the operation's.     *)

\* BEGIN of a call is in the report and END is not, when the last message has been
\* delivered or not.
Marked(frame, delivered) ==
  /\ frame.file # NoFile
  /\ \/ frame.step \in {"populate", "badArgs", "run", "threw"}
     \/ frame.step = "begin" /\ delivered
     \/ frame.step = "finish" /\ ~delivered

HasDelivered == call[Caller].at = "delivered"

OpenCalls == IF depth = 0 \/ ~Marked(stack[1], HasDelivered) THEN <<>>
             ELSE IF depth > 1 /\ Marked(top, HasDelivered) THEN <<stack[1].op, top.op>>
             ELSE <<stack[1].op>>

InReport(f) == depth > 0 /\ stack[1].file = f

\* A reader of a report has open what is executed, ...
ReadsAs == \A f \in DOMAIN text :
             /\ text[f] \in Seq(Lines)
             /\ Read(text[f]).open = IF InReport(f) THEN OpenCalls ELSE <<>>
             /\ Read(text[f]).sound

\* ... because the logger has the report of the outermost call until that is dropped, ...
Pointed == depth > 0 /\ stack[1].step \notin {"reset", "return"}
             => (logger.report <=> stack[1].file # NoFile)

\* ... the flag is up exactly while a message is handled, ...
Flagged == logger.fromOperation <=> call[Caller].at \in {"signalled", "delivered"}

\* ... and the message is the one of the step that the call on top is at.
Kind == IF top.step = "begin" THEN "BEGIN" ELSE IF top.step = "finish" THEN "END" ELSE "MSG"
Said == call[Caller].at # "idle" =>
          /\ call[Caller].line = Line(Kind, top.op)
          /\ top.step \in {"begin", "finish"} => top.file # NoFile
          /\ call[Caller].at # "begun" => call[Caller].reporting = logger.report
          /\ call[Caller].at = "delivered"
               => call[Caller].target = IF logger.report THEN "report" ELSE "console"

\* Only a call that has opened its report has one.
Opened == /\ depth > 0 /\ stack[1].file # NoFile => stack[1].file \in DOMAIN text
          /\ depth > 0 /\ top.step \in {"validate", "rejected", "report"} => top.file = NoFile

Nesting == ReadsAs /\ Pointed /\ Flagged /\ Said /\ Opened

-----------------------------------------------------------------------------
\* What is known of the calls before a step.
LEMMA Known ==
  ASSUME Restoring, Covering
  PROVE  /\ depth \in 0..2 /\ stack \in Seq(Frames) /\ depth = Len(stack)
         /\ depth > 0 => /\ top \in Frames /\ stack[1] \in Frames
                         /\ top = IF depth = 1 THEN stack[1] ELSE stack[2]
                         /\ logger.on
         /\ depth > 1 => stack[1].step = "run"
         /\ depth = 0 => call[Caller].at = "idle" /\ ~logger.on
         /\ logger \in Loggers
         /\ Caller \in Threads
<1>1. depth \in 0..2 /\ stack \in Seq(Frames) /\ depth = Len(stack) /\ Caller \in Threads
  <2>1. stack \in Seq(Frames) /\ depth <= 2 /\ depth = Len(stack) /\ Caller \in Threads
    BY DEF Restoring, Typed, depth, MaxDepth, Threads
  <2>2. depth \in Nat
    BY <2>1, LenProperties
  <2> QED BY <2>1, <2>2
<1>2. \A i \in 1..depth : stack[i] \in Frames
  BY <1>1, ElementOfSeq
<1>3. depth > 0 => /\ stack[1] \in Frames /\ top \in Frames
                   /\ top = IF depth = 1 THEN stack[1] ELSE stack[2]
  <2> SUFFICES ASSUME depth > 0
               PROVE  /\ stack[1] \in Frames /\ top \in Frames
                      /\ top = IF depth = 1 THEN stack[1] ELSE stack[2]
    OBVIOUS
  <2>1. 1 \in 1..depth /\ depth \in 1..depth /\ (depth = 1 \/ depth = 2)
    BY <1>1
  <2> QED BY <1>2, <2>1 DEF top
<1>4. depth > 1 => stack[1].step = "run"
  BY <1>1 DEF Covering, Waiting
<1>5. depth = 0 => call[Caller].at = "idle"
  BY <1>1 DEF Covering, Busy
<1> QED BY <1>1, <1>3, <1>4, <1>5 DEF Restoring, Installed, Typed

\* A step within a call that leaves the markers of the call as they are.
LEMMA SameOpen ==
  ASSUME Restoring, Covering, depth > 0, depth' = depth,
         \A i \in 1..depth - 1 : stack'[i] = stack[i],
         top'.op = top.op,
         Marked(top, HasDelivered)' <=> Marked(top, HasDelivered)
  PROVE  OpenCalls' = OpenCalls
<1>1. CASE depth = 1
  <2>1. top' = stack'[1] /\ top = stack[1]
    BY <1>1 DEF top
  <2>2. Marked(stack[1], HasDelivered)' <=> Marked(stack[1], HasDelivered)
    BY <2>1
  <2>3. OpenCalls = IF ~Marked(stack[1], HasDelivered) THEN <<>> ELSE <<stack[1].op>>
    BY <1>1 DEF OpenCalls
  <2>4. OpenCalls' = IF ~Marked(stack[1], HasDelivered)' THEN <<>> ELSE <<stack'[1].op>>
    BY <1>1 DEF OpenCalls
  <2> QED BY <2>1, <2>2, <2>3, <2>4
<1>2. CASE depth = 2
  <2>1. stack'[1] = stack[1] /\ stack[1].step = "run"
    BY <1>2, Known
  <2>2. Marked(stack[1], HasDelivered)' <=> Marked(stack[1], HasDelivered)
    BY <2>1 DEF Marked
  <2> QED BY <1>2, <2>1, <2>2 DEF OpenCalls
<1> QED BY <1>1, <1>2, Known

\* Reports that are read as before.
LEMMA SameText ==
  ASSUME ReadsAs, UNCHANGED text, OpenCalls' = OpenCalls,
         \A f : InReport(f)' <=> InReport(f)
  PROVE  ReadsAs'
BY DEF ReadsAs


\* A call that goes on while nothing is logged, without passing a marker unless it has
\* no report.
LEMMA Passing ==
  ASSUME Restoring, Covering, Nesting, depth > 0, call[Caller].at = "idle",
         NEW step \in Steps, GoTo(step), UNCHANGED <<logger, call, text>>,
         top.file = NoFile \/ (top.step \in {"populate", "badArgs", "run", "threw", "finish"}
                                 <=> step \in {"populate", "badArgs", "run", "threw", "finish"}),
         step \in {"validate", "rejected", "report"} => top.step = "validate",
         top.step \in {"reset", "return"} => step \in {"reset", "return"}
  PROVE  Nesting'
<1>1. /\ depth' = depth /\ depth \in {1, 2}
      /\ \A i \in 1..depth - 1 : stack'[i] = stack[i]
      /\ top'.step = step /\ top'.file = top.file /\ top'.op = top.op
  BY Going, Known DEF Restoring
<1>2. OpenCalls' = OpenCalls
  <2>1. ~HasDelivered /\ ~HasDelivered'
    BY DEF HasDelivered
  <2>2. Marked(top, HasDelivered)' <=> Marked(top, HasDelivered)
    BY <1>1, <2>1 DEF Marked
  <2> QED BY <1>1, <2>2, SameOpen
<1>3. /\ stack'[1].file = stack[1].file
      /\ stack[1].step \in {"reset", "return"} => stack'[1].step \in {"reset", "return"}
  <2>1. CASE depth = 1
    <3>1. top' = stack'[1] /\ top = stack[1]
      BY <1>1, <2>1 DEF top
    <3> QED BY <1>1, <3>1
  <2>2. CASE depth = 2
    BY <1>1, <2>2
  <2> QED BY <1>1, <2>1, <2>2
<1>4. ReadsAs'
  <2>1. \A f : InReport(f)' <=> InReport(f)
    BY <1>1, <1>3 DEF InReport
  <2> QED BY <1>2, <2>1, SameText DEF Nesting
<1>5. Pointed' /\ Flagged' /\ Said'
  BY <1>1, <1>3 DEF Nesting, Pointed, Flagged, Said
<1>6. Opened'
  BY <1>1, <1>3 DEF Nesting, Opened
<1> QED BY <1>4, <1>5, <1>6 DEF Nesting

\* usdOptimizeLog is entered with the message of the step.
LEMMA Saying ==
  ASSUME Restoring, Covering, Nesting, depth > 0, call[Caller].at = "idle",
         UNCHANGED <<stack, logger, text>>, BeginLog(Caller, Line(Kind, top.op)),
         top.step \in {"begin", "finish"} => top.file # NoFile
  PROVE  Nesting'
<1>1. call'[Caller] = [at |-> "begun", line |-> Line(Kind, top.op), reporting |-> FALSE,
                       target |-> "none"]
  BY Known DEF BeginLog, Covering, Shaped
<1>2. depth' = depth /\ top' = top /\ ~HasDelivered /\ ~HasDelivered'
  BY <1>1 DEF depth, top, HasDelivered
<1>3. ReadsAs'
  <2>1. OpenCalls' = OpenCalls
    BY <1>2 DEF OpenCalls, Marked
  <2>2. \A f : InReport(f)' <=> InReport(f)
    BY <1>2 DEF InReport
  <2> QED BY <2>1, <2>2, SameText DEF Nesting
<1>4. Pointed' /\ Flagged' /\ Opened'
  BY <1>1, <1>2 DEF Nesting, Pointed, Flagged, Opened
<1>5. Said'
  BY <1>1, <1>2 DEF Said, Kind
<1> QED BY <1>3, <1>4, <1>5 DEF Nesting

\* How the tuples of operations that are open grow and shrink.
LEMMA Tuples ==
  ASSUME NEW a \in Ops, NEW b \in Ops
  PROVE  /\ Append(<<>>, a) = <<a>> /\ Append(<<a>>, b) = <<a, b>>
         /\ Last(<<a>>) = a /\ Front(<<a>>) = <<>>
         /\ Last(<<a, b>>) = b /\ Front(<<a, b>>) = <<a>>
         /\ <<a>> # <<>> /\ <<a, b>> # <<>>
<1>1. /\ <<>> \in Seq(Ops) /\ Len(<<>>) = 0
      /\ <<a>> \in Seq(Ops) /\ Len(<<a>>) = 1 /\ <<a>>[1] = a
      /\ <<a, b>> \in Seq(Ops) /\ Len(<<a, b>>) = 2 /\ <<a, b>>[1] = a /\ <<a, b>>[2] = b
  BY EmptySeq
<1>2. Append(<<>>, a) = <<a>>
  <2>1. /\ Append(<<>>, a) \in Seq(Ops) /\ Len(Append(<<>>, a)) = 1
        /\ Append(<<>>, a)[1] = a
    BY <1>1, AppendProperties
  <2> QED BY <1>1, <2>1, SeqEqual
<1>3. Append(<<a>>, b) = <<a, b>>
  <2>1. /\ Append(<<a>>, b) \in Seq(Ops) /\ Len(Append(<<a>>, b)) = 2
        /\ Append(<<a>>, b)[1] = a /\ Append(<<a>>, b)[2] = b
    BY <1>1, AppendProperties
  <2>2. \A i \in 1..2 : Append(<<a>>, b)[i] = <<a, b>>[i]
    BY <1>1, <2>1
  <2> QED BY <1>1, <2>1, <2>2, SeqEqual
<1>4. Last(<<a>>) = a /\ Last(<<a, b>>) = b /\ <<a>> # <<>> /\ <<a, b>> # <<>>
  BY DEF Last
<1>5. Front(<<a>>) = <<>>
  <2>1. PICK s : s = <<a>>
    OBVIOUS
  <2>2. s \in Seq(Ops) /\ s # <<>> /\ Len(s) = 1
    BY <1>1, <1>4, <2>1
  <2>3. Front(s) \in Seq(Ops) /\ Len(Front(s)) = 0
    BY <2>2, FrontShape
  <2>4. Front(s) = <<>>
    BY <2>3, EmptySeq
  <2> QED BY <2>1, <2>4
<1>6. Front(<<a, b>>) = <<a>>
  <2>1. PICK s : s = <<a, b>>
    OBVIOUS
  <2>2. s \in Seq(Ops) /\ s # <<>> /\ Len(s) = 2 /\ s[1] = a
    BY <1>1, <1>4, <2>1
  <2>3. Front(s) \in Seq(Ops) /\ Len(Front(s)) = 1 /\ Front(s)[1] = a
    <3>1. /\ Front(s) \in Seq(Ops) /\ Len(Front(s)) = Len(s) - 1
          /\ \A i \in 1..Len(s) - 1 : Front(s)[i] = s[i]
      BY <2>2, FrontShape
    <3> QED BY <2>2, <3>1
  <2>4. Front(s) = <<a>>
    BY <1>1, <2>3, SeqEqual
  <2> QED BY <2>1, <2>4
<1> QED BY <1>2, <1>3, <1>4, <1>5, <1>6

\* The message that is delivered to the report is read as the next one should be.
LEMMA NextLine ==
  ASSUME Restoring, Covering, Nesting, depth > 0, UNCHANGED stack, logger.report,
         call[Caller].at = "signalled", call'[Caller].at = "delivered",
         NEW reading \in Readings, reading.open = OpenCalls, reading.sound
  PROVE  LET next == ReadLine(reading, call[Caller].line)
         IN next.open = OpenCalls' /\ next.sound
<1> DEFINE line == call[Caller].line
<1>1. /\ depth \in {1, 2} /\ depth' = depth /\ top' = top /\ top \in Frames /\ stack[1] \in Frames
      /\ top = (IF depth = 1 THEN stack[1] ELSE stack[2])
      /\ depth > 1 => stack[1].step = "run"
  BY Known DEF depth, top
<1>2. ~HasDelivered /\ HasDelivered'
  BY DEF HasDelivered
<1>3. top.step \in LogSteps
  BY Known DEF Covering, Busy
<1>4. stack[1].file # NoFile
  <2>1. stack[1].step \notin {"reset", "return"}
    BY <1>1, <1>3 DEF LogSteps
  <2> QED BY <2>1 DEF Nesting, Pointed
<1>5. /\ line.kind = Kind /\ line.op = top.op /\ top.op \in Ops /\ stack[1].op \in Ops
      /\ top.step \in {"begin", "finish"} => top.file # NoFile
  BY <1>1 DEF Nesting, Said, Line, Frames
<1>6. DOMAIN reading = {"open", "sound"}
  BY DEF Readings
<1>7. CASE top.step = "begin"
  <2>1. line.kind = "BEGIN"
    BY <1>5, <1>7 DEF Kind
  <2>2. OpenCalls' = Append(OpenCalls, top.op)
    <3>1. CASE depth = 1
      <4>1. OpenCalls = <<>> /\ OpenCalls' = <<top.op>>
        BY <1>1, <1>2, <1>5, <1>7, <3>1 DEF OpenCalls, Marked
      <4> QED BY <1>5, <4>1, Tuples
    <3>2. CASE depth = 2
      <4>1. OpenCalls = <<stack[1].op>> /\ OpenCalls' = <<stack[1].op, top.op>>
        BY <1>1, <1>2, <1>4, <1>5, <1>7, <3>2 DEF OpenCalls, Marked
      <4> QED BY <1>5, <4>1, Tuples
    <3> QED BY <1>1, <3>1, <3>2
  <2>3. ReadLine(reading, line) = [reading EXCEPT !.open = Append(@, line.op)]
    BY <2>1 DEF ReadLine
  <2> QED BY <1>5, <1>6, <2>2, <2>3
<1>8. CASE top.step = "finish"
  <2>1. line.kind = "END"
    BY <1>5, <1>8 DEF Kind
  <2>2. OpenCalls # <<>> /\ Last(OpenCalls) = top.op /\ OpenCalls' = Front(OpenCalls)
    <3>1. CASE depth = 1
      <4>1. OpenCalls' = <<>> /\ OpenCalls = <<top.op>>
        BY <1>1, <1>2, <1>5, <1>8, <3>1 DEF OpenCalls, Marked
      <4> QED BY <1>5, <4>1, Tuples
    <3>2. CASE depth = 2
      <4>1. OpenCalls' = <<stack[1].op>> /\ OpenCalls = <<stack[1].op, top.op>>
        BY <1>1, <1>2, <1>4, <1>5, <1>8, <3>2 DEF OpenCalls, Marked
      <4> QED BY <1>5, <4>1, Tuples
    <3> QED BY <1>1, <3>1, <3>2
  <2>3. ReadLine(reading, line) = [reading EXCEPT !.open = Front(@)]
    BY <1>5, <1>6, <2>1, <2>2 DEF ReadLine
  <2> QED BY <1>5, <1>6, <2>2, <2>3
<1>9. CASE top.step \in {"rejected", "populate", "badArgs", "run", "threw"}
  <2>1. line.kind = "MSG"
    BY <1>5, <1>9 DEF Kind
  <2>2. OpenCalls # <<>>
    <3>1. CASE depth = 1
      <4>1. top.step # "rejected"
        BY <1>1, <1>4, <3>1 DEF Nesting, Opened
      <4>2. OpenCalls = <<stack[1].op>>
        BY <1>1, <1>4, <1>9, <3>1, <4>1 DEF OpenCalls, Marked
      <4> QED BY <1>5, <4>2, Tuples
    <3>2. CASE depth = 2
      <4>1. Marked(stack[1], HasDelivered)
        BY <1>1, <1>4, <3>2 DEF Marked
      <4>2. OpenCalls = <<stack[1].op>> \/ OpenCalls = <<stack[1].op, top.op>>
        BY <3>2, <4>1 DEF OpenCalls
      <4> QED BY <1>5, <4>2, Tuples
    <3> QED BY <1>1, <3>1, <3>2
  <2>3. ReadLine(reading, line) = reading
    BY <1>6, <2>1, <2>2 DEF ReadLine
  <2>4. OpenCalls' = OpenCalls
    BY <1>1, <1>2, <1>9, SameOpen DEF Marked
  <2> QED BY <2>3, <2>4
<1> QED BY <1>3, <1>7, <1>8, <1>9 DEF LogSteps

\* With no report of the outermost call, or none that a call is open in, nothing is open.
LEMMA ReadsNothing ==
  ASSUME ReadsAs, depth = 0 \/ OpenCalls = <<>>
  PROVE  \A f \in DOMAIN text : /\ text[f] \in Seq(Lines)
                                /\ Read(text[f]).open = <<>> /\ Read(text[f]).sound
BY DEF ReadsAs, InReport

LEMMA NestingStep ==
  ASSUME Workers = {}, Restoring, Covering, Nesting, [Next]_vars
  PROVE  Nesting'
<1>k. /\ depth \in {0, 1, 2} /\ stack \in Seq(Frames) /\ depth = Len(stack)
      /\ depth > 0 => /\ top \in Frames /\ stack[1] \in Frames
                      /\ top = IF depth = 1 THEN stack[1] ELSE stack[2]
                      /\ logger.on
      /\ depth > 1 => stack[1].step = "run"
      /\ depth = 0 => call[Caller].at = "idle" /\ ~logger.on
      /\ logger \in Loggers
      /\ Threads = {Caller}
  BY Known DEF Threads
<1>s. /\ {"run", "finish", "threw", "badArgs", "report", "rejected", "return", "begin",
          "populate", "reset", "drop"} \subseteq Steps
  BY DEF Steps
<1>1. CASE UNCHANGED <<stack, logger, call, text>>
  BY <1>1 DEF Nesting, ReadsAs, InReport, OpenCalls, Marked, HasDelivered, Pointed, Flagged, Said, Kind,
              Opened, depth, top
<1>2. ASSUME NEW o \in Ops, Execute(o) \/ ExecuteNested(o) PROVE Nesting'
  <2>1. PICK f : stack' = Append(stack, f) /\ f \in Frames /\ f.file = NoFile /\ f.step = "validate"
    <3>1. PICK reporting \in BOOLEAN, given \in SUBSET Args : Enter(o, reporting, given)
      <4>1. CASE Execute(o)
        BY <4>1 DEF Execute
      <4>2. CASE ExecuteNested(o)
        <5>1. top.reporting \in BOOLEAN
          BY <1>k, <4>2 DEF ExecuteNested, At, Frames
        <5>2. PICK copied \in BOOLEAN, given \in SUBSET Args :
                Enter(o, copied /\ top.reporting, given)
          BY <4>2 DEF ExecuteNested
        <5>3. (copied /\ top.reporting) \in BOOLEAN
          OBVIOUS
        <5> QED BY <5>2, <5>3
      <4> QED BY <1>2, <4>1, <4>2
    <3>2. PICK b \in BOOLEAN : b = ~logger.on
      OBVIOUS
    <3>3. stack' = Append(stack, [op |-> o, owner |-> b, reporting |-> reporting,
                                  given |-> given, file |-> NoFile, step |-> "validate"])
      BY <3>1, <3>2 DEF Enter
    <3>4. [op |-> o, owner |-> b, reporting |-> reporting, given |-> given,
           file |-> NoFile, step |-> "validate"] \in Frames
      BY <3>1 DEF Frames, Steps
    <3> QED BY <3>3, <3>4
  <2>2. /\ depth' = depth + 1 /\ top' = f
        /\ \A i \in 1..depth : stack'[i] = stack[i]
    BY <1>k, <2>1, Pushed DEF depth, top
  <2>3. UNCHANGED <<call, text>> /\ call[Caller].at = "idle"
    BY <1>2, <1>k DEF Execute, ExecuteNested, Enter, At
  <2>4. PICK s : IF logger.on THEN UNCHANGED logger
                 ELSE logger' = [NoLogger EXCEPT !.on = TRUE, !.saved = s]
    BY <1>2 DEF Execute, ExecuteNested, Enter
  <2>5. CASE depth = 0
    <3>1. /\ stack'[1] = f /\ OpenCalls' = <<>> /\ depth' = 1
      BY <2>1, <2>2, <2>5 DEF OpenCalls, Marked, top
    <3>2. logger' = [on |-> TRUE, report |-> FALSE, fromOperation |-> FALSE, saved |-> s]
      BY <1>k, <2>4, <2>5 DEF NoLogger
    <3>3. ReadsAs'
      BY <2>3, <2>5, <3>1, ReadsNothing DEF Nesting, ReadsAs
    <3>4. Pointed' /\ Flagged' /\ Said' /\ Opened'
      BY <2>1, <2>2, <2>3, <3>1, <3>2 DEF Pointed, Flagged, Said, Opened
    <3> QED BY <3>3, <3>4 DEF Nesting
  <2>6. CASE depth = 1
    <3>1. /\ stack'[1] = stack[1] /\ UNCHANGED logger /\ depth' = 2 /\ top = stack[1]
          /\ HasDelivered' = HasDelivered
      BY <1>k, <2>2, <2>3, <2>4, <2>6 DEF HasDelivered
    <3>2. Marked(stack[1], HasDelivered)' <=> Marked(stack[1], HasDelivered)
      BY <3>1 DEF Marked
    <3>3. ~Marked(top, HasDelivered)'
      BY <2>1, <2>2 DEF Marked
    <3>4. OpenCalls' = OpenCalls
      BY <2>6, <3>1, <3>2, <3>3 DEF OpenCalls
    <3>5. ReadsAs'
      <4>1. \A g : InReport(g)' <=> InReport(g)
        BY <2>6, <3>1 DEF InReport
      <4> QED BY <2>3, <3>4, <4>1, SameText DEF Nesting
    <3>6. Pointed' /\ Flagged' /\ Said' /\ Opened'
      BY <2>1, <2>2, <2>3, <2>6, <3>1 DEF Nesting, Pointed, Flagged, Said, Opened
    <3> QED BY <3>5, <3>6 DEF Nesting
  <2>7. depth # 2
    BY <1>2 DEF Execute, ExecuteNested, MaxDepth
  <2> QED BY <1>k, <2>5, <2>6, <2>7
<1>3. CASE Validate
  <2>1. depth > 0 /\ call[Caller].at = "idle" /\ UNCHANGED <<logger, call, text>> /\ top.step = "validate"
    BY <1>3 DEF Validate, At
  <2>2. PICK step \in {"report", "rejected", "return"} : GoTo(step)
    BY <1>3 DEF Validate
  <2> QED BY <1>s, <2>1, <2>2, Passing
<1>4. CASE Populate
  <2>1. depth > 0 /\ call[Caller].at = "idle" /\ UNCHANGED <<logger, call, text>> /\ top.step = "populate"
    BY <1>4 DEF Populate, At
  <2>2. PICK step \in {"run", "badArgs"} : GoTo(step)
    BY <1>4 DEF Populate
  <2> QED BY <1>s, <2>1, <2>2, Passing
<1>5. CASE RunEnd
  <2>1. depth > 0 /\ call[Caller].at = "idle" /\ UNCHANGED <<logger, call, text>> /\ top.step = "run"
    BY <1>5 DEF RunEnd, At
  <2>2. PICK step \in {"finish", "threw"} : GoTo(step)
    BY <1>5 DEF RunEnd
  <2> QED BY <1>s, <2>1, <2>2, Passing
<1>6. CASE ResetArgs
  <2>1. depth > 0 /\ call[Caller].at = "idle" /\ UNCHANGED <<logger, call, text>> /\ top.step = "reset"
    BY <1>6 DEF ResetArgs, At
  <2>2. GoTo("return")
    BY <1>6 DEF ResetArgs
  <2> QED BY <1>s, <2>1, <2>2, Passing
<1>7. CASE (LogBegin \/ LogEnd) /\ top.file = NoFile
  <2>1. depth > 0 /\ call[Caller].at = "idle" /\ UNCHANGED <<logger, call, text>>
        /\ top.step \in {"begin", "finish"}
    BY <1>7 DEF LogBegin, LogEnd, At
  <2>2. PICK step \in {"populate", "reset"} : GoTo(step)
    BY <1>7 DEF LogBegin, LogEnd
  <2> QED BY <1>s, <1>7, <2>1, <2>2, Passing
<1>8. CASE LogRejected \/ LogArgument \/ LogBadArgs \/ LogThrew \/ ((LogBegin \/ LogEnd) /\ top.file # NoFile)
            \/ \E t \in Threads : RunLog(t)
  <2>1. /\ depth > 0 /\ call[Caller].at = "idle" /\ UNCHANGED <<stack, logger, text>>
        /\ BeginLog(Caller, Line(Kind, top.op))
        /\ top.step \in {"begin", "finish"} => top.file # NoFile
    BY <1>8, <1>k DEF LogRejected, LogArgument, LogBadArgs, LogThrew, LogBegin, LogEnd, RunLog, At, Kind
  <2> QED BY <2>1, Saying
<1>9. ASSUME NEW t \in Threads, Signal(t) PROVE Nesting'
  <2>1. t = Caller /\ depth > 0
    BY <1>9, <1>k DEF Signal
  <2>2. /\ UNCHANGED <<stack, text>> /\ call[Caller].at = "begun"
        /\ logger' = [on |-> TRUE, report |-> logger.report, fromOperation |-> TRUE,
                      saved |-> logger.saved]
        /\ depth' = depth /\ top' = top
    BY <1>9, <1>k, <2>1 DEF Signal, depth, top, Loggers
  <2>3. call'[Caller] = [[call[Caller] EXCEPT !.at = "signalled"] EXCEPT !.reporting = logger.report]
    BY <1>9, <1>k, <2>1 DEF Signal, Covering, Shaped
  <2>4. DOMAIN call[Caller] = {"at", "line", "reporting", "target"}
    BY <1>k, <2>2 DEF Covering, Shaped
  <2>5. /\ call'[Caller].at = "signalled" /\ call'[Caller].reporting = logger.report
        /\ call'[Caller].line = call[Caller].line
    BY <2>3, <2>4
  <2>6. ReadsAs'
    <3>1. OpenCalls' = OpenCalls
      BY <2>2, <2>5 DEF OpenCalls, Marked, HasDelivered
    <3>2. \A f : InReport(f)' <=> InReport(f)
      BY <2>2 DEF InReport
    <3> QED BY <2>2, <3>1, <3>2, SameText DEF Nesting
  <2>7. Said'
    BY <2>1, <2>2, <2>5 DEF Nesting, Said, Kind
  <2>8. Pointed' /\ Flagged' /\ Opened'
    BY <2>2, <2>5 DEF Nesting, Pointed, Flagged, Opened
  <2> QED BY <2>6, <2>7, <2>8 DEF Nesting
<1>10. ASSUME NEW t \in Threads, Deliver(t) PROVE Nesting'
  <2>1. t = Caller /\ depth > 0 /\ call[Caller].at = "signalled" /\ UNCHANGED <<stack, logger>>
    BY <1>10, <1>k DEF Deliver
  <2>2. depth' = depth /\ top' = top /\ top.step \in LogSteps /\ logger.fromOperation
        /\ call[Caller].reporting = logger.report
    BY <1>k, <2>1 DEF Covering, Busy, Nesting, Flagged, Said, depth, top
  <2>3. stack[1].step \notin {"reset", "return"}
    BY <1>k, <2>1, <2>2 DEF LogSteps
  <2>4. logger.report <=> stack[1].file # NoFile
    BY <2>1, <2>3 DEF Nesting, Pointed
  <2>5. PICK target :
          /\ call' = [call EXCEPT ![Caller].at = "delivered", ![Caller].target = target]
          /\ target = IF logger.report THEN "report" ELSE "console"
          /\ text' = IF target = "report"
                     THEN [text EXCEPT ![stack[1].file] = Append(@, call[Caller].line)]
                     ELSE text
    BY <1>10, <1>k, <2>1, <2>2, <2>4 DEF Deliver, HandleMessage
  <2>6. call'[Caller] = [[call[Caller] EXCEPT !.at = "delivered"] EXCEPT !.target = target]
        /\ DOMAIN call[Caller] = {"at", "line", "reporting", "target"}
    BY <1>k, <2>1, <2>5 DEF Covering, Shaped
  <2>7. /\ call'[Caller].at = "delivered" /\ call'[Caller].target = target
        /\ call'[Caller].line = call[Caller].line
        /\ call'[Caller].reporting = call[Caller].reporting
    BY <2>6
  <2>8. Said'
    BY <2>1, <2>2, <2>5, <2>7 DEF Nesting, Said, Kind
  <2>9. DOMAIN text' = DOMAIN text
    BY <2>5
  <2>10. Pointed' /\ Flagged' /\ Opened'
    BY <2>1, <2>2, <2>7, <2>9 DEF Nesting, Pointed, Flagged, Opened
  <2>11. CASE logger.report
    <3>1. stack[1].file \in DOMAIN text /\ InReport(stack[1].file)
      BY <2>1, <2>4, <2>11 DEF Nesting, Opened, InReport
    <3>2. PICK f : f = stack[1].file
      OBVIOUS
    <3>3. text'[f] = Append(text[f], call[Caller].line)
          /\ \A g \in DOMAIN text \ {f} : text'[g] = text[g]
      BY <2>5, <2>11, <3>1, <3>2
    <3>4. text[f] \in Seq(Lines) /\ Read(text[f]).open = OpenCalls /\ Read(text[f]).sound
      BY <3>1, <3>2 DEF Nesting, ReadsAs
    <3>5. call[Caller].line \in Lines
      <4>1. call[Caller].line = Line(Kind, top.op) /\ top.op \in Ops
        BY <1>k, <2>1 DEF Nesting, Said, Frames
      <4>2. Kind \in Kinds
        BY DEF Kind, Kinds
      <4> QED BY <4>1, <4>2 DEF Line, Lines
    <3>6. Read(text'[f]).open = OpenCalls' /\ Read(text'[f]).sound /\ text'[f] \in Seq(Lines)
      <4>1. /\ Append(text[f], call[Caller].line) \in Seq(Lines)
            /\ Read(Append(text[f], call[Caller].line)) = ReadLine(Read(text[f]), call[Caller].line)
        BY <3>4, <3>5, ReadAppend
      <4>2. Read(text[f]) \in Readings
        BY <3>4, ReadType
      <4>3. LET next == ReadLine(Read(text[f]), call[Caller].line)
            IN next.open = OpenCalls' /\ next.sound
        BY <2>1, <2>7, <2>11, <3>4, <4>2, NextLine
      <4> QED BY <3>3, <4>1, <4>3
    <3>7. \A g : InReport(g)' <=> g = f
      BY <2>1, <2>2, <3>2 DEF InReport
    <3>8. \A g \in DOMAIN text \ {f} :
            text[g] \in Seq(Lines) /\ Read(text[g]).open = <<>> /\ Read(text[g]).sound
      BY <3>2 DEF Nesting, ReadsAs, InReport
    <3>9. ReadsAs'
      BY <2>9, <3>3, <3>6, <3>7, <3>8 DEF ReadsAs
    <3> QED BY <2>8, <2>10, <3>9 DEF Nesting
  <2>12. CASE ~logger.report
    <3>1. OpenCalls = <<>> /\ OpenCalls' = <<>> /\ UNCHANGED text
      BY <2>1, <2>4, <2>5, <2>12 DEF OpenCalls, Marked
    <3>2. \A f : InReport(f)' <=> InReport(f)
      BY <2>1, <2>2 DEF InReport
    <3>3. ReadsAs'
      BY <3>1, <3>2, SameText DEF Nesting
    <3> QED BY <2>8, <2>10, <3>3 DEF Nesting
  <2> QED BY <2>11, <2>12
<1>11. ASSUME NEW t \in Threads, Unsignal(t) PROVE Nesting'
  <2>1. t = Caller /\ depth > 0 /\ call[Caller].at = "delivered" /\ UNCHANGED text
    BY <1>11, <1>k DEF Unsignal
  <2>2. /\ GoTo(AfterLog[top.step]) /\ top.step \in LogSteps
        /\ call'[Caller] = Idle
        /\ logger' = [on |-> TRUE, report |-> logger.report, fromOperation |-> FALSE,
                      saved |-> logger.saved]
    BY <1>11, <1>k, <2>1 DEF Unsignal, Covering, Busy, Shaped, Loggers
  <2>3. AfterLog[top.step] = CASE top.step = "rejected" -> "return"
                               [] top.step = "begin"    -> "populate"
                               [] top.step = "badArgs"  -> "finish"
                               [] top.step = "threw"    -> "finish"
                               [] top.step = "finish"   -> "drop"
                               [] top.step = "run"      -> "run"
                               [] top.step = "populate" -> "populate"
    BY <2>2 DEF AfterLog, LogSteps, Steps
  <2>4. AfterLog[top.step] \in Steps
    BY <2>2, <2>3 DEF LogSteps, Steps
  <2>5. /\ depth' = depth
        /\ \A i \in 1..depth - 1 : stack'[i] = stack[i]
        /\ top'.step = AfterLog[top.step] /\ top'.file = top.file /\ top'.op = top.op
    BY <2>1, <2>2, <2>4, Going DEF Restoring
  <2>6. ~HasDelivered' /\ HasDelivered /\ call'[Caller].at = "idle"
    BY <2>1, <2>2 DEF HasDelivered, Idle
  <2>7. OpenCalls' = OpenCalls
    <3>1. Marked(top, HasDelivered)' <=> Marked(top, HasDelivered)
      BY <2>2, <2>3, <2>5, <2>6 DEF Marked, LogSteps
    <3> QED BY <2>1, <2>5, <3>1, SameOpen
  <2>8. /\ stack'[1].file = stack[1].file
        /\ stack[1].step \notin {"reset", "return"}
    <3>1. CASE depth = 1
      <4>1. top' = stack'[1] /\ top = stack[1]
        BY <2>5, <3>1 DEF top
      <4> QED BY <2>2, <2>5, <4>1 DEF LogSteps
    <3>2. CASE depth = 2
      BY <1>k, <2>5, <3>2
    <3> QED BY <1>k, <2>1, <3>1, <3>2
  <2>9. ReadsAs'
    <3>1. \A f : InReport(f)' <=> InReport(f)
      BY <2>1, <2>5, <2>8 DEF InReport
    <3> QED BY <2>1, <2>7, <3>1, SameText DEF Nesting
  <2>10. Pointed' /\ Flagged' /\ Said'
    BY <2>1, <2>2, <2>5, <2>6, <2>8 DEF Nesting, Pointed, Flagged, Said
  <2>11. Opened'
    <3>1. top'.step \notin {"validate", "rejected", "report"}
      BY <2>2, <2>3, <2>5 DEF LogSteps
    <3> QED BY <2>1, <2>5, <2>8, <3>1 DEF Nesting, Opened
  <2> QED BY <2>9, <2>10, <2>11 DEF Nesting
<1>12. ASSUME NEW t \in Threads, ForeignMessage(t) PROVE Nesting'
  <2>1. t = Caller /\ call[Caller].at = "idle" /\ UNCHANGED <<stack, logger, call>>
    BY <1>12, <1>k DEF ForeignMessage
  <2>2. HandleMessage = "console"
    BY <2>1 DEF Nesting, Flagged, HandleMessage
  <2>3. UNCHANGED text
    BY <1>12, <2>2 DEF ForeignMessage
  <2> QED BY <1>1, <2>1, <2>3
<1>13. CASE OpenReport
  <2>1. /\ depth > 0 /\ call[Caller].at = "idle" /\ UNCHANGED call /\ top.step = "report"
        /\ top.reporting \in BOOLEAN
    BY <1>13, <1>k DEF OpenReport, At, Frames
  <2>2. CASE ~top.reporting
    <3>1. GoTo("begin") /\ UNCHANGED <<logger, text>>
      BY <1>13, <2>2 DEF OpenReport
    <3> QED BY <1>s, <2>1, <3>1, Passing DEF Nesting, Opened
  <2>3. CASE top.reporting
    <3>1. reportPath[depth] \in Files \cup {NoFile}
      BY <1>k, <2>1 DEF Restoring, Typed, Paths, MaxDepth
    <3>2. PICK f \in Files \cup {NoFile}, opened \in BOOLEAN :
            /\ opened => f # NoFile
            /\ stack' = [stack EXCEPT ![depth].file = IF opened THEN f ELSE NoFile,
                                      ![depth].step = "begin"]
            /\ IF opened
               THEN text' = [g \in DOMAIN text \cup {f} |-> IF g \in DOMAIN text THEN text[g] ELSE <<>>]
               ELSE UNCHANGED text
            /\ IF top.owner THEN logger' = [logger EXCEPT !.report = opened]
                            ELSE UNCHANGED logger
      BY <1>13, <2>3, <3>1 DEF OpenReport
    <3>3. PICK h \in Files \cup {NoFile} :
            /\ h = IF opened THEN f ELSE NoFile
            /\ stack' = [stack EXCEPT ![depth].file = h, ![depth].step = "begin"]
      BY <3>2
    <3>4. /\ depth' = depth /\ top'.file = h /\ top'.step = "begin" /\ top'.op = top.op
          /\ \A i \in 1..depth - 1 : stack'[i] = stack[i]
      BY <1>s, <2>1, <3>3, Filed DEF Restoring
    <3>5. /\ DOMAIN text \subseteq DOMAIN text' /\ (h # NoFile => h \in DOMAIN text')
          /\ \A g \in DOMAIN text : text'[g] = text[g]
          /\ \A g \in DOMAIN text' \ DOMAIN text : text'[g] = <<>> /\ g = f /\ opened
      BY <3>2, <3>3
    <3>6. <<>> \in Seq(Lines) /\ Read(<<>>).open = <<>> /\ Read(<<>>).sound
      BY EmptySeq, ReadNothing DEF Blank
    <3>7. OpenCalls' = OpenCalls
      <4>1. Marked(top, HasDelivered)' <=> Marked(top, HasDelivered)
        BY <2>1, <3>4 DEF Marked, HasDelivered
      <4> QED BY <2>1, <3>4, <4>1, SameOpen
    <3>8. top.owner <=> depth = 1
      BY <1>k, <2>1 DEF Restoring, Installed, top
    <3>9. CASE depth = 1
      <4>1. OpenCalls = <<>>
        BY <1>k, <2>1, <3>9 DEF OpenCalls, Marked
      <4>2. ReadsAs'
        <5>1. \A g \in DOMAIN text : /\ text[g] \in Seq(Lines)
                                     /\ Read(text[g]).open = <<>> /\ Read(text[g]).sound
          BY <4>1, ReadsNothing DEF Nesting
        <5> QED BY <3>5, <3>6, <3>7, <4>1, <5>1 DEF ReadsAs
      <4>3. logger' = [logger EXCEPT !.report = opened] /\ stack'[1] = top'
        BY <3>2, <3>4, <3>8, <3>9 DEF top
      <4>4. /\ logger'.report = opened /\ logger'.fromOperation = logger.fromOperation
        BY <1>k, <4>3
      <4>5. Pointed' /\ Flagged' /\ Said' /\ Opened'
        BY <2>1, <3>2, <3>3, <3>4, <3>5, <4>3, <4>4
        DEF Nesting, Pointed, Flagged, Said, Opened
      <4> QED BY <4>2, <4>5 DEF Nesting
    <3>10. CASE depth = 2
      <4>1. UNCHANGED logger /\ stack'[1] = stack[1]
        BY <3>2, <3>4, <3>8, <3>10
      <4>2. \A g : InReport(g)' <=> InReport(g)
        BY <3>4, <4>1 DEF InReport
      <4>3. \A g \in DOMAIN text' \ DOMAIN text : ~InReport(g)
        <5>1. \A g : InReport(g) /\ g # NoFile => g \in DOMAIN text
          BY DEF Nesting, Opened, InReport
        <5>2. \A g \in DOMAIN text' \ DOMAIN text : g # NoFile
          BY <3>2, <3>5
        <5> QED BY <5>1, <5>2
      <4>4. ReadsAs'
        <5>1. ASSUME NEW g \in DOMAIN text'
              PROVE  /\ text'[g] \in Seq(Lines)
                     /\ Read(text'[g]).open = IF InReport(g)' THEN OpenCalls' ELSE <<>>
                     /\ Read(text'[g]).sound
          <6>1. CASE g \in DOMAIN text
            BY <3>5, <3>7, <4>2, <6>1 DEF Nesting, ReadsAs
          <6>2. CASE g \notin DOMAIN text
            BY <3>5, <3>6, <4>2, <4>3, <6>2
          <6> QED BY <6>1, <6>2
        <5> QED BY <5>1 DEF ReadsAs
      <4>5. Pointed' /\ Flagged' /\ Said' /\ Opened'
        BY <2>1, <3>4, <3>5, <4>1 DEF Nesting, Pointed, Flagged, Said, Opened
      <4> QED BY <4>4, <4>5 DEF Nesting
    <3> QED BY <1>k, <2>1, <3>9, <3>10
  <2> QED BY <2>1, <2>2, <2>3
<1>14. CASE DropReport
  <2>1. /\ depth > 0 /\ call[Caller].at = "idle" /\ UNCHANGED <<call, logger, text>>
        /\ top.step = "drop"
    BY <1>14 DEF DropReport, At
  <2>2. PICK h \in Files \cup {NoFile} :
          stack' = [stack EXCEPT ![depth].file = h, ![depth].step = "reset"]
    BY <1>14 DEF DropReport
  <2>3. /\ depth' = depth /\ top'.step = "reset" /\ top'.op = top.op
        /\ \A i \in 1..depth - 1 : stack'[i] = stack[i]
    BY <1>s, <2>1, <2>2, Filed DEF Restoring
  <2>4. OpenCalls' = OpenCalls
    <3>1. Marked(top, HasDelivered)' <=> Marked(top, HasDelivered)
      BY <2>1, <2>3 DEF Marked
    <3> QED BY <2>1, <2>3, <3>1, SameOpen
  <2>5. CASE depth = 1
    <3>1. OpenCalls = <<>> /\ stack'[1] = top'
      BY <1>k, <2>1, <2>3, <2>5 DEF OpenCalls, Marked, top
    <3>2. ReadsAs'
      BY <2>1, <2>4, <3>1, ReadsNothing DEF Nesting, ReadsAs
    <3>3. stack'[1].file = NoFile
      <4>1. stack' = [stack EXCEPT ![depth].file = NoFile, ![depth].step = "reset"]
        BY <1>14 DEF DropReport
      <4>2. top'.file = NoFile
        BY <1>s, <2>1, <4>1, Filed DEF Restoring
      <4> QED BY <3>1, <4>2
    <3>4. Pointed' /\ Flagged' /\ Said' /\ Opened'
      BY <2>1, <2>3, <3>1, <3>3 DEF Nesting, Pointed, Flagged, Said, Opened
    <3> QED BY <3>2, <3>4 DEF Nesting
  <2>6. CASE depth = 2
    <3>1. stack'[1] = stack[1]
      BY <2>3, <2>6
    <3>2. \A g : InReport(g)' <=> InReport(g)
      BY <2>3, <3>1 DEF InReport
    <3>3. ReadsAs'
      BY <2>1, <2>4, <3>2, SameText DEF Nesting
    <3>4. Pointed' /\ Flagged' /\ Said' /\ Opened'
      BY <2>1, <2>3, <3>1 DEF Nesting, Pointed, Flagged, Said, Opened
    <3> QED BY <3>3, <3>4 DEF Nesting
  <2> QED BY <1>k, <2>1, <2>5, <2>6
<1>15. CASE Return
  <2>1. /\ depth > 0 /\ call[Caller].at = "idle" /\ UNCHANGED <<call, text>> /\ top.step = "return"
        /\ stack' = SubSeq(stack, 1, depth - 1)
    BY <1>15 DEF Return, At
  <2>2. depth' = depth - 1 /\ \A i \in 1..depth - 1 : stack'[i] = stack[i]
    BY <1>k, <2>1, Popped DEF depth
  <2>3. top.owner <=> depth = 1
    BY <1>k, <2>1 DEF Restoring, Installed, top
  <2>4. CASE depth = 1
    <3>1. OpenCalls = <<>> /\ depth' = 0 /\ logger' = NoLogger
      BY <1>15, <1>k, <2>1, <2>2, <2>3, <2>4 DEF OpenCalls, Marked, Return
    <3>2. ReadsAs'
      BY <2>1, <3>1, ReadsNothing DEF Nesting, ReadsAs, InReport
    <3>3. logger'.fromOperation = FALSE /\ call'[Caller].at = "idle"
      BY <2>1, <3>1 DEF NoLogger
    <3>4. Pointed' /\ Flagged' /\ Said' /\ Opened'
      BY <3>1, <3>3 DEF Pointed, Flagged, Said, Opened
    <3> QED BY <3>2, <3>4 DEF Nesting
  <2>5. CASE depth = 2
    <3>1. UNCHANGED logger /\ stack'[1] = stack[1] /\ depth' = 1 /\ stack[1].step = "run"
      BY <1>15, <1>k, <2>2, <2>3, <2>5 DEF Return
    <3>2. top' = stack[1]
      BY <3>1 DEF top
    <3>3. OpenCalls' = OpenCalls
      <4>1. Marked(stack[1], HasDelivered)' <=> Marked(stack[1], HasDelivered)
        BY <3>1 DEF Marked
      <4>2. ~Marked(top, HasDelivered)
        BY <2>1 DEF Marked
      <4> QED BY <2>5, <3>1, <4>1, <4>2 DEF OpenCalls
    <3>4. \A g : InReport(g)' <=> InReport(g)
      BY <2>5, <3>1 DEF InReport
    <3>5. ReadsAs'
      BY <2>1, <3>3, <3>4, SameText DEF Nesting
    <3>6. Pointed' /\ Flagged' /\ Said' /\ Opened'
      BY <2>1, <2>5, <3>1, <3>2 DEF Nesting, Pointed, Flagged, Said, Opened
    <3> QED BY <3>5, <3>6 DEF Nesting
  <2> QED BY <1>k, <2>1, <2>4, <2>5
<1> QED
  BY <1>1, <1>2, <1>3, <1>4, <1>5, <1>6, <1>7, <1>8, <1>9, <1>10, <1>11, <1>12, <1>13, <1>14, <1>15
  DEF Next, Logging, NewContext, Done, vars

LEMMA Nested ==
  ASSUME Workers = {}
  PROVE  Spec => [](Restoring /\ Covering /\ Nesting)
<1>1. Init => Restoring
  BY DEF Init, Loggers, NoLogger, Restoring, Typed, Paths, MaxDepth, Installed, PutBack, LoggingRestored, depth
<1>2. Init => Covering
  BY DEF Init, NoLogger, Idle, Covering, Shaped, Covered, Waiting, Busy, Delivered, depth
<1>3. Init => Nesting
  <2> SUFFICES ASSUME Init PROVE Nesting
    OBVIOUS
  <2>1. depth = 0 /\ DOMAIN text = {}
    BY DEF Init, depth
  <2>2. call[Caller].at = "idle" /\ logger.fromOperation = FALSE
    BY DEF Init, Threads, Idle, NoLogger
  <2>3. ReadsAs /\ Pointed /\ Flagged /\ Said /\ Opened
    BY <2>1, <2>2 DEF ReadsAs, Pointed, Flagged, Said, Opened
  <2> QED BY <2>3 DEF Nesting
<1>4. Restoring /\ Covering /\ Nesting /\ [Next]_vars => (Restoring /\ Covering /\ Nesting)'
  BY RestoringStep, CoveringStep, NestingStep
<1> QED BY <1>1, <1>2, <1>3, <1>4, PTL DEF Spec

\* Operations that have no parallel loops leave reports that can be filtered by their
\* markers, nested as the executions were, whatever else is logged through carb meanwhile
\* and however the executions end.
THEOREM ReportsNest ==
  ASSUME Workers = {}
  PROVE  Spec => []ReportNests
<1>1. Nesting => ReportNests
  BY DEF Nesting, ReadsAs, ReportNests, InReport
<1> QED BY <1>1, Nested, PTL

\* Without parallel loops the comment at Operation.cpp:69 is right: what an operation logs
\* goes to the report of the outermost execution, if there is one, and is not printed.
THEOREM ReportGetsAll ==
  ASSUME Workers = {}
  PROVE  Spec => []OnlyToReport
<1>1. Restoring /\ Covering /\ Nesting => OnlyToReport
  <2> SUFFICES ASSUME Restoring, Covering, Nesting, call[Caller].at = "delivered", depth > 0,
                      stack[1].file # NoFile
               PROVE  call[Caller].target = "report"
    BY DEF OnlyToReport, Threads
  <2>1. top.step \in LogSteps
    BY Known DEF Covering, Busy
  <2>2. stack[1].step \notin {"reset", "return"}
    BY <2>1, Known DEF LogSteps
  <2> QED BY <2>2 DEF Nesting, Pointed, Said
<1> QED BY <1>1, Nested, PTL
===============================================================================
