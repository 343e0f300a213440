----------------------------- MODULE MeshPipeline -----------------------------
(***************************************************************************)
(* source/core/src/OmniOperation.cpp: the pipeline in which most mesh      *)
(* operations run.  Any thread of the pool takes the next prim, computes   *)
(* its result and hands it to OutputFilter, of which one invocation runs   *)
(* at a time but on any thread.  The stage is only to be written on the    *)
(* thread that called execute, so the filter queues the results and writes *)
(* the queue when it happens to run there; its destructor writes the rest. *)
(*                                                                         *)
(* tbb::parallel_pipeline is modelled from how it is used: tokens in       *)
(* flight are limited, a result waits while the serial filter is busy and  *)
(* is then taken by any thread, stop() ends the input, and an exception    *)
(* cancels the pipeline, which drops the results that are waiting.         *)
(***************************************************************************)
EXTENDS Naturals, Sequences, FiniteSets, SequencesExt

CONSTANTS Main,        \* the thread that calls executeImpl
          Workers,     \* the other threads of the pool
          PrimCount,   \* primsToProcess.size()
          MaxTokens    \* maxTokensInFlight

ASSUME MainAssumption == Main \notin Workers
ASSUME CountAssumption == PrimCount \in Nat \ {0} /\ MaxTokens \in Nat \ {0}

VARIABLES phase,      \* where executeImpl is
          primIndex,  \* the atomic counter, as the number of prims taken
          stopped,    \* flowControl.stop() was called
          cancelled,  \* processMesh threw
          at,         \* what each thread of the pool does
          item,       \* and with which prim
          waiting,    \* results that wait for the serial filter
          outQueue,   \* m_outQueue
          outcome,    \* per prim, what its ProcessedData asks for
          toDelete,   \* m_deletePrims
          stats,      \* prims counted in totalStats
          edits,      \* history: edits of the stage, as prim, kind and thread
          posted      \* history: the statistics executePost was given

vars == <<phase, primIndex, stopped, cancelled, at, item, waiting, outQueue, outcome,
          toDelete, stats, edits, posted>>
threadVars == <<at, item>>
inputVars  == <<primIndex, stopped, cancelled>>
outputVars == <<toDelete, stats, edits>>

Threads == {Main} \cup Workers
Prims   == 1..PrimCount
NoPrim  == 0

\* What the ProcessedData of a prim asks for: to be written, which may throw, to be
\* deleted, or nothing; processMesh may also return no data, or throw.
Outcomes == {"write", "badWrite", "delete", "keep", "none", "throw"}
Edit(p, kind, t) == [prim |-> p, kind |-> kind, thread |-> t]

Free == \A t \in Threads : at[t] \notin {"output", "writing"}
InFlight == Cardinality({t \in Threads : at[t] # "idle"}) + Cardinality(waiting)
SetThread(t, state, p) == /\ at' = [at EXCEPT ![t] = state]
                          /\ item' = [item EXCEPT ![t] = p]

\* One round of the loop of writeQueued, on thread t. What writeToUsd throws is
\* caught and logged, and the loop goes on (badWrite); nothing else in a round
\* throws, so the catch about the loop is never reached.
WriteFront(t) ==
  LET p == Head(outQueue)
  IN /\ outQueue' = Tail(outQueue)
     /\ stats' = stats \cup {p}
     /\ toDelete' = IF outcome[p] = "delete" THEN Append(toDelete, p) ELSE toDelete
     /\ edits' = IF outcome[p] = "write" THEN Append(edits, Edit(p, "write", t)) ELSE edits

-----------------------------------------------------------------------------
(* Faulty variants of the steps below, as a slip in the code would have them. *)

\* The index is read and incremented in two steps.
M_TakePrimTwice(t) ==
  /\ phase = "running" /\ ~stopped /\ ~cancelled
  /\ at[t] = "idle" /\ InFlight < MaxTokens
  /\ primIndex < PrimCount
  /\ \/ primIndex' = primIndex + 1 \/ UNCHANGED primIndex
  /\ SetThread(t, "processing", primIndex + 1)
  /\ UNCHANGED <<phase, stopped, cancelled, waiting, outQueue, outcome, outputVars, posted>>

\* The queue is written on whatever thread the filter runs.
M_PushWritesAnywhere(t) ==
  /\ at[t] = "output"
  /\ outQueue' = Append(outQueue, item[t])
  /\ SetThread(t, "writing", NoPrim)
  /\ UNCHANGED <<phase, inputVars, waiting, outcome, outputVars, posted>>

\* A result that cannot be handed on at once is dropped.
M_ProcessDropsWhenBusy(t) ==
  /\ at[t] = "processing"
  /\ \E o \in Outcomes :
       /\ outcome' = [outcome EXCEPT ![item[t]] = o]
       /\ waiting' = IF o \in {"none", "throw"} \/ ~Free THEN waiting
                     ELSE waiting \cup {item[t]}
       /\ cancelled' = (cancelled \/ o = "throw")
  /\ SetThread(t, "idle", NoPrim)
  /\ UNCHANGED <<phase, primIndex, stopped, outQueue, outputVars, posted>>

\* The serial filter is kept until another result waits.
M_LeaveOutputKeepsTurn(t) ==
  /\ at[t] = "writing" /\ outQueue = <<>>
  /\ waiting # {}
  /\ SetThread(t, "idle", NoPrim)
  /\ UNCHANGED <<phase, inputVars, waiting, outQueue, outcome, outputVars, posted>>

-----------------------------------------------------------------------------
Init == /\ phase = "running"
        /\ primIndex = 0 /\ stopped = FALSE /\ cancelled = FALSE
        /\ at = [t \in Threads |-> "idle"] /\ item = [t \in Threads |-> NoPrim]
        /\ waiting = {} /\ outQueue = <<>>
        /\ outcome = [p \in Prims |-> "none"]
        /\ toDelete = <<>> /\ stats = {} /\ edits = <<>>
        /\ posted = {}

\* The first filter: primIndex++, and stop() when there is no prim left.
TakePrim(t) ==
  /\ phase = "running" /\ ~stopped /\ ~cancelled
  /\ at[t] = "idle" /\ InFlight < MaxTokens
  /\ IF primIndex < PrimCount
     THEN /\ primIndex' = primIndex + 1
          /\ SetThread(t, "processing", primIndex + 1)
          /\ UNCHANGED stopped
     ELSE stopped' = TRUE /\ UNCHANGED <<primIndex, threadVars>>
  /\ UNCHANGED <<phase, cancelled, waiting, outQueue, outcome, outputVars, posted>>

\* processMesh returns, or throws.
Process(t) ==
  /\ at[t] = "processing"
  /\ \E o \in Outcomes :
       /\ outcome' = [outcome EXCEPT ![item[t]] = o]
       /\ waiting' = IF o \in {"none", "throw"} THEN waiting ELSE waiting \cup {item[t]}
       /\ cancelled' = (cancelled \/ o = "throw")
  /\ SetThread(t, "idle", NoPrim)
  /\ UNCHANGED <<phase, primIndex, stopped, outQueue, outputVars, posted>>

\* A thread takes a result into the serial filter.
EnterOutput(t) ==
  /\ at[t] = "idle" /\ Free /\ ~cancelled
  /\ \E p \in waiting : SetThread(t, "output", p) /\ waiting' = waiting \ {p}
  /\ UNCHANGED <<phase, inputVars, outQueue, outcome, outputVars, posted>>

\* OutputFilter::operator(): queue the data, and write the queue on the main thread.
Push(t) ==
  /\ at[t] = "output"
  /\ outQueue' = Append(outQueue, item[t])
  /\ SetThread(t, IF t = Main THEN "writing" ELSE "idle", NoPrim)
  /\ UNCHANGED <<phase, inputVars, waiting, outcome, outputVars, posted>>

\* writeQueued, called by operator().
WriteQueued(t) ==
  /\ at[t] = "writing" /\ outQueue # <<>>
  /\ WriteFront(t)
  /\ UNCHANGED <<phase, inputVars, threadVars, waiting, outcome, posted>>

LeaveOutput(t) ==
  /\ at[t] = "writing" /\ outQueue = <<>>
  /\ SetThread(t, "idle", NoPrim)
  /\ UNCHANGED <<phase, inputVars, waiting, outQueue, outcome, outputVars, posted>>

-----------------------------------------------------------------------------
\* parallel_pipeline returns when no token is left, or rethrows what processMesh
\* threw; the filters are cleared, or unwound, and with them OutputFilter goes.
PipelineEnds ==
  /\ phase = "running"
  /\ \A t \in Threads : at[t] = "idle"
  /\ cancelled \/ (stopped /\ waiting = {})
  /\ waiting' = {}
  /\ phase' = "flushing"
  /\ UNCHANGED <<inputVars, threadVars, outQueue, outcome, outputVars, posted>>

\* ~OutputFilter(), on the main thread: writeQueued, and then the deletions.
Flush == /\ phase = "flushing" /\ outQueue # <<>>
         /\ WriteFront(Main)
         /\ UNCHANGED <<phase, inputVars, threadVars, waiting, outcome, posted>>

DeletePrims ==
  /\ phase = "flushing" /\ outQueue = <<>>
  /\ edits' = edits \o [i \in 1..Len(toDelete) |-> Edit(toDelete[i], "delete", Main)]
  /\ toDelete' = <<>>
  /\ phase' = IF cancelled THEN "failed" ELSE "post"
  /\ UNCHANGED <<inputVars, threadVars, waiting, outQueue, outcome, stats, posted>>

Post == /\ phase = "post"
        /\ posted' = stats
        /\ phase' = "done"
        /\ UNCHANGED <<inputVars, threadVars, waiting, outQueue, outcome, outputVars>>

Ended == phase \in {"done", "failed"} /\ UNCHANGED vars

Pool(t) == TakePrim(t) \/ Process(t) \/ EnterOutput(t) \/ Push(t)
           \/ WriteQueued(t) \/ LeaveOutput(t)
Finish  == PipelineEnds \/ Flush \/ DeletePrims \/ Post

Next == (\E t \in Threads : Pool(t)) \/ Finish \/ Ended

\* The threads of the pool keep working while there is something to do, and
\* executeImpl goes on when they are done.
Fairness == WF_vars(\E t \in Threads : TakePrim(t) \/ EnterOutput(t))
            /\ (\A t \in Threads : WF_vars(Process(t) \/ Push(t) \/ WriteQueued(t)
                                           \/ LeaveOutput(t)))
            /\ WF_vars(Finish)

Spec == Init /\ [][Next]_vars /\ Fairness

-----------------------------------------------------------------------------
\* The variables hold what their C++ counterparts can hold, with at most MaxTokens
\* prims on their way and one invocation of the serial filter.
TypeOK == /\ phase \in {"running", "flushing", "post", "done", "failed"}
          /\ primIndex \in 0..PrimCount
          /\ stopped \in BOOLEAN /\ cancelled \in BOOLEAN
          /\ at \in [Threads -> {"idle", "processing", "output", "writing"}]
          /\ item \in [Threads -> Prims \cup {NoPrim}]
          /\ \A t \in Threads : item[t] # NoPrim <=> at[t] \in {"processing", "output"}
          /\ waiting \subseteq Prims
          /\ outQueue \in Seq(Prims) /\ toDelete \in Seq(Prims)
          /\ outcome \in [Prims -> Outcomes]
          /\ stats \subseteq Prims /\ posted \subseteq Prims
          /\ edits \in Seq([prim : Prims, kind : {"write", "delete"}, thread : Threads])
          /\ InFlight <= MaxTokens
          /\ Cardinality({t \in Threads : at[t] \in {"output", "writing"}}) <= 1

\* "This ensures we only write to USD on the main thread".
WrittenOnMainThread == \A i \in 1..Len(edits) : edits[i].thread = Main

\* A prim is in one place on its way and is edited at most once, whichever threads
\* took it, queued it and wrote it.
Places(p) == Cardinality({t \in Threads : item[t] = p})
             + (IF p \in waiting THEN 1 ELSE 0)
             + Cardinality({i \in 1..Len(outQueue) : outQueue[i] = p})
             + Cardinality({i \in 1..Len(toDelete) : toDelete[i] = p})
             + Cardinality({i \in 1..Len(edits) : edits[i].prim = p})
ProcessedOnce == \A p \in Prims : Places(p) <= 1

\* When executeImpl succeeds, the stage has every edit the results asked for.
EditsComplete ==
  phase = "done" =>
    \A p \in Prims : \A kind \in {"write", "delete"} :
      outcome[p] = kind <=> \E i \in 1..Len(edits) : edits[i].prim = p /\ edits[i].kind = kind

\* "this _must_ be done before processing stats": executePost sees the statistics of
\* every prim that has a result.
StatsBeforePost == phase = "done" => posted = {p \in Prims : outcome[p] # "none"}

\* Prims are deleted after everything has been written, never in between.
DeletedLast == [][Len(edits') > Len(edits) /\ Last(edits').kind = "write"
                    => \A i \in 1..Len(edits) : edits[i].kind = "write"]_vars

\* The pipeline comes to an end, also when a thread throws while others process.
Ends == <>(phase \in {"done", "failed"})
=============================================================================
