------------------------------- MODULE Report -------------------------------
(***************************************************************************)
(* source/core/src/Report.cpp: the object an operation logs its report to. *)
(* Any number of threads call log(), which pushes to a queue under a mutex *)
(* and notifies; one writer thread, created by initialize(), drains the    *)
(* queue to the output stream; the destructor raises m_shutdown, joins the *)
(* writer and closes the stream.                                           *)
(*                                                                         *)
(* Every critical section of m_queueMutex that does no output is one       *)
(* action.  The writer holds the mutex across its final flush, so that     *)
(* "flushing" is also the state in which nobody else gets the mutex.       *)
(***************************************************************************)
EXTENDS Naturals, Sequences

CONSTANTS Loggers,     \* threads that call Report::log
          Messages,    \* what they log
          MaxLogs      \* bound on the messages of one report

ASSUME MaxLogsAssumption == MaxLogs \in Nat

VARIABLES phase,       \* lifecycle of the object, as its owner drives it
          queue,       \* m_queue
          shutdown,    \* m_shutdown
          writer,      \* where the thread m_outThread is
          held,        \* the writer's local msg: popped, not yet written
          out,         \* what was inserted into m_out
          logging,     \* where each logger is inside log()
          accepted     \* history: every message pushed, oldest first

vars == <<phase, queue, shutdown, writer, held, out, logging, accepted>>

Phases  == {"new", "open", "failed", "raised", "notified", "closed"}
Writers == {"none", "checking", "waiting", "writing", "flushing", "done"}

Destroying == phase \in {"raised", "notified"}

\* The mutex is free (nobody is inside an action that takes several steps).
MutexFree == writer # "flushing"

-----------------------------------------------------------------------------
(* Faulty variants of the steps below, as a slip in the code would have them. *)

\* log() that forgets notify_one.
M_LogNotifyDropped(t) == /\ logging[t] = "notify"
                         /\ logging' = [logging EXCEPT ![t] = "idle"]
                         /\ UNCHANGED <<phase, queue, shutdown, writer, held, out, accepted>>

\* A wait predicate that only looks at the queue.
M_WaitIgnoresShutdown == /\ writer = "checking"
                         /\ queue = <<>>
                         /\ writer' = "waiting"
                         /\ UNCHANGED <<phase, queue, shutdown, held, out, logging, accepted>>

\* The writer returns on m_shutdown without draining the queue.
M_StopsWithoutFlush == /\ writer = "checking"
                       /\ shutdown
                       /\ writer' = "done"
                       /\ UNCHANGED <<phase, queue, shutdown, held, out, logging, accepted>>

\* A destructor that closes the stream without joining the writer.
M_CloseWithoutJoin == /\ phase = "notified"
                      /\ phase' = "closed"
                      /\ UNCHANGED <<queue, shutdown, writer, held, out, logging, accepted>>

-----------------------------------------------------------------------------
Init == /\ phase = "new"
        /\ queue = <<>>
        /\ shutdown = FALSE
        /\ writer = "none"
        /\ held = <<>>
        /\ out = <<>>
        /\ logging = [t \in Loggers |-> "idle"]
        /\ accepted = <<>>

\* initialize(): opens the file for appending and starts the writer thread, or
\* returns false and leaves no thread behind.
Initialize == /\ phase = "new"
              /\ \/ phase' = "open" /\ writer' = "checking"
                 \/ phase' = "failed" /\ UNCHANGED writer
              /\ UNCHANGED <<queue, shutdown, held, out, logging, accepted>>

\* log(), the part under the mutex.  A report is only logged to once it is open:
\* Operation::execute drops one whose initialize() failed.
Log(t) == /\ phase = "open"
          /\ MutexFree
          /\ logging[t] = "idle"
          /\ Len(accepted) < MaxLogs
          /\ \E m \in Messages : /\ queue' = Append(queue, m)
                                 /\ accepted' = Append(accepted, m)
          /\ logging' = [logging EXCEPT ![t] = "notify"]
          /\ UNCHANGED <<phase, shutdown, writer, held, out>>

\* A notify_one: the writer is the only thread that ever waits on m_queueCv.
Wake == writer' = IF writer = "waiting" THEN "checking" ELSE writer

\* log(), the notify_one after the mutex was released.
LogNotify(t) == /\ logging[t] = "notify"
                /\ Wake
                /\ logging' = [logging EXCEPT ![t] = "idle"]
                /\ UNCHANGED <<phase, queue, shutdown, held, out, accepted>>

-----------------------------------------------------------------------------
\* The writer evaluates the predicate of m_queueCv.wait under the mutex; when it
\* is false it blocks, releasing the mutex in the same step.
WriterWait == /\ writer = "checking"
              /\ queue = <<>> /\ ~shutdown
              /\ writer' = "waiting"
              /\ UNCHANGED <<phase, queue, shutdown, held, out, logging, accepted>>

\* A condition variable may wake up on its own.
WriterSpuriousWakeup == /\ writer = "waiting"
                        /\ writer' = "checking"
                        /\ UNCHANGED <<phase, queue, shutdown, held, out, logging, accepted>>

\* Pop the front and release the mutex before writing.
WriterTake == /\ writer = "checking"
              /\ ~shutdown /\ queue # <<>>
              /\ held' = <<Head(queue)>>
              /\ queue' = Tail(queue)
              /\ writer' = "writing"
              /\ UNCHANGED <<phase, shutdown, out, logging, accepted>>

WriterWrite == /\ writer = "writing"
               /\ out' = out \o held
               /\ held' = <<>>
               /\ writer' = "checking"
               /\ UNCHANGED <<phase, queue, shutdown, logging, accepted>>

\* m_shutdown was seen: the rest of the queue is written under the mutex.
WriterShutdown == /\ writer = "checking"
                  /\ shutdown
                  /\ writer' = "flushing"
                  /\ UNCHANGED <<phase, queue, shutdown, held, out, logging, accepted>>

WriterFlush == /\ writer = "flushing"
               /\ queue # <<>>
               /\ out' = Append(out, Head(queue))
               /\ queue' = Tail(queue)
               /\ UNCHANGED <<phase, shutdown, writer, held, logging, accepted>>

WriterReturn == /\ writer = "flushing"
                /\ queue = <<>>
                /\ writer' = "done"
                /\ UNCHANGED <<phase, queue, shutdown, held, out, logging, accepted>>

-----------------------------------------------------------------------------
\* ~Report(), first block: m_shutdown under the mutex.  The owner destroys the
\* report only when no log() is running.
Destroy == /\ phase \in {"open", "new", "failed"}
           /\ MutexFree
           /\ \A t \in Loggers : logging[t] = "idle"
           /\ shutdown' = TRUE
           /\ phase' = "raised"
           /\ UNCHANGED <<queue, writer, held, out, logging, accepted>>

DestroyNotify == /\ phase = "raised"
                 /\ Wake
                 /\ phase' = "notified"
                 /\ UNCHANGED <<queue, shutdown, held, out, logging, accepted>>

\* join() when there is a thread to join, then close().
DestroyClose == /\ phase = "notified"
                /\ writer \in {"none", "done"}
                /\ phase' = "closed"
                /\ UNCHANGED <<queue, shutdown, writer, held, out, logging, accepted>>

Closed == phase = "closed" /\ UNCHANGED vars

Writer == \/ WriterWait \/ WriterTake \/ WriterWrite
          \/ WriterShutdown \/ WriterFlush \/ WriterReturn

Next == \/ Initialize
        \/ \E t \in Loggers : Log(t) \/ LogNotify(t)
        \/ Writer \/ WriterSpuriousWakeup
        \/ Destroy \/ DestroyNotify \/ DestroyClose
        \/ Closed

SafetySpec == Init /\ [][Next]_vars

\* A running thread gets the processor: the writer, a destructor that has begun
\* and a log() that still has to notify go on.  Nobody is obliged to log, to
\* destroy the report, and nothing relies on spurious wakeups.
Fairness == /\ WF_vars(Writer)
            /\ WF_vars(DestroyNotify) /\ WF_vars(DestroyClose)
            /\ \A t \in Loggers : WF_vars(LogNotify(t))

Spec == SafetySpec /\ Fairness

-----------------------------------------------------------------------------
\* The variables hold what their C++ counterparts can hold: the writer's local
\* message exists exactly while it is being written, m_shutdown is up exactly
\* from the destructor on, and only an opened report has a writer.
TypeOK == /\ phase \in Phases
          /\ queue \in Seq(Messages)
          /\ shutdown \in BOOLEAN
          /\ writer \in Writers
          /\ held \in Seq(Messages)
          /\ out \in Seq(Messages)
          /\ logging \in [Loggers -> {"idle", "notify"}]
          /\ accepted \in Seq(Messages)
          /\ shutdown <=> Destroying \/ phase = "closed"
          /\ writer = "writing" => Len(held) = 1
          /\ writer # "writing" => held = <<>>
          /\ phase \in {"new", "failed"} => writer = "none"
          /\ phase = "open" => writer \in {"checking", "waiting", "writing"}

\* Nothing is lost, repeated or reordered on its way from log() to the file:
\* what was written, what the writer holds and what is queued are, in this
\* order, what was logged.
InOrder == accepted = out \o held \o queue

\* Once the destructor is over every logged message is in the file: "Flush queue,
\* just in case anything is left" does catch what the writer had not taken.
CompleteWhenClosed == phase = "closed" => out = accepted

\* The stream outlives the writer thread: nothing is inserted after close().
NoWriteAfterClose == [][out' # out => phase # "closed"]_vars

\* ~Report() returns: the writer cannot miss m_shutdown, whatever it was doing.
DestructorReturns == Destroying ~> phase = "closed"

\* The class implements the append-only log its users see.
Abstract == INSTANCE AppendLog WITH stored <- out, closed <- (phase = "closed")
ImplementsAppendLog == Abstract!Spec
=============================================================================
