------------------------------ MODULE Coalescer ------------------------------
(***************************************************************************)
(* source/core/src/Coalescer.cpp: run a callback once a burst of trigger() *)
(* calls is over.  The first trigger starts a timer thread that sleeps for *)
(* the delay; if there were more triggers meanwhile it starts another one  *)
(* for the rest of the delay, and otherwise a thread for the callback.     *)
(*                                                                         *)
(* Every function holds m_mutex from start to end, or until it blocks in   *)
(* wait(), so each is one action.  Time is counted in ticks, and relative: *)
(* the ticks since the last trigger and those the timer has still to sleep *)
(* say all that the code asks the clock for, and need no bound.            *)
(***************************************************************************)
EXTENDS Naturals, FiniteSets

CONSTANTS Waiters,      \* threads that call wait()
          Owner,        \* the thread that destroys the object
          Delay,        \* m_delay, in ticks of the clock
          Millisecond,  \* ticks of a millisecond, to which delays are cut off
          MaxCallbacks  \* bound on the callbacks that are not finished

ASSUME OwnerAssumption == Owner \notin Waiters
ASSUME ClockAssumption == /\ Millisecond \in Nat \ {0}
                          /\ Delay \in {n * Millisecond : n \in 1..Delay}
ASSUME MaxCallbacksAssumption == MaxCallbacks \in Nat \ {0}

VARIABLES active,       \* m_timerActive
          cancelled,    \* m_cancelled
          since,        \* ticks since m_timestamp, counted up to Delay
          timer,        \* the timer thread: none, asleep, awake
          left,         \* ticks it has to sleep at least
          dispatched,   \* detached callback threads that have not called m_callback
          invoking,     \* callback threads that are inside m_callback
          waiting,      \* where threads are inside wait()
          life,         \* of the object
          due,          \* history: a trigger was accepted, and no callback started since
          retriggered,  \* history: and it was after the timer thread was started
          quiet         \* history: ticks without an accepted trigger, up to Delay

vars == <<active, cancelled, since, timer, left, dispatched, invoking, waiting, life,
          due, retriggered, quiet>>
timerVars   == <<timer, left, retriggered>>
callbackVars == <<dispatched, invoking>>

Threads == Waiters \cup {Owner}

\* A call on the object: it exists, and nobody has begun to destroy it.
Callable == life = "alive"

StartTimer(ticks) == /\ timer' = "asleep"
                     /\ left' = ticks
                     /\ retriggered' = FALSE

\* notify_one wakes one of the blocked threads, if there is one.
NotifyOne == LET blocked == {t \in Threads : waiting[t] = "blocked"}
             IN IF blocked = {} THEN UNCHANGED waiting
                ELSE \E t \in blocked : waiting' = [waiting EXCEPT ![t] = "checking"]

-----------------------------------------------------------------------------
(* Faulty variants of the steps below, as a slip in the code would have them. *)

\* A trigger does not restart the delay that runs already.
M_TriggerKeepsTimestamp ==
  /\ Callable
  /\ dispatched + invoking < MaxCallbacks
  /\ IF cancelled
     THEN UNCHANGED <<active, since, timerVars, due, quiet>>
     ELSE /\ due' = TRUE /\ quiet' = 0
          /\ active' = TRUE
          /\ IF active THEN retriggered' = TRUE /\ UNCHANGED <<timer, left, since>>
                       ELSE StartTimer(Delay) /\ since' = 0
  /\ UNCHANGED <<cancelled, callbackVars, waiting, life>>

\* The rest of the delay is cut off to milliseconds, and not what has passed of it.
M_RescheduleRoundsDown ==
  /\ timer = "awake" /\ ~cancelled /\ since < Delay
  /\ StartTimer(((Delay - since) \div Millisecond) * Millisecond)
  /\ UNCHANGED <<active, cancelled, since, quiet, callbackVars, waiting, life, due>>

\* A timer thread that finds the object cancelled just ends.
M_TimerCancelledSilently ==
  /\ timer = "awake" /\ cancelled
  /\ timer' = "none"
  /\ UNCHANGED <<active, cancelled, since, quiet, left, retriggered, callbackVars, waiting,
                 life, due>>

\* The callback is started, and the timer stays active.
M_DispatchStaysActive ==
  /\ timer = "awake" /\ ~cancelled /\ since >= Delay
  /\ dispatched' = dispatched + 1
  /\ timer' = "none"
  /\ due' = FALSE
  /\ NotifyOne
  /\ UNCHANGED <<active, cancelled, since, quiet, left, retriggered, invoking, life>>

\* ~Coalescer only waits when it finds nothing cancelled before.
M_WaitReturnsWhenCancelled(t) ==
  /\ waiting[t] = "checking"
  /\ IF ~active \/ cancelled
     THEN /\ waiting' = [waiting EXCEPT ![t] = "out"]
          /\ life' = IF t = Owner THEN "destroyed" ELSE life
     ELSE waiting' = [waiting EXCEPT ![t] = "blocked"] /\ UNCHANGED life
  /\ UNCHANGED <<active, cancelled, since, quiet, timerVars, callbackVars, due>>

-----------------------------------------------------------------------------
Init == /\ active = FALSE /\ cancelled = FALSE
        /\ since = 0 /\ quiet = 0
        /\ timer = "none" /\ left = 0
        /\ dispatched = 0 /\ invoking = 0
        /\ waiting = [t \in Threads |-> "out"]
        /\ life = "alive"
        /\ due = FALSE /\ retriggered = FALSE

\* trigger()
Trigger ==
  /\ Callable
  /\ dispatched + invoking < MaxCallbacks
  /\ IF cancelled
     THEN UNCHANGED <<active, since, timerVars, due, quiet>>
     ELSE /\ since' = 0
          /\ due' = TRUE /\ quiet' = 0
          /\ active' = TRUE
          /\ IF active THEN retriggered' = TRUE /\ UNCHANGED <<timer, left>>
                       ELSE StartTimer(Delay)
  /\ UNCHANGED <<cancelled, callbackVars, waiting, life>>

\* cancel()
Cancel == /\ Callable /\ ~cancelled
          /\ cancelled' = TRUE
          /\ due' = FALSE
          /\ UNCHANGED <<active, since, quiet, timerVars, callbackVars, waiting, life>>

\* wait(), called by a thread other than the owner.
Wait(t) == /\ Callable
           /\ t # Owner /\ waiting[t] = "out"
           /\ waiting' = [waiting EXCEPT ![t] = "checking"]
           /\ UNCHANGED <<active, cancelled, since, quiet, timerVars, callbackVars, life, due>>

\* ~Coalescer(): cancel() and then wait().  It is called when no other thread is
\* inside a function of the object.
Destroy == /\ Callable
           /\ \A t \in Threads : waiting[t] = "out"
           /\ life' = "destroying"
           /\ cancelled' = TRUE
           /\ due' = FALSE
           /\ waiting' = [waiting EXCEPT ![Owner] = "checking"]
           /\ UNCHANGED <<active, since, quiet, timerVars, callbackVars>>

\* wait() under the mutex: return when the timer is not active, otherwise block
\* until notified.
CheckWait(t) ==
  /\ waiting[t] = "checking"
  /\ IF active
     THEN waiting' = [waiting EXCEPT ![t] = "blocked"] /\ UNCHANGED life
     ELSE /\ waiting' = [waiting EXCEPT ![t] = "out"]
          /\ life' = IF t = Owner THEN "destroyed" ELSE life
  /\ UNCHANGED <<active, cancelled, since, quiet, timerVars, callbackVars, due>>

SpuriousWakeup(t) == /\ waiting[t] = "blocked"
                     /\ waiting' = [waiting EXCEPT ![t] = "checking"]
                     /\ UNCHANGED <<active, cancelled, since, quiet, timerVars, callbackVars,
                                    life, due>>

-----------------------------------------------------------------------------
Tick == /\ since < Delay \/ quiet < Delay \/ left > 0
        /\ since' = IF since < Delay THEN since + 1 ELSE since
        /\ quiet' = IF quiet < Delay THEN quiet + 1 ELSE quiet
        /\ left' = IF left > 0 THEN left - 1 ELSE left
        /\ UNCHANGED <<active, cancelled, timer, retriggered, callbackVars, waiting, life, due>>

\* sleep_for sleeps at least as long as it was told to.
TimerWakes == /\ timer = "asleep" /\ left = 0
              /\ timer' = "awake"
              /\ UNCHANGED <<active, cancelled, since, quiet, left, retriggered, callbackVars,
                             waiting, life, due>>

\* executeCallback(), in its three cases.
TimerCancelled == /\ timer = "awake" /\ cancelled
                  /\ timer' = "none"
                  /\ active' = FALSE
                  /\ NotifyOne
                  /\ UNCHANGED <<cancelled, since, quiet, left, retriggered, callbackVars, life, due>>

TimerDispatches == /\ timer = "awake" /\ ~cancelled /\ since >= Delay
                   /\ dispatched' = dispatched + 1
                   /\ timer' = "none"
                   /\ active' = FALSE
                   /\ due' = FALSE
                   /\ NotifyOne
                   /\ UNCHANGED <<cancelled, since, quiet, left, retriggered, invoking, life>>

\* duration_cast to milliseconds cuts off the time that has passed.
TimerReschedules == /\ timer = "awake" /\ ~cancelled /\ since < Delay
                    /\ StartTimer(Delay - (since \div Millisecond) * Millisecond)
                    /\ UNCHANGED <<active, cancelled, since, quiet, callbackVars, waiting, life, due>>

\* The callback runs on a thread of its own, without the mutex.
CallbackBegins == /\ dispatched > 0
                  /\ dispatched' = dispatched - 1
                  /\ invoking' = invoking + 1
                  /\ UNCHANGED <<active, cancelled, since, quiet, timerVars, waiting, life, due>>

CallbackEnds == /\ invoking > 0
                /\ invoking' = invoking - 1
                /\ UNCHANGED <<active, cancelled, since, quiet, timerVars, dispatched, waiting,
                               life, due>>

\* The object is gone and its threads have ended.
Over == /\ life = "destroyed" /\ timer = "none" /\ dispatched + invoking = 0
        /\ since = Delay /\ left = 0
        /\ UNCHANGED vars

Timer    == TimerWakes \/ TimerCancelled \/ TimerDispatches \/ TimerReschedules
Callback == CallbackBegins \/ CallbackEnds

Next == \/ Trigger \/ Cancel \/ Destroy
        \/ \E t \in Threads : Wait(t) \/ CheckWait(t) \/ SpuriousWakeup(t)
        \/ Tick \/ Timer \/ Callback \/ Over

\* Time passes, and threads that can run do.  Nobody is obliged to call anything.
Fairness == /\ WF_vars(Tick) /\ WF_vars(Timer) /\ WF_vars(Callback)
            /\ \A t \in Threads : WF_vars(CheckWait(t))

Spec == Init /\ [][Next]_vars /\ Fairness

-----------------------------------------------------------------------------
\* The variables hold what their C++ counterparts can hold; m_timerActive says that
\* there is a timer thread, of which there is one at a time.
TypeOK == /\ {active, cancelled, due, retriggered} \subseteq BOOLEAN
          /\ {since, quiet, left} \subseteq 0..Delay
          /\ timer \in {"none", "asleep", "awake"}
          /\ dispatched + invoking \in 0..MaxCallbacks
          /\ waiting \in [Threads -> {"out", "checking", "blocked"}]
          /\ life \in {"alive", "destroying", "destroyed"}
          /\ active <=> timer # "none"

\* The timer thread uses the object, and the destructor waits for it: none is left
\* when the object is gone.
NoTimerAfterDestroy == life = "destroyed" => timer = "none"

\* "the callback timer will be reset until it stops being called": a callback is
\* started only when a whole delay has passed without a trigger, and there was one.
CallbackAfterBurst == [][dispatched' > dispatched => due /\ quiet = Delay]_vars

\* Without a further trigger the next wake-up of the timer thread is the last one:
\* what is cut off in the computation of the rest of the delay never makes it wake
\* up too early.
WakesOnTime == timer # "none" /\ ~retriggered => since + left >= Delay

\* A trigger is not forgotten: when the triggers stop, the callback is started, unless
\* the object is cancelled; no order of the calls leaves a trigger without a timer.
TriggerAnswered == <>[][~Trigger]_vars => (due ~> ~due)

\* "destruction may block for a brief delay", and no longer.
DestructorReturns == life = "destroying" ~> life = "destroyed"

\* "When this object is destroyed it will Coalescer::wait on any active thread to
\* ensure that the object is still alive if a callback was scheduled to trigger":
\* the callback threads reach m_callback through the object.
ObjectOutlivesCallbacks == life = "destroyed" => dispatched = 0 /\ invoking = 0
=============================================================================
