--------------------------- MODULE CoalescerProofs ---------------------------
(***************************************************************************)
(* Proofs about Coalescer for any threads, any delay and any resolution of *)
(* the clock.                                                              *)
(***************************************************************************)
EXTENDS Coalescer, TLAPS

\* What the clock's assumption says of the delay: a positive number of ticks, and a
\* whole number of milliseconds.
LEMMA DelayWhole == /\ Delay \in Nat \ {0}
                    /\ \E n \in Nat : Delay = n * Millisecond
<1>1. PICK n \in 1..Delay : Delay = n * Millisecond
  BY ClockAssumption
<1> QED BY <1>1, ClockAssumption

\* Cutting a time off to milliseconds gives no more than the time.
LEMMA CutOff == ASSUME NEW a \in Nat
                PROVE  /\ (a \div Millisecond) * Millisecond \in Nat
                       /\ (a \div Millisecond) * Millisecond <= a
BY ClockAssumption

\* The types, with each of the two counters of callback threads on its own, and room
\* for the callback that the timer thread may start.
Typed == /\ TypeOK
         /\ dispatched \in Nat /\ invoking \in Nat
         /\ timer # "none" => dispatched + invoking < MaxCallbacks

LEMMA TypedStep == Typed /\ [Next]_vars => Typed'
<1> SUFFICES ASSUME Typed, [Next]_vars PROVE Typed'
  OBVIOUS
<1> USE DelayWhole, MaxCallbacksAssumption DEF Typed, TypeOK, timerVars, callbackVars
<1>1. CASE Trigger
  <2>1. CASE cancelled
    BY <1>1, <2>1 DEF Trigger, Callable
  <2>2. CASE ~cancelled /\ active
    BY <1>1, <2>2 DEF Trigger, Callable
  <2>3. CASE ~cancelled /\ ~active
    <3>1. {active', cancelled', due', retriggered'} \subseteq BOOLEAN
      BY <1>1, <2>3 DEF Trigger, StartTimer
    <3>2. {since', quiet', left'} \subseteq 0..Delay
      BY <1>1, <2>3 DEF Trigger, StartTimer
    <3> QED BY <1>1, <2>3, <3>1, <3>2 DEF Trigger, StartTimer
  <2> QED BY <2>1, <2>2, <2>3
<1>2. CASE Cancel
  BY <1>2 DEF Cancel, Callable
<1>3. CASE Destroy
  BY <1>3 DEF Destroy, Callable
<1>4. ASSUME NEW t \in Threads, Wait(t) PROVE Typed'
  BY <1>4 DEF Wait, Callable
<1>5. ASSUME NEW t \in Threads, CheckWait(t) PROVE Typed'
  BY <1>5 DEF CheckWait
<1>6. ASSUME NEW t \in Threads, SpuriousWakeup(t) PROVE Typed'
  BY <1>6 DEF SpuriousWakeup
<1>7. CASE Tick
  BY <1>7 DEF Tick
<1>8. CASE TimerWakes
  BY <1>8 DEF TimerWakes
<1>9. ASSUME NotifyOne PROVE waiting' \in [Threads -> {"out", "checking", "blocked"}]
  BY <1>9 DEF NotifyOne
<1>10. CASE TimerCancelled
  BY <1>9, <1>10 DEF TimerCancelled
<1>11. CASE TimerDispatches
  <2>1. dispatched' + invoking' \in 0..MaxCallbacks
    BY <1>11 DEF TimerDispatches
  <2>2. {active', cancelled', due', retriggered'} \subseteq BOOLEAN
    BY <1>11 DEF TimerDispatches
  <2> QED BY <1>9, <1>11, <2>1, <2>2 DEF TimerDispatches
<1>12. CASE TimerReschedules
  <2>1. Delay - (since \div Millisecond) * Millisecond \in 0..Delay
    BY CutOff
  <2> QED BY <1>12, <2>1 DEF TimerReschedules, StartTimer
<1>13. CASE CallbackBegins
  BY <1>13 DEF CallbackBegins
<1>14. CASE CallbackEnds
  BY <1>14 DEF CallbackEnds
<1>15. CASE Over \/ UNCHANGED vars
  BY <1>15 DEF Over, vars
<1> QED
  BY <1>1, <1>2, <1>3, <1>4, <1>5, <1>6, <1>7, <1>8, <1>10, <1>11, <1>12, <1>13, <1>14,
     <1>15 DEF Next, Timer, Callback

\* Typed is inductive.
LEMMA TypedInvariant == Spec => []Typed
<1>1. Init => Typed
  <2> SUFFICES ASSUME Init PROVE Typed
    OBVIOUS
  <2>1. waiting \in [Threads -> {"out", "checking", "blocked"}]
    BY DEF Init
  <2>2. {active, cancelled, due, retriggered} \subseteq BOOLEAN
    BY DEF Init
  <2> QED
    BY <2>1, <2>2, DelayWhole, MaxCallbacksAssumption DEF Init, Typed, TypeOK
<1> QED
  BY <1>1, TypedStep, PTL DEF Spec

\* The types of Coalescer's variables, and that m_timerActive says whether there is a
\* timer thread, are preserved by every call and every thread.
THEOREM TypeCorrect == Spec => []TypeOK
<1>1. Typed => TypeOK
  BY DEF Typed
<1> QED
  BY <1>1, TypedInvariant, PTL

-----------------------------------------------------------------------------
\* The rest of the delay is computed from a time that is cut off downwards, so that
\* the timer thread never wakes up before the end of the burst it knows of.
THEOREM WakeUp == Spec => []WakesOnTime
<1>1. Init => WakesOnTime
  BY DEF Init, WakesOnTime
<1>2. Typed /\ WakesOnTime /\ [Next]_vars => WakesOnTime'
  <2> SUFFICES ASSUME Typed, WakesOnTime, [Next]_vars PROVE WakesOnTime'
    OBVIOUS
  <2> USE DelayWhole DEF Typed, TypeOK, WakesOnTime, timerVars, callbackVars
  <2>1. CASE Trigger
    BY <2>1 DEF Trigger, StartTimer
  <2>2. CASE Tick
    BY <2>2 DEF Tick
  <2>3. CASE TimerReschedules
    <3>1. (since \div Millisecond) * Millisecond \in Nat
          /\ (since \div Millisecond) * Millisecond <= since
      BY CutOff
    <3> QED BY <2>3, <3>1 DEF TimerReschedules, StartTimer
  <2>4. CASE TimerWakes \/ TimerCancelled \/ TimerDispatches
    BY <2>4 DEF TimerWakes, TimerCancelled, TimerDispatches
  <2>5. ASSUME UNCHANGED <<since, timerVars>> PROVE WakesOnTime'
    BY <2>5
  <2> QED
    BY <2>1, <2>2, <2>3, <2>4, <2>5
       DEF Next, Timer, Callback, Cancel, Destroy, Wait, CheckWait, SpuriousWakeup,
           CallbackBegins, CallbackEnds, Over, vars
<1> QED
  BY <1>1, <1>2, TypedInvariant, PTL DEF Spec

-----------------------------------------------------------------------------
\* Why the destructor may trust the flag: the owner waits only to destroy the object,
\* and then it is cancelled, so that no trigger starts a timer thread any more; the
\* destructor only ends when there is none.
Cancelling == /\ life # "alive" => cancelled
              /\ waiting[Owner] # "out" => life # "alive"
              /\ life = "destroyed" => ~active

\* When ~Coalescer() is over there is no timer thread that could use the object.
THEOREM TimerGone == Spec => []NoTimerAfterDestroy
<1> Owner \in Threads
  BY DEF Threads
<1>1. Init => Cancelling
  BY DEF Init, Cancelling
<1>2. Typed /\ Cancelling /\ [Next]_vars => Cancelling'
  <2> SUFFICES ASSUME Typed, Cancelling, [Next]_vars PROVE Cancelling'
    OBVIOUS
  <2> USE DEF Typed, TypeOK, Cancelling
  <2>1. CASE Trigger
    BY <2>1 DEF Trigger, Callable
  <2>2. CASE Cancel \/ Destroy
    BY <2>2 DEF Cancel, Destroy, Callable
  <2>3. ASSUME NEW t \in Threads, CheckWait(t) PROVE Cancelling'
    BY <2>3 DEF CheckWait
  <2>4. ASSUME NEW t \in Threads, Wait(t) \/ SpuriousWakeup(t) PROVE Cancelling'
    BY <2>4 DEF Wait, SpuriousWakeup
  <2>5. ASSUME NotifyOne PROVE waiting'[Owner] # "out" => waiting[Owner] # "out"
    BY <2>5 DEF NotifyOne
  <2>6. CASE TimerCancelled \/ TimerDispatches
    BY <2>5, <2>6 DEF TimerCancelled, TimerDispatches
  <2>7. ASSUME UNCHANGED <<active, cancelled, waiting, life>> PROVE Cancelling'
    BY <2>7
  <2> QED
    BY <2>1, <2>2, <2>3, <2>4, <2>6, <2>7
       DEF Next, Timer, TimerWakes, TimerReschedules, Callback, Tick, CallbackBegins,
           CallbackEnds, Over, vars
<1>3. Typed /\ Cancelling => NoTimerAfterDestroy
  BY DEF Typed, TypeOK, Cancelling, NoTimerAfterDestroy
<1> QED
  BY <1>1, <1>2, <1>3, TypedInvariant, PTL DEF Spec

-----------------------------------------------------------------------------
\* Why the timestamp may stand for the burst: as long as the timer thread has not
\* answered, m_timestamp is that of the last trigger that was accepted.
Burst == /\ since = quiet
         /\ timer # "none" /\ ~cancelled => due

\* A callback is started only for a burst that is over.
THEOREM BurstOver == Spec => CallbackAfterBurst
<1>1. Init => Burst
  BY DEF Init, Burst
<1>2. Typed /\ Burst /\ [Next]_vars => Burst'
  <2> SUFFICES ASSUME Typed, Burst, [Next]_vars PROVE Burst'
    OBVIOUS
  <2> USE DEF Typed, TypeOK, Burst, timerVars, callbackVars
  <2>1. CASE Trigger
    BY <2>1 DEF Trigger, StartTimer
  <2>2. CASE Cancel \/ Destroy
    BY <2>2 DEF Cancel, Destroy
  <2>3. CASE Tick
    BY <2>3 DEF Tick
  <2>4. CASE Timer
    BY <2>4 DEF Timer, TimerWakes, TimerCancelled, TimerDispatches, TimerReschedules,
                StartTimer
  <2>5. ASSUME UNCHANGED <<since, quiet, timer, cancelled, due>> PROVE Burst'
    BY <2>5
  <2> QED
    BY <2>1, <2>2, <2>3, <2>4, <2>5
       DEF Next, Callback, Wait, CheckWait, SpuriousWakeup, CallbackBegins, CallbackEnds,
           Over, vars
<1>3. Typed /\ Burst /\ [Next]_vars => [dispatched' > dispatched => due /\ quiet = Delay]_vars
  <2> SUFFICES ASSUME Typed, Burst, [Next]_vars, dispatched' > dispatched
               PROVE  due /\ quiet = Delay
    OBVIOUS
  <2> USE DelayWhole DEF Typed, TypeOK, Burst, timerVars, callbackVars
  <2>1. CASE TimerDispatches
    BY <2>1 DEF TimerDispatches
  <2>2. CASE CallbackBegins
    BY <2>2 DEF CallbackBegins
  <2>3. ASSUME UNCHANGED dispatched PROVE FALSE
    BY <2>3
  <2> QED
    BY <2>1, <2>2, <2>3
       DEF Next, Timer, Callback, Trigger, Cancel, Destroy, Wait, CheckWait, SpuriousWakeup,
           Tick, TimerWakes, TimerCancelled, TimerReschedules, CallbackEnds, Over, vars
<1> QED
  BY <1>1, <1>2, <1>3, TypedInvariant, PTL DEF Spec, CallbackAfterBurst
=============================================================================
