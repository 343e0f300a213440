------------------------------- MODULE Shutdown -------------------------------
(***************************************************************************)
(* The shutdown callbacks of UsdOptimizeCore (source/core/src/Core.cpp)    *)
(* and the service that needs them, FindOverlappingMeshes                  *)
(* (source/operations/findOverlappingMeshes): a singleton that owns a      *)
(* detector with CUDA buffers, which have to be freed while the driver is  *)
(* still there.                                                            *)
(*                                                                         *)
(* Two mutexes are involved, and they are taken in both orders:            *)
(* processStage registers its callback while it holds m_processMutex, and  *)
(* runShutdownCallbacks runs the callback, which takes m_processMutex,     *)
(* while it holds m_shutdownCallbacksMutex.                                *)
(***************************************************************************)
EXTENDS Naturals, Sequences, FiniteSets, SequencesExt

CONSTANTS Users,        \* threads that run the operation, with processStage
          Exits,        \* threads that call runShutdownCallbacks
          Others,       \* callbacks registered by somebody else
          Nobody,       \* no thread
          MaxCalls      \* bound on the calls of processStage

ASSUME ThreadsAssumption == /\ Users \cap Exits = {}
                            /\ Nobody \notin Users \cup Exits
ASSUME OthersAssumption == "service" \notin Others
ASSUME MaxCallsAssumption == MaxCalls \in Nat

VARIABLES processMutex,    \* who holds m_processMutex
          callbacksMutex,  \* who holds m_shutdownCallbacksMutex
          callbacks,       \* m_shutdownCallbacks
          started,         \* m_shutdownStarted
          detector,        \* m_clashDetector is set
          results,         \* the bookkeeping of a stage is there
          registered,      \* m_shutdownCallbackRegistered
          user,            \* where each user is inside processStage
          exit,            \* where each exiting thread is inside runShutdownCallbacks
          next,            \* the callback the loop is at
          calls,
          accepted, ran    \* history: callbacks accepted, and run

vars == <<processMutex, callbacksMutex, callbacks, started, detector, results, registered,
          user, exit, next, calls, accepted, ran>>
queueVars   == <<callbacks, started, accepted>>
serviceVars == <<detector, results, registered>>
exitVars    == <<exit, next, ran>>

\* registerShutdownCallback, under the callbacks' mutex: after the shutdown has begun
\* the callback is dropped.
Push(c) == IF started THEN UNCHANGED <<callbacks, accepted>>
           ELSE callbacks' = Append(callbacks, c) /\ accepted' = Append(accepted, c)

-----------------------------------------------------------------------------
(* Faulty variants of the steps below, as a slip in the code would have them. *)

\* Registration at every call, whether the detector is new or not.
M_NeedDetectorAlwaysRegisters(u) ==
  /\ user[u] = "locked"
  /\ user' = [user EXCEPT ![u] = "registering"]
  /\ detector' = TRUE
  /\ UNCHANGED <<processMutex, callbacksMutex, queueVars, results, registered, exitVars, calls>>

\* The callback is not registered when the detector is made.
M_NeedDetectorSilently(u) ==
  /\ user[u] = "locked"
  /\ detector' = TRUE
  /\ user' = [user EXCEPT ![u] = "detecting"]
  /\ UNCHANGED <<processMutex, callbacksMutex, queueVars, results, registered, exitVars, calls>>

\* An exception of a callback ends the loop.
M_RunOtherThrowEnds(e) ==
  /\ exit[e] = "looping" /\ next <= Len(callbacks) /\ callbacks[next] # "service"
  /\ ran' = Append(ran, callbacks[next])
  /\ \/ next' = next + 1
     \/ next' = Len(callbacks) + 1
  /\ UNCHANGED <<processMutex, callbacksMutex, queueVars, serviceVars, user, exit, calls>>

-----------------------------------------------------------------------------
Init == /\ processMutex = Nobody /\ callbacksMutex = Nobody
        /\ callbacks = <<>> /\ started = FALSE
        /\ detector = FALSE /\ results = FALSE /\ registered = FALSE
        /\ user = [u \in Users |-> "out"]
        /\ exit = [e \in Exits |-> "out"] /\ next = 1
        /\ calls = 0
        /\ accepted = <<>> /\ ran = <<>>

\* Another client of the queue registers a callback, from any thread.
RegisterOther(c) ==
  /\ callbacksMutex = Nobody
  /\ c \notin Range(accepted)
  /\ Push(c)
  /\ UNCHANGED <<processMutex, callbacksMutex, started, serviceVars, user, exitVars, calls>>

\* processStage(): take the mutex and clear what an earlier call left.
Process(u) == /\ user[u] = "out" /\ calls < MaxCalls
              /\ processMutex = Nobody
              /\ processMutex' = u
              /\ results' = FALSE
              /\ user' = [user EXCEPT ![u] = "locked"]
              /\ calls' = calls + 1
              /\ UNCHANGED <<callbacksMutex, queueVars, detector, registered, exitVars>>

\* Descriptors and paths that do not match are an error.
Mismatch(u) == /\ user[u] = "locked"
               /\ processMutex' = Nobody
               /\ user' = [user EXCEPT ![u] = "out"]
               /\ UNCHANGED <<callbacksMutex, queueVars, serviceVars, exitVars, calls>>

\* A detector is made if there is none; a new one needs the callback, once.
NeedDetector(u) ==
  /\ user[u] = "locked"
  /\ detector' = TRUE
  /\ user' = [user EXCEPT ![u] = IF detector \/ registered THEN "detecting"
                                                           ELSE "registering"]
  /\ UNCHANGED <<processMutex, callbacksMutex, queueVars, results, registered, exitVars, calls>>

\* The flag is set whether the callback was accepted or dropped.
Register(u) == /\ user[u] = "registering"
               /\ callbacksMutex = Nobody
               /\ Push("service")
               /\ registered' = TRUE
               /\ user' = [user EXCEPT ![u] = "detecting"]
               /\ UNCHANGED <<processMutex, callbacksMutex, started, detector, results,
                              exitVars, calls>>

Detect(u) == /\ user[u] = "detecting"
             /\ results' = TRUE
             /\ processMutex' = Nobody
             /\ user' = [user EXCEPT ![u] = "out"]
             /\ UNCHANGED <<callbacksMutex, queueVars, detector, registered, exitVars, calls>>

-----------------------------------------------------------------------------
CallRun(e) == /\ exit[e] = "out"
              /\ exit' = [exit EXCEPT ![e] = "called"]
              /\ UNCHANGED <<processMutex, callbacksMutex, queueVars, serviceVars, user,
                             next, ran, calls>>

\* runShutdownCallbacks(): the first call takes the mutex for the whole loop, any
\* other one returns.
BeginRun(e) == /\ exit[e] = "called"
               /\ callbacksMutex = Nobody
               /\ IF started
                  THEN /\ exit' = [exit EXCEPT ![e] = "returned"]
                       /\ UNCHANGED <<callbacksMutex, started, next>>
                  ELSE /\ callbacksMutex' = e
                       /\ started' = TRUE
                       /\ next' = 1
                       /\ exit' = [exit EXCEPT ![e] = "looping"]
               /\ UNCHANGED <<processMutex, callbacks, accepted, serviceVars, user, ran, calls>>

\* Whether a callback returns or throws, the loop goes on.
RunOther(e) == /\ exit[e] = "looping" /\ next <= Len(callbacks)
               /\ callbacks[next] # "service"
               /\ ran' = Append(ran, callbacks[next])
               /\ next' = next + 1
               /\ UNCHANGED <<processMutex, callbacksMutex, queueVars, serviceVars, user,
                              exit, calls>>

\* FindOverlappingMeshes::shutdown(), under m_processMutex.
RunService(e) == /\ exit[e] = "looping" /\ next <= Len(callbacks)
                 /\ callbacks[next] = "service"
                 /\ processMutex = Nobody
                 /\ detector' = FALSE /\ results' = FALSE /\ registered' = FALSE
                 /\ ran' = Append(ran, callbacks[next])
                 /\ next' = next + 1
                 /\ UNCHANGED <<processMutex, callbacksMutex, queueVars, user, exit, calls>>

EndRun(e) == /\ exit[e] = "looping" /\ next > Len(callbacks)
             /\ callbacks' = <<>>
             /\ callbacksMutex' = Nobody
             /\ next' = 1
             /\ exit' = [exit EXCEPT ![e] = "returned"]
             /\ UNCHANGED <<processMutex, started, accepted, serviceVars, user, ran, calls>>

Done == /\ \A u \in Users : user[u] = "out"
        /\ \A e \in Exits : exit[e] = "returned"
        /\ UNCHANGED vars

InProcess(u) == Mismatch(u) \/ NeedDetector(u) \/ Register(u) \/ Detect(u)
InRun(e)     == BeginRun(e) \/ RunOther(e) \/ RunService(e) \/ EndRun(e)

Next == \/ \E c \in Others : RegisterOther(c)
        \/ \E u \in Users : Process(u) \/ InProcess(u)
        \/ \E e \in Exits : CallRun(e) \/ InRun(e)
        \/ Done

\* A thread that can go on does; a mutex that is free again and again is obtained.
Fairness == /\ \A u \in Users : WF_vars(InProcess(u))
            /\ \A e \in Exits : SF_vars(InRun(e))

Safety == Init /\ [][Next]_vars
Spec   == Safety /\ Fairness

-----------------------------------------------------------------------------
\* The variables hold what their C++ counterparts can hold; a mutex is held by the
\* thread whose place in the code says so, and the list is empty after the loop.
TypeOK == /\ processMutex \in Users \cup {Nobody}
          /\ callbacksMutex \in Exits \cup {Nobody}
          /\ callbacks \in Seq(Others \cup {"service"})
          /\ {started, detector, results, registered} \subseteq BOOLEAN
          /\ user \in [Users -> {"out", "locked", "registering", "detecting"}]
          /\ exit \in [Exits -> {"out", "called", "looping", "returned"}]
          /\ next \in 1..Len(callbacks) + 1
          /\ calls \in 0..MaxCalls
          /\ \A u \in Users : user[u] # "out" <=> processMutex = u
          /\ \A e \in Exits : exit[e] = "looping" <=> callbacksMutex = e
          /\ \A e \in Exits : exit[e] = "returned" => callbacks = <<>>

\* "in registration order, then clear the list. Safe to call multiple times": every
\* callback that was accepted runs once, in the order of registration, although one
\* may throw and several threads may shut down.
CallbacksRunOnceInOrder ==
  /\ IsPrefix(ran, accepted)
  /\ started /\ callbacksMutex = Nobody => ran = accepted

\* As long as the shutdown has not begun, a detector that nobody is working with has
\* its cleanup callback in the queue, and has it once.
DetectorCovered == ~started => /\ detector /\ processMutex = Nobody
                                    => "service" \in Range(callbacks)
                               /\ Cardinality({i \in 1..Len(callbacks) :
                                                callbacks[i] = "service"}) <= 1

\* The two mutexes are taken in both orders, but never so that two threads wait for
\* each other: while a callback of the service waits to run, nobody who holds
\* m_processMutex wants to register.
NoCircularWait == \A e \in Exits : \A u \in Users :
                    ~(/\ exit[e] = "looping" /\ next <= Len(callbacks)
                      /\ callbacks[next] = "service"
                      /\ user[u] = "registering")

\* The shutdown comes to its end, whatever the users do meanwhile.
ShutdownReturns == \A e \in Exits : exit[e] = "called" ~> exit[e] = "returned"

=============================================================================
