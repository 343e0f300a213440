------------------------------ MODULE IslandProofs ------------------------------
(***************************************************************************)
(* Proofs about Shutdown, IslandDetector and OverlappingMeshes, for any    *)
(* threads, any callbacks, any number of calls, any meshes and any clashes.*)
(***************************************************************************)
EXTENDS OverlappingMeshes, Induction, FiniteSetTheorems, SequenceTheorems, TLAPS

-----------------------------------------------------------------------------
(* Shutdown *)

Names == Others \cup {"service"}

\* What the loop has done: until it starts it is at the first callback; while it runs
\* the callbacks before next have run; and when the mutex is free again all of them have.
Looped == /\ accepted \in Seq(Names) /\ ran \in Seq(Names)
          /\ ~started => next = 1 /\ callbacksMutex = Nobody
          /\ started /\ callbacksMutex = Nobody => ran = accepted /\ callbacks = <<>>
          /\ ~(started /\ callbacksMutex = Nobody) =>
               /\ callbacks = accepted
               /\ Len(ran) = next - 1
               /\ \A i \in 1..Len(ran) : ran[i] = accepted[i]
          /\ \A e \in Exits : exit[e] = "returned" => started /\ callbacksMutex = Nobody

Typed == TypeOK /\ Looped

\* A callback that is registered goes to the end of the list before the loop, and
\* nowhere after it.
LEMMA PushKeeps ==
  ASSUME Typed, NEW c \in Names, Push(c), callbacksMutex = Nobody,
         UNCHANGED <<started, callbacksMutex, exit, next, ran>>
  PROVE  /\ Looped'
         /\ callbacks' \in Seq(Names) /\ next' \in 1..Len(callbacks') + 1
         /\ \A e \in Exits : exit'[e] = "returned" => callbacks' = <<>>
<1> USE DEF Typed, TypeOK, Looped, Names
<1>1. CASE started
  BY <1>1 DEF Push
<1>2. CASE ~started
  <2>1. /\ accepted' \in Seq(Names) /\ callbacks' = accepted'
        /\ Len(callbacks') = Len(callbacks) + 1
    <3>1. /\ callbacks' = Append(callbacks, c) /\ accepted' = Append(callbacks, c)
          /\ callbacks \in Seq(Names)
      BY <1>2 DEF Push
    <3> HIDE DEF Names
    <3> QED BY <3>1, AppendProperties
  <2>2. Len(ran') = 0 /\ next' = 1 /\ \A e \in Exits : exit'[e] # "returned"
    BY <1>2
  <2>3. next' \in 1..Len(callbacks') + 1
    BY <2>1, <2>2
  <2>4. Looped'
    BY <1>2, <2>1, <2>2
  <2> QED BY <2>1, <2>2, <2>3, <2>4
<1> QED BY <1>1, <1>2

\* Typed is preserved by every step of processStage and of runShutdownCallbacks.
LEMMA TypedStep == Typed /\ [Next]_vars => Typed'
<1> SUFFICES ASSUME Typed, [Next]_vars PROVE Typed'
  OBVIOUS
<1> USE ThreadsAssumption, OthersAssumption, MaxCallsAssumption
    DEF Typed, TypeOK, Looped, Names, queueVars, serviceVars, exitVars
<1>1. ASSUME NEW c \in Others, RegisterOther(c) PROVE Typed'
  <2>1. c \in Names /\ Push(c)
    BY <1>1 DEF RegisterOther
  <2> QED BY <1>1, <2>1, PushKeeps DEF RegisterOther
<1>2. ASSUME NEW u \in Users, Process(u) PROVE Typed'
  <2>1. {started', detector', results', registered'} \subseteq BOOLEAN
    BY <1>2 DEF Process
  <2>2. /\ user' \in [Users -> {"out", "locked", "registering", "detecting"}]
        /\ \A v \in Users : user'[v] # "out" <=> processMutex' = v
    BY <1>2 DEF Process
  <2> QED BY <1>2, <2>1, <2>2 DEF Process
<1>3. ASSUME NEW u \in Users, Mismatch(u) PROVE Typed'
  BY <1>3 DEF Mismatch
<1>4. ASSUME NEW u \in Users, NeedDetector(u) PROVE Typed'
  BY <1>4 DEF NeedDetector
<1>5. ASSUME NEW u \in Users, Register(u) PROVE Typed'
  <2>1. "service" \in Names /\ Push("service") /\ callbacksMutex = Nobody
        /\ UNCHANGED <<started, callbacksMutex, exit, next, ran>>
    BY <1>5 DEF Register
  <2>2. /\ Looped'
        /\ callbacks' \in Seq(Names) /\ next' \in 1..Len(callbacks') + 1
        /\ \A e \in Exits : exit'[e] = "returned" => callbacks' = <<>>
    BY <2>1, PushKeeps
  <2>3. {started', detector', results', registered'} \subseteq BOOLEAN
    BY <1>5 DEF Register
  <2>4. /\ user' \in [Users -> {"out", "locked", "registering", "detecting"}]
        /\ \A v \in Users : user'[v] # "out" <=> processMutex' = v
    BY <1>5 DEF Register
  <2> QED BY <1>5, <2>2, <2>3, <2>4 DEF Register
<1>6. ASSUME NEW u \in Users, Detect(u) PROVE Typed'
  BY <1>6 DEF Detect
<1>7. ASSUME NEW e \in Exits, CallRun(e) PROVE Typed'
  BY <1>7 DEF CallRun
<1>8. ASSUME NEW e \in Exits, BeginRun(e) PROVE Typed'
  <2>1. CASE started
    BY <1>8, <2>1 DEF BeginRun
  <2>2. CASE ~started
    <3>1. \A d \in Exits : exit[d] # "returned" /\ exit[d] # "looping"
      BY <1>8, <2>2 DEF BeginRun
    <3>2. /\ exit' \in [Exits -> {"out", "called", "looping", "returned"}]
          /\ \A d \in Exits : exit'[d] = "looping" <=> callbacksMutex' = d
          /\ \A d \in Exits : exit'[d] # "returned"
      BY <1>8, <2>2, <3>1 DEF BeginRun
    <3>3. {started', detector', results', registered'} \subseteq BOOLEAN
      BY <1>8, <2>2 DEF BeginRun
    <3> QED BY <1>8, <2>2, <3>2, <3>3 DEF BeginRun
  <2> QED BY <2>1, <2>2
<1>9. ASSUME NEW e \in Exits, RunOther(e) PROVE Typed'
  BY <1>9 DEF RunOther
<1>10. ASSUME NEW e \in Exits, RunService(e) PROVE Typed'
  <2>1. {started', detector', results', registered'} \subseteq BOOLEAN
    BY <1>10 DEF RunService
  <2>2. Looped' /\ next' \in 1..Len(callbacks') + 1
    BY <1>10 DEF RunService
  <2> QED BY <1>10, <2>1, <2>2 DEF RunService
<1>11. ASSUME NEW e \in Exits, EndRun(e) PROVE Typed'
  BY <1>11 DEF EndRun
<1>12. CASE Done \/ UNCHANGED vars
  BY <1>12 DEF Done, vars
<1> QED
  BY <1>1, <1>2, <1>3, <1>4, <1>5, <1>6, <1>7, <1>8, <1>9, <1>10, <1>11, <1>12
     DEF Next, InProcess, InRun

LEMMA TypedInvariant == Safety => []Typed
<1>1. Init => Typed
  <2> SUFFICES ASSUME Init PROVE Typed
    OBVIOUS
  <2> USE ThreadsAssumption, MaxCallsAssumption DEF Init
  <2>1. {started, detector, results, registered} \subseteq BOOLEAN
    OBVIOUS
  <2>2. <<>> \in Seq(Names) /\ Len(<<>>) = 0
    OBVIOUS
  <2>3. Looped
    BY <2>2 DEF Looped
  <2> QED BY <2>1, <2>2, <2>3 DEF Typed, TypeOK, Names
<1> QED
  BY <1>1, TypedStep, PTL DEF Safety

\* The types of Shutdown's variables, and that a mutex is held by the thread whose
\* place in the code says so, are preserved by every step.
THEOREM TypeCorrect == Spec => []TypeOK
BY TypedInvariant, PTL DEF Typed, Spec

\* What the loop has run so far is the beginning of what was accepted.
LEMMA TypedRunsInOrder == Typed => CallbacksRunOnceInOrder
<1> SUFFICES ASSUME Typed PROVE CallbacksRunOnceInOrder
  OBVIOUS
<1> USE DEF Typed, TypeOK, Looped
<1>1. accepted \in Seq(Names) /\ ran \in Seq(Names)
  OBVIOUS
<1>2. Len(ran) <= Len(accepted) /\ \A i \in 1..Len(ran) : ran[i] = accepted[i]
  OBVIOUS
<1>3. SubSeq(ran, 1, Len(ran)) = SubSeq(accepted, 1, Len(ran))
  BY <1>1, <1>2
<1> QED BY <1>2, <1>3 DEF CallbacksRunOnceInOrder, IsPrefix

\* Each callback that was accepted runs once, in the order of registration, and all of
\* them have run when the mutex is released, whoever else calls runShutdownCallbacks.
THEOREM OnceInOrder == Spec => []CallbacksRunOnceInOrder
BY TypedInvariant, TypedRunsInOrder, PTL DEF Spec

-----------------------------------------------------------------------------
\* The places in the list where the service's callback still waits to run.
Pending == {i \in next..Len(callbacks) : callbacks[i] = "service"}

\* What m_shutdownCallbackRegistered is good for: it is set as long as the callback
\* waits, so that nobody registers another one; and whoever has made a detector before
\* the shutdown registers the callback before the mutex is released.
Flagged == /\ Pending # {} => registered
           /\ \A i, j \in Pending : i = j
           /\ \A u \in Users : user[u] = "registering" => ~registered
           /\ ~started /\ registered => Pending # {}
           /\ ~started /\ detector => registered \/ \E u \in Users : user[u] = "registering"

LEMMA FlaggedStep == Typed /\ Flagged /\ [Next]_vars => Flagged'
<1> SUFFICES ASSUME Typed, Flagged, [Next]_vars PROVE Flagged'
  OBVIOUS
<1> USE ThreadsAssumption, OthersAssumption
    DEF Typed, TypeOK, Looped, Flagged, queueVars, serviceVars, exitVars
<1>1. ASSUME NEW c \in Others, RegisterOther(c) PROVE Flagged'
  <2>1. Pending' = Pending
    BY <1>1 DEF RegisterOther, Push, Pending
  <2> QED BY <1>1, <2>1 DEF RegisterOther
<1>2. ASSUME UNCHANGED <<next, callbacks>> PROVE Pending' = Pending
  BY <1>2 DEF Pending
<1>3. ASSUME NEW u \in Users, Process(u) PROVE Flagged'
  BY <1>2, <1>3 DEF Process
<1>4. ASSUME NEW u \in Users, Mismatch(u) PROVE Flagged'
  BY <1>2, <1>4 DEF Mismatch
<1>5. ASSUME NEW u \in Users, NeedDetector(u) PROVE Flagged'
  BY <1>2, <1>5 DEF NeedDetector
<1>6. ASSUME NEW u \in Users, Register(u) PROVE Flagged'
  <2>1. CASE started
    BY <1>2, <1>6, <2>1 DEF Register, Push
  <2>2. CASE ~started
    <3>1. Pending = {} /\ next' = 1 /\ callbacks' = Append(callbacks, "service")
      BY <1>6, <2>2 DEF Register, Push
    <3>2. Pending' = {Len(callbacks) + 1}
      <4> DEFINE n == Len(callbacks) + 1
      <4>1. /\ Len(callbacks') = n /\ n \in Nat \ {0} /\ callbacks'[n] = "service"
            /\ \A i \in 1..Len(callbacks) : callbacks'[i] = callbacks[i]
        BY <3>1, AppendProperties DEF Names
      <4>2. next = 1 /\ \A i \in 1..Len(callbacks) : callbacks[i] # "service"
        BY <2>2, <3>1 DEF Pending
      <4>3. \A i \in 1..n : callbacks'[i] = "service" <=> i = n
        BY <4>1, <4>2
      <4> HIDE DEF n
      <4>4. Pending' = {n}
        BY <3>1, <4>1, <4>3 DEF Pending
      <4> QED BY <4>4 DEF n
    <3> QED BY <1>6, <2>2, <3>2 DEF Register
  <2> QED BY <2>1, <2>2
<1>7. ASSUME NEW u \in Users, Detect(u) PROVE Flagged'
  BY <1>2, <1>7 DEF Detect
<1>8. ASSUME NEW e \in Exits, CallRun(e) PROVE Flagged'
  BY <1>2, <1>8 DEF CallRun
<1>9. ASSUME NEW e \in Exits, BeginRun(e) PROVE Flagged'
  BY <1>2, <1>9 DEF BeginRun
<1>10. ASSUME NEW e \in Exits, RunOther(e) PROVE Flagged'
  <2>1. started
    BY <1>10 DEF RunOther
  <2>2. Pending' = Pending
    BY <1>10 DEF RunOther, Pending
  <2> QED BY <1>10, <2>1, <2>2 DEF RunOther
<1>11. ASSUME NEW e \in Exits, RunService(e) PROVE Flagged'
  <2>1. started
    BY <1>11 DEF RunService
  <2>2. next \in Pending
    BY <1>11 DEF RunService, Pending
  <2>3. Pending' = {}
    BY <1>11, <2>2 DEF RunService, Pending
  <2> QED BY <1>11, <2>1, <2>3 DEF RunService
<1>12. ASSUME NEW e \in Exits, EndRun(e) PROVE Flagged'
  <2>1. started /\ Pending' = {}
    BY <1>12 DEF EndRun, Pending
  <2> QED BY <1>12, <2>1 DEF EndRun
<1>13. CASE Done \/ UNCHANGED vars
  BY <1>2, <1>13 DEF Done, vars
<1> QED
  BY <1>1, <1>3, <1>4, <1>5, <1>6, <1>7, <1>8, <1>9, <1>10, <1>11, <1>12, <1>13
     DEF Next, InProcess, InRun

LEMMA FlaggedInvariant == Safety => []Flagged
<1>1. Init => Flagged
  BY DEF Init, Flagged, Pending
<1> QED
  BY <1>1, FlaggedStep, TypedInvariant, PTL DEF Safety

\* Two threads never wait for each other's mutex: while the service's callback waits to
\* run, m_shutdownCallbackRegistered keeps the others from registering.
THEOREM NoDeadlock == Spec => []NoCircularWait
<1>1. Typed /\ Flagged => NoCircularWait
  BY DEF Typed, TypeOK, Flagged, Pending, NoCircularWait
<1> QED BY <1>1, TypedInvariant, FlaggedInvariant, PTL DEF Spec

\* A registered flag before the shutdown means that the callback is in the queue.
LEMMA FlaggedCovers == Typed /\ Flagged => DetectorCovered
<1> SUFFICES ASSUME Typed, Flagged, ~started
             PROVE  /\ detector /\ processMutex = Nobody => "service" \in Range(callbacks)
                    /\ Cardinality({i \in 1..Len(callbacks) : callbacks[i] = "service"}) <= 1
  BY DEF DetectorCovered
<1>1. Pending = {i \in 1..Len(callbacks) : callbacks[i] = "service"}
  BY DEF Typed, Looped, Pending
<1>2. ASSUME detector, processMutex = Nobody PROVE "service" \in Range(callbacks)
  <2>1. \A u \in Users : user[u] # "registering"
    BY <1>2, ThreadsAssumption DEF Typed, TypeOK
  <2>2. PICK i \in 1..Len(callbacks) : callbacks[i] = "service"
    BY <1>1, <1>2, <2>1 DEF Flagged
  <2> QED BY <2>2 DEF Range, Typed, TypeOK
<1>3. Cardinality(Pending) <= 1
  <2>1. CASE Pending = {}
    BY <2>1, FS_EmptySet
  <2>2. CASE Pending # {}
    <3>1. PICK i \in Pending : Pending = {i}
      BY <2>2 DEF Flagged
    <3> QED BY <3>1, FS_Singleton
  <2> QED BY <2>1, <2>2
<1> QED BY <1>1, <1>2, <1>3

\* Until the shutdown begins, a detector that nobody works with has its callback in the
\* queue, and has it once.
THEOREM Covered == Spec => []DetectorCovered
BY TypedInvariant, FlaggedInvariant, FlaggedCovers, PTL DEF Spec

-----------------------------------------------------------------------------
(* IslandDetector *)

\* The two arrays are permutations of the indices below the capacity, each the inverse of
\* the other, and the size is no more than that.
Permutation(s) ==
  /\ s.capacity \in Nat /\ s.size \in Nat /\ s.size <= s.capacity
  /\ s.indices \in [0..s.capacity-1 -> 0..s.capacity-1]
  /\ s.ranks \in [0..s.capacity-1 -> 0..s.capacity-1]
  /\ \A i \in 0..s.capacity-1 : s.indices[s.ranks[i]] = i /\ s.ranks[s.indices[i]] = i

LEMMA MembersByRank ==
  ASSUME NEW s, Permutation(s)
  PROVE  /\ Members(s) \subseteq 0..s.capacity-1
         /\ \A i \in 0..s.capacity-1 : i \in Members(s) <=> s.ranks[i] < s.size
<1>1. ASSUME NEW i \in 0..s.capacity-1, s.ranks[i] < s.size PROVE i \in Members(s)
  <2>1. s.ranks[i] \in 0..s.size-1 /\ s.indices[s.ranks[i]] = i
    BY <1>1 DEF Permutation
  <2> QED BY <2>1 DEF Members
<1>2. ASSUME NEW i \in Members(s) PROVE i \in 0..s.capacity-1 /\ s.ranks[i] < s.size
  <2>1. PICK pos \in 0..s.size-1 : i = s.indices[pos]
    BY <1>2 DEF Members
  <2>2. pos \in 0..s.capacity-1 /\ pos < s.size
    BY DEF Permutation
  <2> QED BY <2>1, <2>2 DEF Permutation
<1> QED BY <1>1, <1>2

LEMMA RoomKeeps ==
  ASSUME NEW s, Permutation(s)
  PROVE  /\ Permutation(Room(s)) /\ Room(s).size = s.size
         /\ s.size < Room(s).capacity /\ s.capacity <= Room(s).capacity
         /\ \A i \in 0..s.capacity-1 : Room(s).indices[i] = s.indices[i]
<1>1. CASE s.size >= s.capacity
  <2> DEFINE c == s.capacity
             r == Room(s)
  <2>1. /\ c \in Nat /\ s.size = c /\ c + 1 \in Nat /\ c + 1 - 1 = c
        /\ \A i \in 0..c : i \in 0..c-1 \/ i = c
        /\ \A i \in 0..c-1 : i \in 0..c /\ i < c
        /\ c \in 0..c /\ ~(c < c)
    BY <1>1 DEF Permutation
  <2>2. /\ r.indices = Continued(s.indices, c, c + 1) /\ r.ranks = Continued(s.ranks, c, c + 1)
        /\ r.capacity = c + 1 /\ r.size = s.size
    BY <1>1, <2>1 DEF Room, Reserve
  <2>3. /\ s.indices \in [0..c-1 -> 0..c-1] /\ s.ranks \in [0..c-1 -> 0..c-1]
        /\ \A i \in 0..c-1 : s.indices[s.ranks[i]] = i /\ s.ranks[s.indices[i]] = i
    BY DEF Permutation
  <2> HIDE DEF c, r
  <2>4. /\ r.indices = [i \in 0..c |-> IF i < c THEN s.indices[i] ELSE i]
        /\ r.ranks = [i \in 0..c |-> IF i < c THEN s.ranks[i] ELSE i]
    BY <2>1, <2>2 DEF Continued
  <2>5. /\ \A i \in 0..c-1 : r.indices[i] = s.indices[i] /\ r.ranks[i] = s.ranks[i]
        /\ r.indices[c] = c /\ r.ranks[c] = c
    BY <2>1, <2>4
  <2>6. r.indices \in [0..c -> 0..c] /\ r.ranks \in [0..c -> 0..c]
    <3>1. ASSUME NEW i \in 0..c PROVE r.indices[i] \in 0..c /\ r.ranks[i] \in 0..c
      BY <2>1, <2>3, <2>5
    <3> QED BY <2>4, <3>1
  <2>7. \A i \in 0..c : r.indices[r.ranks[i]] = i /\ r.ranks[r.indices[i]] = i
    <3>1. ASSUME NEW i \in 0..c-1 PROVE r.indices[r.ranks[i]] = i /\ r.ranks[r.indices[i]] = i
      <4>1. s.indices[i] \in 0..c-1 /\ s.ranks[i] \in 0..c-1
        BY <2>3
      <4> QED BY <2>3, <2>5, <4>1
    <3> QED BY <2>1, <2>5, <3>1
  <2>8. Permutation(r)
    <3>1. r.capacity \in Nat /\ r.size \in Nat /\ r.size <= r.capacity /\ 0..r.capacity-1 = 0..c
      BY <2>1, <2>2
    <3> QED BY <2>6, <2>7, <3>1 DEF Permutation
  <2> QED BY <2>1, <2>2, <2>5, <2>8 DEF c, r
<1>2. CASE ~(s.size >= s.capacity)
  BY <1>2 DEF Room, Permutation
<1> QED BY <1>1, <1>2

\* insertUnique hands out an index that was not a member.
LEMMA UniqueIsNew ==
  ASSUME NEW s, Permutation(s)
  PROVE  /\ Permutation(InsertUnique(s))
         /\ Unique(s) \notin Members(s)
         /\ Members(InsertUnique(s)) = Members(s) \cup {Unique(s)}
         /\ InsertUnique(s).capacity >= s.capacity
<1> DEFINE r == Room(s)
           t == InsertUnique(s)
<1>1. /\ Permutation(r) /\ r.size = s.size /\ s.size < r.capacity /\ s.capacity <= r.capacity
      /\ \A i \in 0..s.capacity-1 : r.indices[i] = s.indices[i]
  BY RoomKeeps
<1>2. /\ t.indices = r.indices /\ t.ranks = r.ranks /\ t.capacity = r.capacity
      /\ t.size = s.size + 1
  BY DEF InsertUnique, Resized
<1>3. Permutation(t) /\ t.capacity >= s.capacity
  BY <1>1, <1>2 DEF Permutation
<1>4. Members(s) = {r.indices[pos] : pos \in 0..s.size-1}
  <2>1. \A pos \in 0..s.size-1 : r.indices[pos] = s.indices[pos]
    <3>1. \A pos \in 0..s.size-1 : pos \in 0..s.capacity-1
      BY DEF Permutation
    <3> QED BY <1>1, <3>1
  <2> HIDE DEF r
  <2> QED BY <2>1 DEF Members
<1>5. Members(t) = Members(s) \cup {r.indices[s.size]}
  <2>1. 0..t.size-1 = (0..s.size-1) \cup {s.size}
    BY <1>1, <1>2 DEF Permutation
  <2> QED BY <1>2, <1>4, <2>1 DEF Members
<1>6. r.indices[s.size] \notin Members(s)
  <2> SUFFICES ASSUME NEW pos \in 0..s.size-1, r.indices[pos] = r.indices[s.size] PROVE FALSE
    BY <1>4
  <2> HIDE DEF r
  <2>1. pos \in 0..r.capacity-1 /\ s.size \in 0..r.capacity-1 /\ pos # s.size
    BY <1>1 DEF Permutation
  <2>2. r.ranks[r.indices[pos]] = pos /\ r.ranks[r.indices[s.size]] = s.size
    BY <1>1, <2>1 DEF Permutation
  <2> QED BY <2>1, <2>2
<1> QED BY <1>3, <1>5, <1>6 DEF Unique

\* erase takes exactly one member away, and keeps the arrays permutations.
LEMMA EraseTakesOne ==
  ASSUME NEW s, Permutation(s), NEW index \in Members(s)
  PROVE  /\ Permutation(Erase(s, index))
         /\ Members(Erase(s, index)) = Members(s) \ {index}
         /\ Erase(s, index).capacity = s.capacity
<1> DEFINE last == s.size - 1
           rank == s.ranks[index]
           repl == s.indices[last]
           t == Erase(s, index)
           C == 0..s.capacity-1
<1>1. index \in C /\ rank < s.size
  BY MembersByRank
<1>2. last \in C /\ rank \in C /\ repl \in C /\ rank <= last
  <2>1. rank \in C /\ s.size \in Nat /\ s.capacity \in Nat /\ s.size <= s.capacity
    BY <1>1 DEF Permutation
  <2>2. last \in C /\ rank <= last
    BY <1>1, <2>1
  <2> QED BY <2>1, <2>2 DEF Permutation
<1>3. HasIndex(s, index)
  BY <1>1 DEF HasIndex, Permutation
<1>4. /\ t.indices = [[s.indices EXCEPT ![last] = index] EXCEPT ![rank] = repl]
      /\ t.ranks = [[s.ranks EXCEPT ![index] = last] EXCEPT ![repl] = rank]
      /\ t.capacity = s.capacity /\ t.size = last
  BY <1>3 DEF Erase, SwapWithEnd, Resized
<1>5. /\ \A i \in C : s.indices[s.ranks[i]] = i /\ s.ranks[s.indices[i]] = i
      /\ \A i \in C : s.indices[i] \in C /\ s.ranks[i] \in C
      /\ DOMAIN s.indices = C /\ DOMAIN s.ranks = C /\ last \in Nat /\ s.capacity \in Nat
  BY <1>2 DEF Permutation
<1> HIDE DEF C, rank, last, repl, t
<1>6. /\ t.indices \in [C -> C] /\ t.ranks \in [C -> C]
      /\ \A i \in C : t.indices[i] = IF i = rank THEN repl ELSE IF i = last THEN index
                                     ELSE s.indices[i]
      /\ \A i \in C : t.ranks[i] = IF i = repl THEN rank ELSE IF i = index THEN last
                                   ELSE s.ranks[i]
  <2>1. s.indices \in [C -> C] /\ s.ranks \in [C -> C]
    BY DEF Permutation, C
  <2> QED BY <1>1, <1>2, <1>4, <2>1
<1>0. s.indices[rank] = index /\ s.ranks[repl] = last
  BY <1>1, <1>2, <1>5 DEF rank, repl
<1>7. ASSUME NEW i \in C PROVE t.indices[t.ranks[i]] = i
  <2>1. CASE i = repl
    BY <1>2, <1>6, <2>1
  <2>2. CASE i # repl /\ i = index
    <3>1. t.ranks[i] = last
      BY <1>1, <1>6, <2>2
    <3>2. last # rank
      BY <1>0, <2>2 DEF repl
    <3> QED BY <1>2, <1>6, <2>2, <3>1, <3>2
  <2>3. CASE i # repl /\ i # index
    <3>1. t.ranks[i] = s.ranks[i]
      BY <1>6, <2>3
    <3>2. s.ranks[i] # rank /\ s.ranks[i] # last
      BY <1>0, <1>5, <2>3 DEF repl
    <3> QED BY <1>5, <1>6, <3>1, <3>2
  <2> QED BY <2>1, <2>2, <2>3
<1>8. ASSUME NEW i \in C PROVE t.ranks[t.indices[i]] = i
  <2>1. CASE i = rank
    BY <1>2, <1>6, <2>1
  <2>2. CASE i # rank /\ i = last
    <3>1. t.indices[i] = index
      BY <1>2, <1>6, <2>2
    <3>2. index # repl
      BY <1>0, <2>2 DEF rank
    <3> QED BY <1>1, <1>6, <2>2, <3>1, <3>2
  <2>3. CASE i # rank /\ i # last
    <3>1. t.indices[i] = s.indices[i]
      BY <1>6, <2>3
    <3>2. s.indices[i] # repl /\ s.indices[i] # index
      BY <1>0, <1>5, <2>3 DEF rank
    <3> QED BY <1>5, <1>6, <3>1, <3>2
  <2> QED BY <2>1, <2>2, <2>3
<1>9. Permutation(t)
  <2>1. t.capacity \in Nat /\ t.size \in Nat /\ t.size <= t.capacity /\ C = 0..t.capacity-1
    BY <1>2, <1>4, <1>5 DEF C
  <2> QED BY <1>6, <1>7, <1>8, <2>1 DEF Permutation
<1>10. \A i \in C : t.ranks[i] < last <=> s.ranks[i] < s.size /\ i # index
  <2> SUFFICES ASSUME NEW i \in C PROVE t.ranks[i] < last <=> s.ranks[i] < s.size /\ i # index
    OBVIOUS
  <2>1. s.size \in Nat /\ s.ranks[i] \in Nat /\ last \in Nat /\ rank \in Nat
    BY <1>2, <1>5 DEF Permutation, last, C
  <2>2. CASE i = repl
    <3>1. s.ranks[i] = last
      BY <1>0, <2>2
    <3>2. t.ranks[i] = rank
      BY <1>6, <2>2
    <3>3. i = index <=> rank = last
      BY <1>0, <1>1, <1>2, <1>5, <2>2 DEF rank
    <3> QED BY <1>2, <2>1, <3>1, <3>2, <3>3 DEF last
  <2>3. CASE i # repl /\ i = index
    BY <1>6, <2>1, <2>3
  <2>4. CASE i # repl /\ i # index
    <3>1. t.ranks[i] = s.ranks[i] /\ s.ranks[i] # last
      BY <1>0, <1>2, <1>5, <1>6, <2>4 DEF repl
    <3> QED BY <2>1, <2>4, <3>1 DEF last
  <2> QED BY <2>2, <2>3, <2>4
<1>11. Members(t) = Members(s) \ {index}
  <2>1. /\ Members(t) \subseteq C /\ \A i \in C : i \in Members(t) <=> t.ranks[i] < last
        /\ Members(s) \subseteq C /\ \A i \in C : i \in Members(s) <=> s.ranks[i] < s.size
    BY <1>4, <1>9, MembersByRank DEF C
  <2> QED BY <1>10, <2>1
<1> QED BY <1>4, <1>9, <1>11 DEF t

-------------------------------------------------------------------------------
\* The slots in use.
Used(d) == Members(d.used)

\* Every node is in the island of its slot and in no other; slots that are not in use are
\* empty, and those in use are not.
Disjoint(d) ==
  /\ Permutation(d.used) /\ DOMAIN d.islands = 0..d.used.capacity-1
  /\ \A n \in DOMAIN d.node : d.node[n] \in Used(d) /\ n \in d.islands[d.node[n]]
  /\ \A i \in Used(d) : d.islands[i] # {}
  /\ \A i \in Used(d) : \A n \in d.islands[i] : n \in DOMAIN d.node /\ d.node[n] = i
  /\ \A i \in DOMAIN d.islands : i \notin Used(d) => d.islands[i] = {}

\* The nodes are those of the pairs; the nodes of a pair are in one island; and an island
\* lies in every closed set that has one of its nodes.
Connected(d, A) ==
  /\ DOMAIN d.node = Nodes(A)
  /\ \A p \in A : d.node[p[1]] = d.node[p[2]]
  /\ \A i \in Used(d) : \A S \in SUBSET Nodes(A) :
       Closed(S, A) /\ d.islands[i] \cap S # {} => d.islands[i] \subseteq S

\* The islands of such a detector are the components.
LEMMA ConnectedIslands ==
  ASSUME NEW d, NEW A, Disjoint(d), Connected(d, A)
  PROVE  Islands(d) = Components(A)
<1>1. Islands(d) = {d.islands[i] : i \in Used(d)}
  BY DEF Islands, Island, IslandCount, Member, Used, Members
<1>2. ASSUME NEW n \in Nodes(A)
      PROVE  d.node[n] \in Used(d) /\ d.islands[d.node[n]] = Component(n, A)
  <2> DEFINE i == d.node[n]
             I == d.islands[i]
  <2>1. i \in Used(d) /\ n \in I
    BY DEF Disjoint, Connected
  <2>2. I \subseteq Nodes(A)
    BY <2>1 DEF Disjoint, Connected
  <2>3. Closed(I, A)
    <3> SUFFICES ASSUME NEW p \in A PROVE p[1] \in I <=> p[2] \in I
      BY DEF Closed
    <3>1. p[1] \in DOMAIN d.node /\ p[2] \in DOMAIN d.node /\ d.node[p[1]] = d.node[p[2]]
      BY DEF Connected, Nodes
    <3> QED BY <2>1, <3>1 DEF Disjoint
  <2>4. Component(n, A) \subseteq I
    BY <2>1, <2>2, <2>3 DEF Component
  <2>5. I \subseteq Component(n, A)
    <3> SUFFICES ASSUME NEW m \in I, NEW S \in SUBSET Nodes(A), Closed(S, A), n \in S
                 PROVE  m \in S
      BY <2>2 DEF Component
    <3> QED BY <2>1 DEF Connected
  <2> QED BY <2>1, <2>4, <2>5
<1>3. ASSUME NEW i \in Used(d) PROVE \E n \in Nodes(A) : d.node[n] = i
  <2>1. PICK n : n \in d.islands[i]
    BY DEF Disjoint
  <2> QED BY <2>1 DEF Disjoint, Connected
<1>4. {d.islands[i] : i \in Used(d)} = {Component(n, A) : n \in Nodes(A)}
  BY <1>2, <1>3
<1> QED BY <1>1, <1>4 DEF Components

\* Pairs are added to the nodes; a set that is closed under more pairs is closed, within
\* the old nodes, under the old ones.
LEMMA MorePairs ==
  ASSUME NEW A, NEW pair
  PROVE  /\ Nodes(A \cup {pair}) = Nodes(A) \cup {pair[1], pair[2]}
         /\ \A S \in SUBSET Nodes(A \cup {pair}) : Closed(S, A \cup {pair}) =>
              /\ Closed(S \cap Nodes(A), A) /\ S \cap Nodes(A) \in SUBSET Nodes(A)
              /\ pair[1] \in S <=> pair[2] \in S
<1>1. Nodes(A \cup {pair}) = Nodes(A) \cup {pair[1], pair[2]}
  BY DEF Nodes
<1>2. \A p \in A : p[1] \in Nodes(A) /\ p[2] \in Nodes(A)
  BY DEF Nodes
<1> QED BY <1>1, <1>2 DEF Closed

\* A new slot is empty and is the only one in use that was not.
LEMMA CreateKeeps ==
  ASSUME NEW d, Disjoint(d)
  PROVE  LET c == CreateIsland(d)
             slot == NewSlot(d)
         IN  /\ Permutation(c.used) /\ DOMAIN c.islands = 0..c.used.capacity-1
             /\ c.node = d.node
             /\ slot \notin Used(d) /\ Used(c) = Used(d) \cup {slot}
             /\ slot \in DOMAIN c.islands /\ c.islands[slot] = {}
             /\ \A i \in DOMAIN c.islands : i \notin Used(d) => c.islands[i] = {}
             /\ \A i \in Used(d) : i \in DOMAIN c.islands /\ c.islands[i] = d.islands[i]
<1> DEFINE c == CreateIsland(d)
           slot == NewSlot(d)
<1>1. /\ Permutation(InsertUnique(d.used)) /\ slot \notin Used(d)
      /\ Members(InsertUnique(d.used)) = Used(d) \cup {slot}
      /\ InsertUnique(d.used).capacity >= d.used.capacity
  BY UniqueIsNew DEF Disjoint, NewSlot, Used
<1>2. /\ c.used = InsertUnique(d.used) /\ c.node = d.node
      /\ c.islands = [i \in 0..c.used.capacity-1 |->
                        IF i \in DOMAIN d.islands THEN d.islands[i] ELSE {}]
  BY DEF CreateIsland
<1>3. Used(c) \subseteq DOMAIN c.islands /\ Used(d) \subseteq DOMAIN d.islands
  BY <1>1, <1>2, MembersByRank DEF Disjoint, Used
<1>4. Used(c) = Used(d) \cup {slot}
  BY <1>1, <1>2 DEF Used
<1>5. \A i \in DOMAIN c.islands : i \notin Used(d) => c.islands[i] = {}
  BY <1>2 DEF Disjoint
<1> QED BY <1>1, <1>2, <1>3, <1>4, <1>5

\* A set that is closed under one pair more has all of an old island of which it has a node.
LEMMA OldIslands ==
  ASSUME NEW d, NEW A, NEW pair, Disjoint(d), Connected(d, A),
         NEW i \in Used(d), NEW S \in SUBSET Nodes(A \cup {pair}), Closed(S, A \cup {pair}),
         d.islands[i] \cap S # {}
  PROVE  d.islands[i] \subseteq S
<1>1. Closed(S \cap Nodes(A), A) /\ S \cap Nodes(A) \in SUBSET Nodes(A)
  BY MorePairs
<1>2. d.islands[i] \subseteq Nodes(A)
  BY DEF Disjoint, Connected
<1>3. d.islands[i] \cap (S \cap Nodes(A)) # {}
  BY <1>2
<1>4. d.islands[i] \subseteq S \cap Nodes(A)
  BY <1>1, <1>3 DEF Connected
<1> QED BY <1>4

\* A new island of both nodes.
LEMMA AddNew ==
  ASSUME NEW d, NEW A, NEW pair, Disjoint(d), Connected(d, A),
         pair[1] \notin DOMAIN d.node, pair[2] \notin DOMAIN d.node
  PROVE  LET t == Put(CreateIsland(d), NewSlot(d), {pair[1], pair[2]})
         IN  Disjoint(t) /\ Connected(t, A \cup {pair})
<1> DEFINE c == CreateIsland(d)
           slot == NewSlot(d)
           both == {pair[1], pair[2]}
           t == Put(c, slot, both)
<1>1. /\ Permutation(c.used) /\ DOMAIN c.islands = 0..c.used.capacity-1 /\ c.node = d.node
      /\ slot \notin Used(d) /\ Used(c) = Used(d) \cup {slot}
      /\ slot \in DOMAIN c.islands /\ c.islands[slot] = {}
      /\ \A i \in DOMAIN c.islands : i \notin Used(d) => c.islands[i] = {}
      /\ \A i \in Used(d) : i \in DOMAIN c.islands /\ c.islands[i] = d.islands[i]
  BY CreateKeeps
<1> HIDE DEF c, slot
<1>2. /\ t.used = c.used /\ Used(t) = Used(d) \cup {slot}
      /\ DOMAIN t.islands = DOMAIN c.islands
      /\ t.islands[slot] = both
      /\ \A i \in DOMAIN c.islands : i # slot => t.islands[i] = c.islands[i]
      /\ DOMAIN t.node = DOMAIN d.node \cup both
      /\ \A n \in both : t.node[n] = slot
      /\ \A n \in DOMAIN d.node : t.node[n] = d.node[n]
  BY <1>1 DEF Put, Used
<1> HIDE DEF t
<1>3. \A i \in Used(d) : t.islands[i] = d.islands[i]
  BY <1>1, <1>2
<1>4. Disjoint(t)
  <2>1. \A n \in DOMAIN t.node : t.node[n] \in Used(t) /\ n \in t.islands[t.node[n]]
    BY <1>2, <1>3 DEF Disjoint
  <2>2. \A i \in Used(t) : t.islands[i] # {}
    BY <1>2, <1>3 DEF Disjoint
  <2>3. \A i \in Used(t) : \A n \in t.islands[i] : n \in DOMAIN t.node /\ t.node[n] = i
    BY <1>2, <1>3 DEF Disjoint
  <2>4. \A i \in DOMAIN t.islands : i \notin Used(t) => t.islands[i] = {}
    BY <1>1, <1>2
  <2> QED BY <1>1, <1>2, <2>1, <2>2, <2>3, <2>4 DEF Disjoint
<1>5. Connected(t, A \cup {pair})
  <2>1. DOMAIN t.node = Nodes(A \cup {pair})
    BY <1>2, MorePairs DEF Connected
  <2>2. \A p \in A \cup {pair} : t.node[p[1]] = t.node[p[2]]
    BY <1>2 DEF Connected, Nodes
  <2>3. ASSUME NEW i \in Used(t), NEW S \in SUBSET Nodes(A \cup {pair}),
               Closed(S, A \cup {pair}), t.islands[i] \cap S # {}
        PROVE  t.islands[i] \subseteq S
    <3>1. CASE i = slot
      BY <1>2, <2>3, <3>1, MorePairs
    <3>2. CASE i \in Used(d)
      BY <1>3, <2>3, <3>2, OldIslands
    <3> QED BY <1>2, <3>1, <3>2
  <2> QED BY <2>1, <2>2, <2>3 DEF Connected
<1> QED BY <1>4, <1>5 DEF t, c, slot

\* A new node in the island of the other one.
LEMMA AddOne ==
  ASSUME NEW d, NEW A, NEW pair, Disjoint(d), Connected(d, A), NEW x, NEW y,
         {x, y} = {pair[1], pair[2]}, x \notin DOMAIN d.node, y \in DOMAIN d.node
  PROVE  LET t == Put(d, d.node[y], {x})
         IN  Disjoint(t) /\ Connected(t, A \cup {pair})
<1> DEFINE slot == d.node[y]
           t == Put(d, slot, {x})
<1>1. slot \in Used(d) /\ y \in d.islands[slot] /\ slot \in DOMAIN d.islands
  BY MembersByRank DEF Disjoint, Used
<1> HIDE DEF slot
<1>2. /\ t.used = d.used /\ Used(t) = Used(d)
      /\ DOMAIN t.islands = DOMAIN d.islands
      /\ t.islands[slot] = d.islands[slot] \cup {x}
      /\ \A i \in DOMAIN d.islands : i # slot => t.islands[i] = d.islands[i]
      /\ DOMAIN t.node = DOMAIN d.node \cup {x}
      /\ t.node[x] = slot
      /\ \A n \in DOMAIN d.node : t.node[n] = d.node[n]
  BY <1>1 DEF Put, Used
<1> HIDE DEF t
<1>3. Used(d) \subseteq DOMAIN d.islands
  BY MembersByRank DEF Disjoint, Used
<1>4. Disjoint(t)
  <2>1. \A n \in DOMAIN t.node : t.node[n] \in Used(t) /\ n \in t.islands[t.node[n]]
    BY <1>1, <1>2, <1>3 DEF Disjoint
  <2>2. \A i \in Used(t) : t.islands[i] # {}
    BY <1>1, <1>2, <1>3 DEF Disjoint
  <2>3. \A i \in Used(t) : \A n \in t.islands[i] : n \in DOMAIN t.node /\ t.node[n] = i
    BY <1>1, <1>2, <1>3 DEF Disjoint
  <2>4. \A i \in DOMAIN t.islands : i \notin Used(t) => t.islands[i] = {}
    BY <1>1, <1>2 DEF Disjoint
  <2> QED BY <1>2, <2>1, <2>2, <2>3, <2>4 DEF Disjoint
<1>5. Connected(t, A \cup {pair})
  <2>1. DOMAIN t.node = Nodes(A \cup {pair})
    BY <1>2, MorePairs DEF Connected
  <2>2. ASSUME NEW p \in A \cup {pair} PROVE t.node[p[1]] = t.node[p[2]]
    <3>1. CASE p \in A
      BY <1>2, <3>1 DEF Connected, Nodes
    <3>2. CASE p = pair
      BY <1>2, <3>2 DEF slot
    <3> QED BY <3>1, <3>2
  <2>3. ASSUME NEW i \in Used(t), NEW S \in SUBSET Nodes(A \cup {pair}),
               Closed(S, A \cup {pair}), t.islands[i] \cap S # {}
        PROVE  t.islands[i] \subseteq S
    <3>1. CASE i = slot
      <4>1. x \in S <=> y \in S
        BY <2>3, MorePairs
      <4>2. d.islands[slot] \cap S # {}
        BY <1>1, <1>2, <2>3, <3>1, <4>1
      <4>3. d.islands[slot] \subseteq S
        BY <1>1, <2>3, <4>2, OldIslands
      <4> QED BY <1>1, <1>2, <3>1, <4>1, <4>3
    <3>2. CASE i # slot
      BY <1>2, <1>3, <2>3, <3>2, OldIslands
    <3> QED BY <3>1, <3>2
  <2> QED BY <2>1, <2>2, <2>3 DEF Connected
<1> QED BY <1>4, <1>5 DEF t, slot

\* Two islands that the pair connects become one.
LEMMA AddJoin ==
  ASSUME NEW d, NEW A, NEW pair, Disjoint(d), Connected(d, A), NEW x, NEW y,
         {x, y} = {pair[1], pair[2]}, x \in DOMAIN d.node, y \in DOMAIN d.node,
         d.node[x] # d.node[y]
  PROVE  LET t == Join(d, d.node[x], d.node[y])
         IN  Disjoint(t) /\ Connected(t, A \cup {pair})
<1> DEFINE into == d.node[x]
           from == d.node[y]
           moved == d.islands[from]
           t == Join(d, into, from)
<1>1. /\ into \in Used(d) /\ x \in d.islands[into] /\ from \in Used(d) /\ y \in moved
      /\ into # from /\ Used(d) \subseteq DOMAIN d.islands
  BY MembersByRank DEF Disjoint, Used
<1>2. \A n \in DOMAIN d.node : n \in moved <=> d.node[n] = from
  BY <1>1 DEF Disjoint
<1>3. moved \subseteq DOMAIN d.node
  BY <1>1 DEF Disjoint
<1> HIDE DEF into, from, moved
<1>4. /\ t.used = Erase(d.used, from)
      /\ t.islands = [[d.islands EXCEPT ![into] = @ \cup moved] EXCEPT ![from] = {}]
      /\ t.node = [n \in DOMAIN d.node \cup moved |-> IF n \in moved THEN into ELSE d.node[n]]
  BY DEF Join, Drop, Put, moved
<1> HIDE DEF t
<1>5. /\ Permutation(t.used) /\ Used(t) = Used(d) \ {from} /\ t.used.capacity = d.used.capacity
  BY <1>1, <1>4, EraseTakesOne DEF Disjoint, Used
<1>6. /\ DOMAIN t.islands = DOMAIN d.islands
      /\ t.islands[into] = d.islands[into] \cup moved
      /\ t.islands[from] = {}
      /\ \A i \in DOMAIN d.islands : i # into /\ i # from => t.islands[i] = d.islands[i]
      /\ DOMAIN t.node = DOMAIN d.node
      /\ \A n \in moved : t.node[n] = into
      /\ \A n \in DOMAIN d.node : n \notin moved => t.node[n] = d.node[n]
  BY <1>1, <1>3, <1>4
<1>7. Disjoint(t)
  <2>1. ASSUME NEW n \in DOMAIN t.node
        PROVE  t.node[n] \in Used(t) /\ n \in t.islands[t.node[n]]
    <3>1. CASE n \in moved
      BY <1>1, <1>5, <1>6, <3>1
    <3>2. CASE n \notin moved
      <4>1. /\ t.node[n] = d.node[n] /\ d.node[n] \in Used(d) /\ d.node[n] # from
            /\ n \in d.islands[d.node[n]]
        BY <1>2, <1>6, <2>1, <3>2 DEF Disjoint
      <4> QED BY <1>1, <1>5, <1>6, <4>1
    <3> QED BY <3>1, <3>2
  <2>2. \A i \in Used(t) : t.islands[i] # {}
    BY <1>1, <1>5, <1>6 DEF Disjoint
  <2>3. ASSUME NEW i \in Used(t), NEW n \in t.islands[i]
        PROVE  n \in DOMAIN t.node /\ t.node[n] = i
    <3>1. CASE n \in moved
      <4>1. i = into
        <5>1. d.islands[i] \cap moved = {} \/ i = into
          BY <1>2, <1>3, <1>5 DEF Disjoint
        <5> QED BY <1>1, <1>5, <1>6, <3>1, <5>1
      <4> QED BY <1>3, <1>6, <3>1, <4>1
    <3>2. CASE n \notin moved
      <4>1. n \in d.islands[i]
        BY <1>1, <1>5, <1>6, <3>2
      <4> QED BY <1>5, <1>6, <3>2, <4>1 DEF Disjoint
    <3> QED BY <3>1, <3>2
  <2>4. \A i \in DOMAIN t.islands : i \notin Used(t) => t.islands[i] = {}
    BY <1>1, <1>5, <1>6 DEF Disjoint
  <2> QED BY <1>5, <1>6, <2>1, <2>2, <2>3, <2>4 DEF Disjoint
<1>8. Connected(t, A \cup {pair})
  <2>1. DOMAIN t.node = Nodes(A \cup {pair})
    <3>1. Nodes(A \cup {pair}) = Nodes(A) \cup {x, y} /\ DOMAIN d.node = Nodes(A)
      BY MorePairs DEF Connected
    <3> QED BY <1>6, <3>1
  <2>2. ASSUME NEW p \in A \cup {pair} PROVE t.node[p[1]] = t.node[p[2]]
    <3>1. CASE p \in A
      <4>1. p[1] \in DOMAIN d.node /\ p[2] \in DOMAIN d.node /\ d.node[p[1]] = d.node[p[2]]
        BY <3>1 DEF Connected, Nodes
      <4> QED BY <1>2, <1>6, <4>1
    <3>2. CASE p = pair
      <4>1. t.node[x] = into /\ t.node[y] = into
        BY <1>1, <1>2, <1>6 DEF into, from
      <4> QED BY <3>2, <4>1
    <3> QED BY <3>1, <3>2
  <2>3. ASSUME NEW i \in Used(t), NEW S \in SUBSET Nodes(A \cup {pair}),
               Closed(S, A \cup {pair}), t.islands[i] \cap S # {}
        PROVE  t.islands[i] \subseteq S
    <3>1. CASE i = into
      <4>1. x \in S <=> y \in S
        BY <2>3, MorePairs
      <4>2. d.islands[into] \cap S # {} => d.islands[into] \subseteq S
        BY <1>1, <2>3, OldIslands
      <4>3. moved \cap S # {} => moved \subseteq S
        BY <1>1, <2>3, OldIslands DEF moved
      <4> QED BY <1>1, <1>6, <2>3, <3>1, <4>1, <4>2, <4>3
    <3>2. CASE i # into
      BY <1>1, <1>5, <1>6, <2>3, <3>2, OldIslands
    <3> QED BY <3>1, <3>2
  <2> QED BY <2>1, <2>2, <2>3 DEF Connected
<1> QED BY <1>7, <1>8 DEF t, into, from

\* addPair keeps all of this, whichever of its cases applies.
LEMMA AddPairKeeps ==
  ASSUME NEW d, NEW A, NEW pair, Disjoint(d), Connected(d, A)
  PROVE  LET t == AddPair(d, pair[1], pair[2])
         IN  Disjoint(t) /\ Connected(t, A \cup {pair})
<1> DEFINE x == pair[1]
           y == pair[2]
           t == AddPair(d, x, y)
<1> SUFFICES Disjoint(t) /\ Connected(t, A \cup {pair})
  OBVIOUS
<1>0. {x, y} = {pair[1], pair[2]} /\ {y, x} = {pair[1], pair[2]}
  OBVIOUS
<1>1. CASE x \notin DOMAIN d.node /\ y \notin DOMAIN d.node
  <2>1. t = Put(CreateIsland(d), NewSlot(d), {x, y})
    BY <1>1 DEF AddPair
  <2> QED BY <1>1, <2>1, AddNew
<1>2. CASE x \notin DOMAIN d.node /\ y \in DOMAIN d.node
  <2>1. t = Put(d, d.node[y], {x})
    BY <1>2 DEF AddPair
  <2> HIDE DEF t, x, y
  <2> QED BY <1>0, <1>2, <2>1, AddOne
<1>3. CASE x \in DOMAIN d.node /\ y \notin DOMAIN d.node
  <2>1. t = Put(d, d.node[x], {y})
    BY <1>3 DEF AddPair
  <2> HIDE DEF t, x, y
  <2> QED BY <1>0, <1>3, <2>1, AddOne
<1>4. CASE x \in DOMAIN d.node /\ y \in DOMAIN d.node
  <2>1. CASE d.node[x] = d.node[y]
    <3>1. t = d
      BY <1>4, <2>1 DEF AddPair
    <3>2. Nodes(A \cup {pair}) = Nodes(A)
      BY <1>4, MorePairs DEF Connected
    <3>3. \A p \in A \cup {pair} : d.node[p[1]] = d.node[p[2]]
      BY <2>1 DEF Connected
    <3>4. \A i \in Used(d) : \A S \in SUBSET Nodes(A \cup {pair}) :
            Closed(S, A \cup {pair}) /\ d.islands[i] \cap S # {} => d.islands[i] \subseteq S
      BY OldIslands
    <3>5. Connected(d, A \cup {pair})
      BY <3>2, <3>3, <3>4 DEF Connected
    <3> QED BY <3>1, <3>5
  <2>2. CASE d.node[x] # d.node[y]
    <3>1. t = Join(d, d.node[x], d.node[y]) \/ t = Join(d, d.node[y], d.node[x])
      BY <1>4, <2>2 DEF AddPair, Merge
    <3> HIDE DEF t, x, y
    <3>2. CASE t = Join(d, d.node[x], d.node[y])
      BY <1>0, <1>4, <2>2, <3>2, AddJoin
    <3>3. CASE t = Join(d, d.node[y], d.node[x])
      BY <1>0, <1>4, <2>2, <3>3, AddJoin
    <3> QED BY <3>1, <3>2, <3>3
  <2> QED BY <2>1, <2>2
<1> QED BY <1>1, <1>2, <1>3, <1>4

LEMMA NoIslandsYet == Disjoint(NoIslands) /\ Connected(NoIslands, {})
<1>1. /\ NoIndices.capacity = 0 /\ NoIndices.size = 0 /\ DOMAIN NoIndices.indices = {}
      /\ NoIndices.indices = [i \in {} |-> i] /\ NoIndices.ranks = [i \in {} |-> i]
  BY DEF NoIndices
<1>2. 0..NoIndices.capacity-1 = {} /\ 0..NoIndices.size-1 = {}
  BY <1>1
<1>3. Permutation(NoIndices) /\ Members(NoIndices) = {}
  BY <1>1, <1>2 DEF Permutation, Members
<1>4. /\ NoIslands.used = NoIndices /\ DOMAIN NoIslands.islands = {}
      /\ DOMAIN NoIslands.node = {}
  BY DEF NoIslands
<1>5. Nodes({}) = {}
  BY DEF Nodes
<1> QED BY <1>2, <1>3, <1>4, <1>5 DEF Disjoint, Connected, Used

-------------------------------------------------------------------------------
\* The invariant: every execution has a sound detector for the pairs it was given.
Sound == /\ DOMAIN island = Users /\ DOMAIN added = Users
         /\ \A u \in Users : Disjoint(island[u]) /\ Connected(island[u], added[u])

LEMMA SoundStep == Sound /\ [OpNext]_allVars => Sound'
<1> SUFFICES ASSUME Sound, [OpNext]_allVars PROVE Sound'
  OBVIOUS
<1>1. CASE UNCHANGED <<island, added>>
  BY <1>1 DEF Sound
<1>2. ASSUME NEW u \in Users, Add(u) PROVE Sound'
  <2> DEFINE pair == Head(work[u].pairs)
  <2>1. /\ island' = [island EXCEPT ![u] = AddPair(island[u], pair[1], pair[2])]
        /\ added' = [added EXCEPT ![u] = added[u] \cup {pair}]
    BY <1>2 DEF Add
  <2> HIDE DEF pair
  <2>2. /\ Disjoint(AddPair(island[u], pair[1], pair[2]))
        /\ Connected(AddPair(island[u], pair[1], pair[2]), added[u] \cup {pair})
    BY AddPairKeeps DEF Sound
  <2> QED BY <2>1, <2>2 DEF Sound
<1>3. ASSUME NEW u \in Users, Finish(u) PROVE Sound'
  BY <1>3, NoIslandsYet DEF Finish, Sound
<1> QED
  BY <1>1, <1>2, <1>3
     DEF OpNext, InOperation, InShutdown, Start, Mismatched, Preparing, Detected, ReadPairs,
         Group, NameMesh, ShutdownService, opVars, allVars

\* The islands of every execution are the connected components of the pairs it was given,
\* for any order of the pairs and any way in which slots are given up and used again.
THEOREM IslandsCorrect == OpSpec => []IslandsAreComponents
<1>1. OpInit => Sound
  BY NoIslandsYet DEF OpInit, Sound
<1>2. Sound => IslandsAreComponents
  BY ConnectedIslands DEF Sound, IslandsAreComponents
<1> QED BY <1>1, <1>2, SoundStep, PTL DEF OpSpec

-------------------------------------------------------------------------------
\* The operation uses the service as Shutdown says it may: what it does in between is a
\* stutter there.
THEOREM UsesService == OpSpec => Safety
<1>1. OpInit => Init
  BY DEF OpInit
<1>2. [OpNext]_allVars => [Next]_vars
  BY DEF OpNext, InOperation, InShutdown, Start, Mismatched, Preparing, Detected, ReadPairs,
         Add, Group, NameMesh, Finish, ShutdownService, allVars, Next, InProcess, InRun
<1> QED BY <1>1, <1>2, PTL DEF OpSpec, Safety

\* So its executions leave the shutdown callbacks as they should be: each run once and in
\* order, and the detector covered by one until the shutdown begins.
THEOREM OperationCovered == OpSpec => []CallbacksRunOnceInOrder /\ []DetectorCovered
BY UsesService, TypedInvariant, FlaggedInvariant, TypedRunsInOrder, FlaggedCovers, PTL

-------------------------------------------------------------------------------
(* What an execution reports *)

\* What a sequence holds with one element more.
LEMMA RangeAppend ==
  ASSUME NEW X, NEW s \in Seq(X), NEW e \in X
  PROVE  Append(s, e) \in Seq(X) /\ Range(Append(s, e)) = Range(s) \cup {e}
<1> DEFINE t == Append(s, e)
           n == Len(s)
<1>1. /\ t \in Seq(X) /\ n \in Nat /\ Len(t) = n + 1 /\ t[n + 1] = e /\ \A i \in 1..n : t[i] = s[i]
      /\ DOMAIN t = 1..n+1 /\ DOMAIN s = 1..n
  BY AppendProperties, LenProperties
<1> HIDE DEF t, n
<1>2. \A i \in 1..n+1 : i \in 1..n \/ i = n + 1
  BY <1>1
<1>3. \A i \in 1..n : i \in 1..n+1
  BY <1>1
<1>4. n + 1 \in 1..n+1
  BY <1>1
<1>5. Range(t) = Range(s) \cup {e}
  BY <1>1, <1>2, <1>3, <1>4 DEF Range
<1> QED BY <1>1, <1>5 DEF t

\* The pairs that overlap are the clashes that are real, in their order.
LEMMA OverlapsAreReal ==
  ASSUME NEW X, NEW clashes \in Seq(X)
  PROVE  /\ OverlapPairs(clashes) \in Seq(X)
         /\ Range(OverlapPairs(clashes)) = {p \in Range(clashes) : Real(p)}
<1> DEFINE N == Len(clashes)
           Keep(kept, p) == IF Real(p) THEN Append(kept, p) ELSE kept
           F == [p \in Seq(X) \X (1..N) |-> Keep(p[1], clashes[p[2]])]
           Goes(f) == f = [S \in SUBSET (1..N) |->
                             IF S = {} THEN <<>> ELSE Keep(f[S \ {Max(S)}], clashes[Max(S)])]
           iter == CHOOSE f : Goes(f)
<1>1. N \in Nat /\ DOMAIN clashes = 1..N /\ \A k \in 1..N : clashes[k] \in X
  BY LenProperties, ElementOfSeq
<1>2. <<>> \in Seq(X) /\ Range(<<>>) = {}
  BY EmptySeq DEF Range
<1>3. F \in [Seq(X) \X (1..N) -> Seq(X)]
  <2>1. ASSUME NEW q \in Seq(X), NEW k \in 1..N PROVE Keep(q, clashes[k]) \in Seq(X)
    BY <1>1, AppendProperties
  <2> QED BY <2>1
<1>4. PICK f : Folding(f, Seq(X), <<>>, N, F)
  <2> HIDE DEF F, N
  <2> QED BY <1>1, <1>2, <1>3, FoldRecursion
<1>5. Goes(f)
  <2>1. ASSUME NEW S \in SUBSET (1..N), S # {}
        PROVE  Max(S) \in 1..N /\ S \ {Max(S)} \in SUBSET (1..N)
    BY <1>1, <2>1, MaxInRange
  <2>2. ASSUME NEW S \in SUBSET (1..N)
        PROVE  f[S] = IF S = {} THEN <<>> ELSE Keep(f[S \ {Max(S)}], clashes[Max(S)])
    BY <1>4, <2>1, <2>2 DEF Folding
  <2> QED BY <1>4, <2>2 DEF Folding
<1>6. Goes(iter)
  <2> HIDE DEF Goes
  <2> QED BY <1>5
<1>7. OverlapPairs(clashes) = iter[1..N]
  BY <1>1 DEF OverlapPairs, FoldLeft, MapThenFoldSet
<1>8. \A S \in SUBSET (1..N) :
        iter[S] = IF S = {} THEN <<>> ELSE Keep(iter[S \ {Max(S)}], clashes[Max(S)])
  <2> HIDE DEF iter
  <2> QED BY <1>6
<1> HIDE DEF iter, Goes, F
<1> DEFINE Upto(k) == {clashes[i] : i \in {j \in 1..k : Real(clashes[j])}}
           T == {k \in 0..N : iter[1..k] \in Seq(X) /\ Range(iter[1..k]) = Upto(k)}
<1>9. 0..N \subseteq T
  <2>1. 0 \in T
    <3>1. 1..0 = {} /\ 0 \in 0..N /\ 1..0 \in SUBSET (1..N)
      BY <1>1
    <3> QED BY <1>2, <1>8, <3>1
  <2>2. ASSUME NEW k \in 0..N-1, k \in T PROVE k + 1 \in T
    <3>1. k + 1 \in Nat \ {0} /\ k + 1 \in 1..N /\ k + 1 \in 0..N /\ (k + 1) - 1 = k
          /\ 1..k+1 \in SUBSET (1..N)
          /\ 1..k+1 = (1..k) \cup {k+1}
      BY <1>1
    <3>2. Max(1..k+1) = k + 1 /\ (1..k+1) \ {k+1} = 1..k /\ 1..k+1 # {}
      BY <3>1, MaxOfRange
    <3>3. iter[1..k] \in Seq(X) /\ Range(iter[1..k]) = Upto(k) /\ clashes[k+1] \in X
      BY <1>1, <2>2, <3>1
    <3>4. iter[1..k+1] = Keep(iter[1..k], clashes[k+1])
      BY <1>8, <3>1, <3>2
    <3>5. iter[1..k+1] \in Seq(X) /\ Range(iter[1..k+1]) = Upto(k+1)
      <4>1. CASE Real(clashes[k+1])
        <5>1. Upto(k+1) = Upto(k) \cup {clashes[k+1]}
          BY <3>1, <4>1
        <5> DEFINE kept == iter[1..k]
                   one == clashes[k+1]
        <5>2. kept \in Seq(X) /\ one \in X /\ Range(kept) = Upto(k) /\ iter[1..k+1] = Append(kept, one)
          BY <3>3, <3>4, <4>1
        <5> HIDE DEF Upto, kept
        <5>3. Append(kept, one) \in Seq(X) /\ Range(Append(kept, one)) = Range(kept) \cup {one}
          BY <5>2, RangeAppend
        <5> QED BY <5>1, <5>2, <5>3
      <4>2. CASE ~Real(clashes[k+1])
        <5>1. Upto(k+1) = Upto(k)
          BY <3>1, <4>2
        <5> QED BY <3>3, <3>4, <4>2, <5>1
      <4> QED BY <4>1, <4>2
    <3> QED BY <3>1, <3>5
  <2> HIDE DEF T
  <2> QED BY <1>1, <2>1, <2>2, InductTo
<1>10. Upto(N) = {p \in Range(clashes) : Real(p)}
  BY <1>1 DEF Range
<1>11. N \in T
  <2>1. N \in 0..N
    BY <1>1
  <2> HIDE DEF T
  <2> QED BY <1>9, <2>1
<1> QED BY <1>7, <1>10, <1>11

\* What the groups of some items are.
Grouped(items) == {{t[3] : t \in {x \in items : x[1] = g}} : g \in {x[1] : x \in items}}
\* The groups of paths that are reported, and those that ought to be.
Reported(named) == {{n[2] : n \in {x \in named : x[1] = g}} : g \in {x[1] : x \in named}}
InStage(stage, groups) == {{<<stage, m>> : m \in meshes} : meshes \in groups}

\* Reporting every item under its group reports the groups.
LEMMA GroupedItems ==
  ASSUME NEW items, NEW stage,
         NEW named, named = {<<t[1], <<stage, t[3]>>>> : t \in items}
  PROVE  /\ Reported(named) = InStage(stage, Grouped(items))
         /\ {<<stage, m>> : m \in UNION Grouped(items)} = {<<stage, t[3]>> : t \in items}
<1> DEFINE Of(g) == {t[3] : t \in {x \in items : x[1] = g}}
           Under(g) == {n[2] : n \in {x \in named : x[1] = g}}
<1>1. {x[1] : x \in named} = {x[1] : x \in items}
  <2>1. ASSUME NEW n \in named PROVE n[1] \in {x[1] : x \in items}
    <3>1. PICK t \in items : n = <<t[1], <<stage, t[3]>>>>
      OBVIOUS
    <3> QED BY <3>1
  <2>2. ASSUME NEW t \in items PROVE t[1] \in {x[1] : x \in named}
    <3> DEFINE n == <<t[1], <<stage, t[3]>>>>
    <3>1. n \in named /\ n[1] = t[1]
      OBVIOUS
    <3> HIDE DEF n
    <3> QED BY <3>1
  <2> QED BY <2>1, <2>2
<1>2. ASSUME NEW g PROVE Under(g) = {<<stage, m>> : m \in Of(g)}
  <2>1. ASSUME NEW n \in named, n[1] = g PROVE n[2] \in {<<stage, m>> : m \in Of(g)}
    <3>1. PICK t \in items : n = <<t[1], <<stage, t[3]>>>>
      OBVIOUS
    <3>2. t[1] = g /\ n[2] = <<stage, t[3]>>
      BY <2>1, <3>1
    <3> QED BY <3>2
  <2>2. ASSUME NEW t \in items, t[1] = g PROVE <<stage, t[3]>> \in Under(g)
    <3> DEFINE n == <<t[1], <<stage, t[3]>>>>
    <3>1. n \in named /\ n[1] = g /\ n[2] = <<stage, t[3]>>
      BY <2>2
    <3> HIDE DEF n
    <3> QED BY <3>1
  <2> QED BY <2>1, <2>2
<1>3. Grouped(items) = {Of(g) : g \in {x[1] : x \in items}}
  BY DEF Grouped
<1> HIDE DEF Of
<1>4. {Under(g) : g \in {x[1] : x \in items}}
        = {{<<stage, m>> : m \in meshes} : meshes \in Grouped(items)}
  <2> DEFINE Paths(meshes) == {<<stage, m>> : m \in meshes}
  <2>1. \A g : Under(g) = Paths(Of(g))
    BY <1>2
  <2> HIDE DEF Under, Paths
  <2>2. {Under(g) : g \in {x[1] : x \in items}} = {Paths(meshes) : meshes \in Grouped(items)}
    BY <1>3, <2>1
  <2> QED BY <2>2 DEF Paths
<1>5. UNION Grouped(items) = {t[3] : t \in items}
  BY <1>3 DEF Of
<1>6. {<<stage, m>> : m \in UNION Grouped(items)} = {<<stage, t[3]>> : t \in items}
  BY <1>5
<1>7. {Under(g) : g \in {x[1] : x \in named}} = InStage(stage, Grouped(items))
  <2> HIDE DEF Under
  <2> QED BY <1>1, <1>4 DEF InStage
<1>8. Reported(named) = {Under(g) : g \in {x[1] : x \in named}}
  BY DEF Reported
<1> QED BY <1>6, <1>7, <1>8

\* The items of the islands are one for each node.
LEMMA IslandItems ==
  ASSUME NEW d, NEW A, Disjoint(d), Connected(d, A)
  PROVE  /\ \A t \in IslandGroups(d) : t[3] \in Nodes(A)
         /\ \A s, t \in IslandGroups(d) : s[3] = t[3] => s = t
         /\ Grouped(IslandGroups(d)) = Components(A)
<1> DEFINE n == IslandCount(d)
           items == IslandGroups(d)
<1>1. \A t \in items : /\ t[1] \in 0..n-1 /\ t[3] \in Island(d, t[1]) /\ t = <<t[1], t[3], t[3]>>
  BY DEF IslandGroups
<1>2. \A g \in 0..n-1 : \A m \in Island(d, g) : <<g, m, m>> \in items
  BY DEF IslandGroups
<1>3. ASSUME NEW g \in 0..n-1
      PROVE  /\ d.used.indices[g] \in Used(d) /\ Island(d, g) # {}
             /\ \A m \in Island(d, g) : m \in Nodes(A) /\ d.node[m] = d.used.indices[g]
             /\ d.used.ranks[d.used.indices[g]] = g
  <2>1. d.used.indices[g] \in Used(d) /\ g \in 0..d.used.capacity-1
    BY DEF Used, Members, IslandCount, Disjoint, Permutation
  <2>2. Island(d, g) = d.islands[d.used.indices[g]]
    BY DEF Island, Member
  <2> QED BY <2>1, <2>2 DEF Disjoint, Permutation, Connected
<1>4. ASSUME NEW s \in items, NEW t \in items, s[3] = t[3] PROVE s = t
  <2>1. d.used.indices[s[1]] = d.used.indices[t[1]]
    BY <1>1, <1>3, <1>4
  <2>2. s[1] = t[1]
    BY <1>1, <1>3, <2>1
  <2> QED BY <1>1, <1>4, <2>2
<1> HIDE DEF items
<1>5. ASSUME NEW g \in 0..n-1 PROVE {t[3] : t \in {x \in items : x[1] = g}} = Island(d, g)
  <2>1. ASSUME NEW m \in Island(d, g) PROVE m \in {t[3] : t \in {x \in items : x[1] = g}}
    <3> DEFINE t == <<g, m, m>>
    <3>1. t \in items /\ t[1] = g /\ t[3] = m
      BY <1>2
    <3> HIDE DEF t
    <3> QED BY <3>1
  <2> QED BY <1>1, <2>1
<1>6. {x[1] : x \in items} = 0..n-1
  <2>1. ASSUME NEW g \in 0..n-1 PROVE g \in {x[1] : x \in items}
    <3>1. PICK m \in Island(d, g) : TRUE
      BY <1>3
    <3> DEFINE t == <<g, m, m>>
    <3>2. t \in items /\ t[1] = g
      BY <1>2
    <3> HIDE DEF t
    <3> QED BY <3>2
  <2> QED BY <1>1, <2>1
<1>7. Grouped(items) = Islands(d)
  <2> DEFINE Of(g) == {t[3] : t \in {x \in items : x[1] = g}}
             heads == 0..n-1
  <2>1. Islands(d) = {Island(d, g) : g \in heads}
    BY DEF Islands
  <2>2. Grouped(items) = {Of(g) : g \in heads}
    BY <1>6 DEF Grouped
  <2>3. \A g \in heads : Of(g) = Island(d, g)
    BY <1>5
  <2> HIDE DEF n, Of, heads
  <2> QED BY <2>1, <2>2, <2>3
<1>8. Islands(d) = Components(A)
  BY ConnectedIslands
<1> QED BY <1>1, <1>3, <1>4, <1>7, <1>8 DEF items

\* The items of pairs are their meshes.
LEMMA PairItems ==
  ASSUME NEW pairs \in Seq(Int \X Int)
  PROVE  /\ \A t \in PairGroups(pairs) : \E p \in Range(pairs) : t[3] \in {p[1], p[2]}
         /\ Grouped(PairGroups(pairs)) = {Range(p) : p \in Range(pairs)}
<1> DEFINE items == PairGroups(pairs)
<1>1. \A t \in items : /\ t[1] \in DOMAIN pairs /\ t[2] \in {1, 2} /\ t[3] = pairs[t[1]][t[2]]
  BY DEF PairGroups
<1>2. \A g \in DOMAIN pairs : \A i \in {1, 2} : <<g, i, pairs[g][i]>> \in items
  BY DEF PairGroups
<1>3. \A g \in DOMAIN pairs : pairs[g] \in Int \X Int
  BY ElementOfSeq, LenProperties
<1>4. ASSUME NEW p \in Int \X Int PROVE Range(p) = {p[1], p[2]}
  <2>1. p = <<p[1], p[2]>> /\ DOMAIN p = {1, 2}
    OBVIOUS
  <2> QED BY <2>1 DEF Range
<1> HIDE DEF items
<1>5. ASSUME NEW g \in DOMAIN pairs PROVE {t[3] : t \in {x \in items : x[1] = g}} = Range(pairs[g])
  <2>1. ASSUME NEW i \in {1, 2} PROVE pairs[g][i] \in {t[3] : t \in {x \in items : x[1] = g}}
    <3> DEFINE t == <<g, i, pairs[g][i]>>
    <3>1. t \in items /\ t[1] = g /\ t[3] = pairs[g][i]
      BY <1>2
    <3> HIDE DEF t
    <3> QED BY <3>1
  <2>2. Range(pairs[g]) = {pairs[g][1], pairs[g][2]}
    BY <1>3, <1>4
  <2>3. \A t \in items : t[1] = g => t[3] \in {pairs[g][1], pairs[g][2]}
    BY <1>1
  <2> QED BY <2>1, <2>2, <2>3
<1>6. {x[1] : x \in items} = DOMAIN pairs
  <2>1. ASSUME NEW g \in DOMAIN pairs PROVE g \in {x[1] : x \in items}
    <3> DEFINE t == <<g, 1, pairs[g][1]>>
    <3>1. t \in items /\ t[1] = g
      BY <1>2
    <3> HIDE DEF t
    <3> QED BY <3>1
  <2> QED BY <1>1, <2>1
<1>7. Grouped(items) = {Range(pairs[g]) : g \in DOMAIN pairs}
  <2> DEFINE Of(g) == {t[3] : t \in {x \in items : x[1] = g}}
  <2>1. Grouped(items) = {Of(g) : g \in DOMAIN pairs}
    BY <1>6 DEF Grouped
  <2>2. \A g \in DOMAIN pairs : Of(g) = Range(pairs[g])
    BY <1>5
  <2> HIDE DEF Of
  <2> QED BY <2>1, <2>2
<1>8. {Range(pairs[g]) : g \in DOMAIN pairs} = {Range(p) : p \in Range(pairs)}
  <2>1. Range(pairs) = {pairs[g] : g \in DOMAIN pairs}
    BY DEF Range
  <2> QED BY <2>1
<1>9. ASSUME NEW t \in items PROVE \E p \in Range(pairs) : t[3] \in {p[1], p[2]}
  <2>1. pairs[t[1]] \in Range(pairs) /\ t[3] \in {pairs[t[1]][1], pairs[t[1]][2]}
    BY <1>1 DEF Range
  <2> QED BY <2>1
<1> QED BY <1>7, <1>8, <1>9 DEF items

\* A sequence without repetitions that gets a new element has none.
LEMMA AppendOnce ==
  ASSUME NEW s, s \in Seq(Range(s)), NEW e
  PROVE  /\ Append(s, e) \in Seq(Range(Append(s, e)))
         /\ Range(Append(s, e)) = Range(s) \cup {e}
         /\ IsInjective(s) /\ e \notin Range(s) => IsInjective(Append(s, e))
<1> DEFINE X == Range(s) \cup {e}
           t == Append(s, e)
           n == Len(s)
<1>1. s \in Seq(X) /\ e \in X /\ n \in Nat
  <2>1. n \in Nat /\ s = [i \in 1..n |-> s[i]] /\ \A i \in 1..n : s[i] \in X
    BY LenProperties, ElementOfSeq
  <2>2. s \in [1..n -> X]
    BY <2>1
  <2> HIDE DEF X, n
  <2> QED BY <2>1, <2>2, SeqDef DEF X
<1> HIDE DEF X
<1>2. t \in Seq(X) /\ Range(t) = Range(s) \cup {e}
  BY <1>1, RangeAppend
<1>3. /\ Len(t) = n + 1 /\ t[n + 1] = e /\ \A i \in 1..n : t[i] = s[i]
      /\ DOMAIN t = 1..n+1 /\ DOMAIN s = 1..n
  BY <1>1, AppendProperties, LenProperties
<1> HIDE DEF t, n
<1>4. ASSUME IsInjective(s), e \notin Range(s) PROVE IsInjective(t)
  <2>1. \A i \in 1..n : s[i] # e /\ \A j \in 1..n : s[i] = s[j] => i = j
    BY <1>3, <1>4 DEF Range, IsInjective
  <2>2. \A i \in 1..n+1 : i \in 1..n \/ i = n + 1
    BY <1>1
  <2> QED BY <1>3, <2>1, <2>2 DEF IsInjective
<1> QED BY <1>2, <1>4 DEF t, X


\* The fields of an execution, and what it has to name.
Shape(w) == w = [at |-> w.at, stage |-> w.stage, clashes |-> w.clashes, pairs |-> w.pairs,
                 todo |-> w.todo, named |-> w.named, listed |-> w.listed, disturbed |-> w.disturbed]
Overlapping(w) == {p \in Range(w.clashes) : Real(p)}
Items(u, w, d) == IF u \in Islanders THEN IslandGroups(d) ELSE PairGroups(OverlapPairs(w.clashes))
PathOf(w, mesh) == <<w.stage, mesh>>

\* The service holds what the execution has found.
Held(w, f) ==
  /\ f.stage = w.stage
  /\ f.meshes \in Nat
  /\ w.clashes \in Seq((-1..f.meshes-1) \X (-1..f.meshes-1))

\* What has been named is what is no longer to do, and each path is listed once.
Naming(u, w, d) ==
  LET told == Items(u, w, d) \ w.todo
  IN  /\ w.todo \subseteq Items(u, w, d)
      /\ w.named = {<<t[1], PathOf(w, t[3])>> : t \in told}
      /\ IsInjective(w.listed)
      /\ Range(w.listed) = {PathOf(w, t[3]) : t \in told}
      /\ w.listed \in Seq(Range(w.listed))

Undisturbed(u, w, d, a, f) ==
  /\ w.at \in {"processed", "adding", "naming"} => Held(w, f)
  /\ w.at = "processed" => f.pairs = OverlapPairs(w.clashes)
  /\ w.at = "adding" => /\ w.pairs \in Seq((-1..f.meshes-1) \X (-1..f.meshes-1))
                        /\ a \cup Range(w.pairs) = Overlapping(w)
  /\ w.at = "naming" => (u \in Islanders => a = Overlapping(w)) /\ Naming(u, w, d)

\* What an execution w of u, with the detector d that was given the pairs a, knows of the
\* service's bookkeeping f.
Telling(u, w, d, a, f) ==
  /\ w.at \in {"idle", "processing", "processed", "adding", "naming"}
  /\ w.at \in {"idle", "processing", "processed"} => a = {}
  /\ w.at = "processing" => w.clashes = <<>>
  /\ w.at # "naming" => w.named = {} /\ w.listed = <<>>
  /\ w.at = "adding" => u \in Islanders
  /\ ~w.disturbed => Undisturbed(u, w, d, a, f)

\* While an execution works in the service nobody else does, and all the others that are
\* under way have been disturbed.
Alone ==
  /\ DOMAIN work = Users
  /\ \A u \in Users : Shape(work[u])
  /\ \A u \in Users : work[u].at = "processing" <=> user[u] # "out"
  /\ \A u, v \in Users : u # v /\ user[v] # "out" /\ work[u].at # "idle" => work[u].disturbed

Reporting == Alone /\ \A u \in Users : Telling(u, work[u], island[u], added[u], found)

\* Of what the service holds, only an execution that is under way and undisturbed knows.
LEMMA TellingElsewhere ==
  ASSUME NEW u, NEW w, NEW d, NEW a, NEW f, NEW g, Telling(u, w, d, a, f),
         w.at \in {"idle", "processing"} \/ w.disturbed
  PROVE  Telling(u, w, d, a, g)
BY DEF Telling, Undisturbed

LEMMA DisturbShape ==
  ASSUME NEW w, Shape(w)
  PROVE  /\ Shape(Disturb(w))
         /\ Disturb(w).at = w.at /\ Disturb(w).named = w.named /\ Disturb(w).listed = w.listed
         /\ Disturb(w).clashes = w.clashes
         /\ w.at # "idle" => Disturb(w).disturbed
<1>1. DOMAIN w = {"at", "stage", "clashes", "pairs", "todo", "named", "listed", "disturbed"}
  BY DEF Shape
<1> DEFINE more == w.disturbed \/ w.at # "idle"
<1>2. Disturb(w) = [at |-> w.at, stage |-> w.stage, clashes |-> w.clashes, pairs |-> w.pairs,
                    todo |-> w.todo, named |-> w.named, listed |-> w.listed, disturbed |-> more]
  BY DEF Shape, Disturb
<1>3. w.at # "idle" => more = TRUE
  OBVIOUS
<1> DEFINE o == Disturb(w)
<1> HIDE DEF more, o
<1>4. /\ Shape(o) /\ o.at = w.at /\ o.named = w.named /\ o.listed = w.listed
      /\ o.clashes = w.clashes /\ o.disturbed = more
  BY <1>2 DEF Shape, o
<1> QED BY <1>3, <1>4 DEF o

LEMMA TellingDisturbed ==
  ASSUME NEW u, NEW w, NEW d, NEW a, NEW f, NEW g, Telling(u, w, d, a, f), Shape(w)
  PROVE  Telling(u, Disturb(w), d, a, g)
<1> DEFINE o == Disturb(w)
<1>1. /\ o.at = w.at /\ o.named = w.named /\ o.listed = w.listed /\ o.clashes = w.clashes
      /\ w.at # "idle" => o.disturbed
  BY DisturbShape
<1> HIDE DEF o
<1>2. ~o.disturbed => Undisturbed(u, o, d, a, g)
  BY <1>1 DEF Undisturbed
<1>3. Telling(u, o, d, a, g)
  BY <1>1, <1>2 DEF Telling
<1> QED BY <1>3 DEF o

\* The items of an execution that is naming: which meshes they have, and their groups.
LEMMA ItemsNamed ==
  ASSUME NEW u, NEW w, NEW d, NEW a, NEW f, Disjoint(d), Connected(d, a), Held(w, f),
         u \in Islanders => a = Overlapping(w)
  PROVE  /\ \A t \in Items(u, w, d) : t[3] \in 0..f.meshes-1
         /\ u \in Islanders => \A s, t \in Items(u, w, d) : s[3] = t[3] => s = t
         /\ Grouped(Items(u, w, d)) =
              IF u \in Islanders THEN Components(Overlapping(w))
              ELSE {Range(p) : p \in Overlapping(w)}
<1> DEFINE X == (-1..f.meshes-1) \X (-1..f.meshes-1)
<1>1. /\ OverlapPairs(w.clashes) \in Seq(X)
      /\ Range(OverlapPairs(w.clashes)) = Overlapping(w)
  <2>1. w.clashes \in Seq(X)
    BY DEF Held
  <2> HIDE DEF X
  <2> QED BY <2>1, OverlapsAreReal DEF Overlapping
<1>2. \A p \in Overlapping(w) : p[1] \in 0..f.meshes-1 /\ p[2] \in 0..f.meshes-1
  <2>1. Overlapping(w) \subseteq X
    <3>1. w.clashes \in Seq(X)
      BY DEF Held
    <3> HIDE DEF X
    <3>2. Range(w.clashes) \subseteq X
      BY <3>1, LenProperties, ElementOfSeq DEF Range
    <3> QED BY <3>2 DEF Overlapping
  <2> QED BY <2>1 DEF Overlapping, Real, Held
<1>3. CASE u \in Islanders
  <2>1. /\ \A t \in IslandGroups(d) : t[3] \in Nodes(a)
        /\ \A s, t \in IslandGroups(d) : s[3] = t[3] => s = t
        /\ Grouped(IslandGroups(d)) = Components(a)
    BY IslandItems
  <2>2. Nodes(a) \subseteq 0..f.meshes-1
    BY <1>2, <1>3 DEF Nodes
  <2> QED BY <1>3, <2>1, <2>2 DEF Items
<1>4. CASE u \notin Islanders
  <2> DEFINE pairs == OverlapPairs(w.clashes)
  <2>1. pairs \in Seq(Int \X Int)
    <3>1. X \subseteq Int \X Int
      BY DEF Held
    <3> HIDE DEF X
    <3>2. Seq(X) \subseteq Seq(Int \X Int)
      <4>1. ASSUME NEW s \in Seq(X) PROVE s \in Seq(Int \X Int)
        <5>1. /\ Len(s) \in Nat /\ s = [i \in 1..Len(s) |-> s[i]]
              /\ \A i \in 1..Len(s) : s[i] \in Int \X Int
          BY <3>1, LenProperties, ElementOfSeq
        <5>2. s \in [1..Len(s) -> Int \X Int]
          BY <5>1
        <5> QED BY <5>1, <5>2, SeqDef
      <4> QED BY <4>1
    <3> QED BY <1>1, <3>2
  <2>2. Range(pairs) = Overlapping(w) /\ Items(u, w, d) = PairGroups(pairs)
    BY <1>1, <1>4 DEF Items
  <2> HIDE DEF pairs
  <2>3. /\ \A t \in PairGroups(pairs) : \E p \in Range(pairs) : t[3] \in {p[1], p[2]}
        /\ Grouped(PairGroups(pairs)) = {Range(p) : p \in Range(pairs)}
    BY <2>1, PairItems
  <2> QED BY <1>2, <1>4, <2>2, <2>3
<1> QED BY <1>3, <1>4

\* Naming the mesh of one item more.
LEMMA NamingOneMore ==
  ASSUME NEW u, NEW w, NEW d, NEW o, NEW one \in w.todo, Naming(u, w, d),
         u \in Islanders => \A s, t \in Items(u, w, d) : s[3] = t[3] => s = t,
         o.stage = w.stage, o.clashes = w.clashes, o.todo = w.todo \ {one},
         o.named = w.named \cup {<<one[1], PathOf(w, one[3])>>},
         o.listed = IF u \in Islanders \/ PathOf(w, one[3]) \notin Range(w.listed)
                    THEN Append(w.listed, PathOf(w, one[3])) ELSE w.listed
  PROVE  Naming(u, o, d)
<1> DEFINE items == Items(u, w, d)
           path == PathOf(w, one[3])
           told == items \ w.todo
           more == items \ o.todo
<1>1. Items(u, o, d) = items /\ \A mesh : PathOf(o, mesh) = PathOf(w, mesh)
  BY DEF Items, PathOf
<1>2. /\ w.todo \subseteq items /\ IsInjective(w.listed) /\ w.listed \in Seq(Range(w.listed))
      /\ w.named = {<<t[1], PathOf(w, t[3])>> : t \in told}
      /\ Range(w.listed) = {PathOf(w, t[3]) : t \in told}
  BY DEF Naming
<1>3. more = told \cup {one} /\ o.todo \subseteq items /\ one \in items
  BY <1>2
<1>4. u \in Islanders => path \notin Range(w.listed)
  <2> SUFFICES ASSUME u \in Islanders, NEW t \in told, PathOf(w, t[3]) = path PROVE FALSE
    BY <1>2
  <2>1. t[3] = one[3] /\ t \in items
    BY DEF PathOf
  <2>2. t = one
    BY <1>3, <2>1
  <2> QED BY <2>2
<1> HIDE DEF items, path, told, more
<1>5. o.named = {<<t[1], PathOf(w, t[3])>> : t \in more}
  BY <1>2, <1>3 DEF path
<1>6. /\ IsInjective(o.listed) /\ o.listed \in Seq(Range(o.listed))
      /\ Range(o.listed) = Range(w.listed) \cup {path}
  <2>1. CASE path \in Range(w.listed)
    <3>1. o.listed = w.listed
      BY <1>4, <2>1 DEF path
    <3> QED BY <1>2, <2>1, <3>1
  <2>2. CASE path \notin Range(w.listed)
    <3> DEFINE s == w.listed
    <3>1. o.listed = Append(s, path) /\ s \in Seq(Range(s)) /\ IsInjective(s) /\ path \notin Range(s)
      BY <1>2, <2>2 DEF path
    <3> HIDE DEF s
    <3>2. /\ Append(s, path) \in Seq(Range(Append(s, path)))
          /\ Range(Append(s, path)) = Range(s) \cup {path}
          /\ IsInjective(Append(s, path))
      BY <3>1, AppendOnce
    <3> QED BY <3>1, <3>2 DEF s
  <2> QED BY <2>1, <2>2
<1>7. Range(o.listed) = {PathOf(w, t[3]) : t \in more}
  BY <1>2, <1>3, <1>6 DEF path
<1>8. /\ o.named = {<<t[1], PathOf(o, t[3])>> : t \in more}
      /\ Range(o.listed) = {PathOf(o, t[3]) : t \in more}
  BY <1>1, <1>5, <1>7
<1> QED BY <1>1, <1>3, <1>6, <1>8 DEF Naming, more

\* A step of one execution outside the service changes nothing for the others.
LEMMA OwnStep ==
  ASSUME Reporting, NEW u \in Users, UNCHANGED <<found, user>>,
         DOMAIN work' = Users, Shape(work'[u]),
         \A v \in Users : v # u => /\ work'[v] = work[v] /\ island'[v] = island[v]
                                   /\ added'[v] = added[v],
         work[u].at # "processing", work'[u].at # "processing",
         work'[u].at # "idle" => work[u].at # "idle" /\ work'[u].disturbed = work[u].disturbed,
         Telling(u, work'[u], island'[u], added'[u], found)
  PROVE  Reporting'
<1>1. Alone'
  <2>1. \A v \in Users : Shape(work'[v])
    BY DEF Reporting, Alone
  <2>2. \A v \in Users : work'[v].at = "processing" <=> user'[v] # "out"
    BY DEF Reporting, Alone
  <2>3. ASSUME NEW v \in Users, NEW t \in Users, v # t, user'[t] # "out", work'[v].at # "idle"
        PROVE  work'[v].disturbed
    <3>1. CASE v = u
      <4>1. work[u].disturbed
        BY <2>3, <3>1 DEF Reporting, Alone
      <4> QED BY <2>3, <3>1, <4>1
    <3>2. CASE v # u
      BY <2>3, <3>2 DEF Reporting, Alone
    <3> QED BY <3>1, <3>2
  <2> QED BY <2>1, <2>2, <2>3 DEF Alone
<1>2. ASSUME NEW v \in Users PROVE Telling(v, work'[v], island'[v], added'[v], found')
  BY DEF Reporting
<1> QED BY <1>1, <1>2 DEF Reporting

\* Leaving the service changes what it holds, of which the others know nothing.
LEMMA LeavingStep ==
  ASSUME Typed, Reporting, NEW u \in Users, UNCHANGED <<island, added>>,
         work[u].at = "processing", user' = [user EXCEPT ![u] = "out"],
         DOMAIN work' = Users, Shape(work'[u]),
         \A v \in Users : v # u => work'[v] = work[v],
         work'[u].at = "processed",
         Telling(u, work'[u], island[u], added[u], found')
  PROVE  Reporting'
<1>1. user[u] # "out" /\ \A v \in Users : v # u => user[v] = "out"
  BY ThreadsAssumption DEF Reporting, Alone, Typed, TypeOK
<1>2. \A v \in Users : user'[v] = "out"
  BY <1>1 DEF Typed, TypeOK
<1>3. Alone'
  BY <1>1, <1>2 DEF Reporting, Alone
<1>4. ASSUME NEW v \in Users PROVE Telling(v, work'[v], island'[v], added'[v], found')
  <2>1. CASE v # u
    <3>1. Telling(v, work[v], island[v], added[v], found)
      BY DEF Reporting
    <3>2. work[v].at = "idle" \/ work[v].disturbed
      BY <1>1, <2>1 DEF Reporting, Alone
    <3>3. Telling(v, work[v], island[v], added[v], found')
      BY <3>1, <3>2, TellingElsewhere
    <3> QED BY <2>1, <3>3
  <2> QED BY <2>1
<1> QED BY <1>3, <1>4 DEF Reporting

\* Without clashes there are no pairs.
LEMMA NoClashes ==
  ASSUME NEW X
  PROVE  <<>> \in Seq(X) /\ Range(<<>>) = {} /\ OverlapPairs(<<>>) = <<>> /\ IsInjective(<<>>)
<1>1. <<>> \in Seq(X) /\ <<>> \in Seq({}) /\ Range(<<>>) = {} /\ IsInjective(<<>>)
  BY EmptySeq DEF Range, IsInjective
<1>2. OverlapPairs(<<>>) \in Seq({})
  BY <1>1, OverlapsAreReal
<1>3. Len(OverlapPairs(<<>>)) = 0
  BY <1>2, LenProperties, ElementOfSeq
<1> QED BY <1>1, <1>2, <1>3, EmptySeq

\* A sequence holds its head and what its tail holds.
LEMMA RangeHeadTail ==
  ASSUME NEW X, NEW s \in Seq(X), s # <<>>
  PROVE  Tail(s) \in Seq(X) /\ Range(s) = {Head(s)} \cup Range(Tail(s))
<1> DEFINE n == Len(s)
           t == Tail(s)
<1>1. /\ t \in Seq(X) /\ n \in Nat \ {0} /\ Len(t) = n - 1
      /\ \A i \in 1..n-1 : t[i] = s[i+1]
      /\ DOMAIN t = 1..n-1 /\ DOMAIN s = 1..n /\ Head(s) = s[1]
  BY HeadTailProperties, LenProperties, EmptySeq
<1> HIDE DEF t, n
<1>2. \A i \in 1..n : i = 1 \/ (i - 1 \in 1..n-1 /\ (i - 1) + 1 = i)
  BY <1>1
<1>3. \A i \in 1..n-1 : i + 1 \in 1..n
  BY <1>1
<1>4. 1 \in 1..n
  BY <1>1
<1>5. \A i \in 1..n : s[i] = Head(s) \/ s[i] \in Range(t)
  <2> SUFFICES ASSUME NEW i \in 1..n, i # 1 PROVE s[i] \in Range(t)
    BY <1>1
  <2> DEFINE j == i - 1
  <2>1. j \in 1..n-1 /\ t[j] = s[i]
    BY <1>1, <1>2
  <2> HIDE DEF j
  <2> QED BY <1>1, <2>1 DEF Range
<1>6. Range(s) = {Head(s)} \cup Range(t)
  BY <1>1, <1>3, <1>4, <1>5 DEF Range
<1> QED BY <1>1, <1>6 DEF t

LEMMA FreshShape ==
  ASSUME NEW at, NEW stage
  PROVE  /\ Shape(Fresh(at, stage)) /\ Fresh(at, stage).at = at /\ Fresh(at, stage).clashes = <<>>
         /\ Fresh(at, stage).named = {} /\ Fresh(at, stage).listed = <<>>
BY DEF Shape, Fresh

\* Every step of the operation preserves Reporting.
LEMMA ReportingStart ==
  ASSUME Typed, Reporting, NEW u \in Users, Start(u)
  PROVE  Reporting'
<1>1. /\ \A v \in Users : user[v] = "out"
      /\ user' = [user EXCEPT ![u] = "locked"] /\ work[u].at = "idle"
  BY ThreadsAssumption DEF Start, Process, Typed, TypeOK
<1> DEFINE call == calls + 1
           new == Fresh("processing", call)
<1>2. /\ work' = [v \in Users |-> IF v = u THEN new ELSE Disturb(work[v])]
      /\ UNCHANGED <<island, added>>
  BY DEF Start
<1> HIDE DEF call
<1>3. /\ Shape(new) /\ new.at = "processing" /\ new.clashes = <<>> /\ new.named = {}
      /\ new.listed = <<>>
  BY FreshShape
<1> HIDE DEF new
<1>4. ASSUME NEW v \in Users, v # u
      PROVE  /\ Shape(work'[v]) /\ work'[v].at = work[v].at
             /\ work'[v].at # "idle" => work'[v].disturbed
             /\ Telling(v, work'[v], island'[v], added'[v], found')
  <2>1. work'[v] = Disturb(work[v]) /\ Shape(work[v]) /\ Telling(v, work[v], island[v], added[v], found)
    BY <1>2, <1>4 DEF Reporting, Alone
  <2>2. Telling(v, Disturb(work[v]), island[v], added[v], found')
    BY <2>1, TellingDisturbed
  <2>3. Shape(Disturb(work[v])) /\ Disturb(work[v]).at = work[v].at
        /\ (work[v].at # "idle" => Disturb(work[v]).disturbed)
    BY <2>1, DisturbShape
  <2> QED BY <1>2, <2>1, <2>2, <2>3
<1>5. work'[u] = new /\ Telling(u, work'[u], island'[u], added'[u], found')
  <2>1. added[u] = {}
    BY <1>1 DEF Reporting, Telling
  <2> QED BY <1>2, <1>3, <2>1 DEF Telling, Undisturbed
<1>6. Alone'
  <2>1. DOMAIN work' = Users /\ \A v \in Users : Shape(work'[v])
    BY <1>2, <1>3, <1>4, <1>5
  <2>2. /\ \A v \in Users : v # u => user'[v] = "out" /\ work'[v].at # "processing"
        /\ user'[u] # "out" /\ work'[u].at = "processing"
    BY <1>1, <1>3, <1>4, <1>5 DEF Typed, TypeOK, Reporting, Alone
  <2> QED BY <1>4, <2>1, <2>2 DEF Alone
<1> QED BY <1>4, <1>5, <1>6 DEF Reporting

LEMMA ReportingMismatched ==
  ASSUME Typed, Reporting, NEW u \in Users, Mismatched(u)
  PROVE  Reporting'
<1>1. PICK c \in Clashes[u] : found' = [Nothing EXCEPT !.stage = work[u].stage, !.meshes = c.meshes]
  BY DEF Mismatched
<1>2. found'.stage = work[u].stage /\ found'.meshes = c.meshes /\ found'.pairs = <<>> /\ c.meshes \in Nat
  BY <1>1, ClashesAssumption DEF Nothing
<1> DEFINE w == work[u]
           o == [at |-> "processed", stage |-> w.stage, clashes |-> w.clashes, pairs |-> w.pairs,
                 todo |-> w.todo, named |-> w.named, listed |-> w.listed, disturbed |-> w.disturbed]
<1>3. /\ work' = [work EXCEPT ![u].at = "processed"] /\ UNCHANGED <<island, added>>
      /\ user[u] = "locked" /\ user' = [user EXCEPT ![u] = "out"] /\ DOMAIN work = Users /\ Shape(w)
      /\ w.at = "processing"
  BY DEF Mismatched, Mismatch, Reporting, Alone
<1>4. work'[u] = o /\ DOMAIN work' = Users /\ \A v \in Users : v # u => work'[v] = work[v]
  BY <1>3 DEF Shape
<1>5. Telling(u, w, island[u], added[u], found) /\ w.clashes = <<>>
  BY <1>3 DEF Reporting, Telling
<1>6. /\ Shape(o) /\ o.at = "processed" /\ o.stage = w.stage /\ o.clashes = w.clashes
      /\ o.named = w.named /\ o.listed = w.listed /\ o.disturbed = w.disturbed
  BY DEF Shape
<1> HIDE DEF o, w
<1>7. Undisturbed(u, o, island[u], added[u], found')
  BY <1>2, <1>5, <1>6, NoClashes DEF Undisturbed, Held, w
<1>8. Telling(u, o, island[u], added[u], found')
  BY <1>3, <1>5, <1>6, <1>7 DEF Telling
<1> QED BY <1>3, <1>4, <1>6, <1>8, LeavingStep DEF w

LEMMA ReportingDetected ==
  ASSUME Typed, Reporting, NEW u \in Users, Detected(u)
  PROVE  Reporting'
<1>1. PICK c \in Clashes[u] :
        /\ found' = [stage |-> work[u].stage, meshes |-> c.meshes, pairs |-> OverlapPairs(c.pairs)]
        /\ work'  = [work EXCEPT ![u].at = "processed", ![u].clashes = c.pairs]
  BY DEF Detected
<1>2. /\ found'.stage = work[u].stage /\ found'.meshes = c.meshes
      /\ found'.pairs = OverlapPairs(c.pairs) /\ c.meshes \in Nat
      /\ c.pairs \in Seq((-1..c.meshes-1) \X (-1..c.meshes-1))
  BY <1>1, ClashesAssumption
<1> DEFINE w == work[u]
           o == [at |-> "processed", stage |-> w.stage, clashes |-> c.pairs, pairs |-> w.pairs,
                 todo |-> w.todo, named |-> w.named, listed |-> w.listed, disturbed |-> w.disturbed]
<1>3. /\ UNCHANGED <<island, added>>
      /\ user[u] = "detecting" /\ user' = [user EXCEPT ![u] = "out"] /\ DOMAIN work = Users /\ Shape(w)
      /\ w.at = "processing"
  BY DEF Detected, Detect, Reporting, Alone
<1>4. work'[u] = o /\ DOMAIN work' = Users /\ \A v \in Users : v # u => work'[v] = work[v]
  BY <1>1, <1>3 DEF Shape
<1>5. Telling(u, w, island[u], added[u], found)
  BY <1>3 DEF Reporting, Telling
<1>6. /\ Shape(o) /\ o.at = "processed" /\ o.stage = w.stage /\ o.clashes = c.pairs
      /\ o.named = w.named /\ o.listed = w.listed /\ o.disturbed = w.disturbed
  BY DEF Shape
<1> HIDE DEF o, w
<1>7. Undisturbed(u, o, island[u], added[u], found')
  BY <1>2, <1>6 DEF Undisturbed, Held, w
<1>8. Telling(u, o, island[u], added[u], found')
  BY <1>3, <1>5, <1>6, <1>7 DEF Telling
<1> QED BY <1>3, <1>4, <1>6, <1>8, LeavingStep DEF w

LEMMA ReportingReadPairs ==
  ASSUME Reporting, NEW u \in Users, ReadPairs(u)
  PROVE  Reporting'
<1> DEFINE w == work[u]
           o == work'[u]
<1>1. /\ w.at = "processed" /\ UNCHANGED <<found, user, island, added>> /\ DOMAIN work = Users
      /\ Shape(w) /\ Telling(u, w, island[u], added[u], found)
  BY DEF ReadPairs, Reporting, Alone, vars
<1>2. DOMAIN work' = Users /\ \A v \in Users : v # u => work'[v] = work[v]
  BY <1>1 DEF ReadPairs
<1>3. /\ added[u] = {} /\ w.named = {} /\ w.listed = <<>>
      /\ ~w.disturbed => Held(w, found) /\ found.pairs = OverlapPairs(w.clashes)
  BY <1>1 DEF Telling, Undisturbed
<1>4. CASE u \in Islanders
  <2>1. o = [at |-> "adding", stage |-> w.stage, clashes |-> w.clashes, pairs |-> found.pairs,
             todo |-> w.todo, named |-> w.named, listed |-> w.listed, disturbed |-> w.disturbed]
    BY <1>1, <1>4 DEF ReadPairs, Shape
  <2> HIDE DEF o
  <2>2. /\ Shape(o) /\ o.at = "adding" /\ o.stage = w.stage /\ o.clashes = w.clashes
        /\ o.pairs = found.pairs /\ o.named = {} /\ o.listed = <<>> /\ o.disturbed = w.disturbed
    BY <1>3, <2>1 DEF Shape
  <2> HIDE DEF w
  <2>3. ASSUME ~o.disturbed PROVE Undisturbed(u, o, island[u], added[u], found)
    <3> DEFINE X == (-1..found.meshes-1) \X (-1..found.meshes-1)
    <3>1. w.clashes \in Seq(X) /\ found.pairs = OverlapPairs(w.clashes)
      BY <1>3, <2>2, <2>3 DEF Held
    <3>2. found.pairs \in Seq(X) /\ Range(found.pairs) = Overlapping(o)
      <4> HIDE DEF X
      <4> QED BY <2>2, <3>1, OverlapsAreReal DEF Overlapping
    <3>3. Held(o, found)
      BY <1>3, <2>2, <2>3 DEF Held
    <3> QED BY <1>3, <2>2, <3>2, <3>3 DEF Undisturbed
  <2>4. Telling(u, o, island[u], added[u], found)
    BY <1>4, <2>2, <2>3 DEF Telling
  <2> QED BY <1>1, <1>2, <2>2, <2>4, OwnStep DEF o, w
<1>5. CASE u \notin Islanders
  <2> DEFINE todo == PairGroups(found.pairs)
  <2>1. o = [at |-> "naming", stage |-> w.stage, clashes |-> w.clashes, pairs |-> w.pairs,
             todo |-> todo, named |-> w.named, listed |-> w.listed, disturbed |-> w.disturbed]
    BY <1>1, <1>5 DEF ReadPairs, Shape
  <2> HIDE DEF o, todo
  <2>2. /\ Shape(o) /\ o.at = "naming" /\ o.stage = w.stage /\ o.clashes = w.clashes
        /\ o.todo = todo /\ o.named = {} /\ o.listed = <<>> /\ o.disturbed = w.disturbed
    BY <1>3, <2>1 DEF Shape
  <2> HIDE DEF w
  <2>3. ASSUME ~o.disturbed PROVE Undisturbed(u, o, island[u], added[u], found)
    <3>1. Items(u, o, island[u]) = todo
      BY <1>3, <1>5, <2>2, <2>3 DEF Items, todo
    <3>2. Naming(u, o, island[u])
      BY <2>2, <3>1, NoClashes DEF Naming
    <3>3. Held(o, found)
      BY <1>3, <2>2, <2>3 DEF Held
    <3> QED BY <1>5, <2>2, <3>2, <3>3 DEF Undisturbed
  <2>4. Telling(u, o, island[u], added[u], found)
    BY <2>2, <2>3 DEF Telling
  <2> QED BY <1>1, <1>2, <2>2, <2>4, OwnStep DEF o, w
<1> QED BY <1>4, <1>5

LEMMA ReportingAdd ==
  ASSUME Reporting, Sound, NEW u \in Users, Add(u)
  PROVE  Reporting'
<1> DEFINE w == work[u]
           o == work'[u]
           pair == Head(w.pairs)
<1>1. /\ w.at = "adding" /\ w.pairs # <<>> /\ UNCHANGED <<found, user>> /\ DOMAIN work = Users
      /\ Shape(w) /\ Telling(u, w, island[u], added[u], found)
  BY DEF Add, Reporting, Alone, vars
<1>2. DOMAIN work' = Users /\ \A v \in Users : v # u => /\ work'[v] = work[v] /\ island'[v] = island[v]
                                                       /\ added'[v] = added[v]
  BY <1>1 DEF Add, Sound
<1>3. added'[u] = added[u] \cup {pair}
  BY DEF Add, Sound
<1>4. o = [at |-> "adding", stage |-> w.stage, clashes |-> w.clashes, pairs |-> Tail(w.pairs),
           todo |-> w.todo, named |-> w.named, listed |-> w.listed, disturbed |-> w.disturbed]
  BY <1>1 DEF Add, Shape
<1> HIDE DEF o
<1>5. /\ Shape(o) /\ o.at = "adding" /\ o.stage = w.stage /\ o.clashes = w.clashes
      /\ o.pairs = Tail(w.pairs) /\ o.named = w.named /\ o.listed = w.listed
      /\ o.disturbed = w.disturbed
  BY <1>4 DEF Shape
<1> HIDE DEF w, pair
<1>6. ASSUME ~o.disturbed PROVE Undisturbed(u, o, island'[u], added'[u], found)
  <2> DEFINE X == (-1..found.meshes-1) \X (-1..found.meshes-1)
  <2>1. /\ Held(w, found) /\ w.pairs \in Seq(X) /\ added[u] \cup Range(w.pairs) = Overlapping(w)
    BY <1>1, <1>5, <1>6 DEF Telling, Undisturbed
  <2>2. o.pairs \in Seq(X) /\ Range(w.pairs) = {pair} \cup Range(o.pairs)
    <3> DEFINE s == w.pairs
    <3>1. s \in Seq(X) /\ s # <<>>
      BY <1>1, <2>1
    <3> HIDE DEF s, X
    <3>2. Tail(s) \in Seq(X) /\ Range(s) = {Head(s)} \cup Range(Tail(s))
      BY <3>1, RangeHeadTail
    <3> QED BY <1>5, <3>2 DEF s, pair
  <2>3. Held(o, found) /\ Overlapping(o) = Overlapping(w)
    BY <1>5, <2>1 DEF Held, Overlapping
  <2> QED BY <1>3, <1>5, <2>1, <2>2, <2>3 DEF Undisturbed
<1>7. Telling(u, o, island'[u], added'[u], found)
  BY <1>1, <1>5, <1>6 DEF Telling
<1> QED BY <1>1, <1>2, <1>5, <1>7, OwnStep DEF o, w

LEMMA ReportingGroup ==
  ASSUME Reporting, NEW u \in Users, Group(u)
  PROVE  Reporting'
<1> DEFINE w == work[u]
           o == work'[u]
           todo == IslandGroups(island[u])
<1>1. /\ w.at = "adding" /\ w.pairs = <<>> /\ UNCHANGED <<found, user, island, added>>
      /\ DOMAIN work = Users /\ Shape(w) /\ Telling(u, w, island[u], added[u], found)
  BY DEF Group, Reporting, Alone, vars
<1>2. DOMAIN work' = Users /\ \A v \in Users : v # u => work'[v] = work[v]
  BY <1>1 DEF Group
<1>3. o = [at |-> "naming", stage |-> w.stage, clashes |-> w.clashes, pairs |-> w.pairs,
           todo |-> todo, named |-> w.named, listed |-> w.listed, disturbed |-> w.disturbed]
  <2> HIDE DEF todo
  <2>1. work' = [work EXCEPT ![u].at = "naming", ![u].todo = todo]
    BY DEF Group, todo
  <2> QED BY <1>1, <2>1 DEF Shape
<1> HIDE DEF o, todo
<1>4. /\ Shape(o) /\ o.at = "naming" /\ o.stage = w.stage /\ o.clashes = w.clashes
      /\ o.todo = todo /\ o.named = w.named /\ o.listed = w.listed /\ o.disturbed = w.disturbed
  BY <1>3 DEF Shape
<1> HIDE DEF w
<1>5. u \in Islanders /\ w.named = {} /\ w.listed = <<>>
  BY <1>1 DEF Telling
<1>6. ASSUME ~o.disturbed PROVE Undisturbed(u, o, island[u], added[u], found)
  <2>1. Held(w, found) /\ added[u] \cup Range(w.pairs) = Overlapping(w)
    BY <1>1, <1>4, <1>6 DEF Telling, Undisturbed
  <2>2. Held(o, found) /\ added[u] = Overlapping(o)
    BY <1>1, <1>4, <2>1, NoClashes DEF Held, Overlapping
  <2>3. Items(u, o, island[u]) = todo
    BY <1>5 DEF Items, todo
  <2>4. Naming(u, o, island[u])
    BY <1>4, <1>5, <2>3, NoClashes DEF Naming
  <2> QED BY <1>4, <2>2, <2>4 DEF Undisturbed
<1>7. Telling(u, o, island[u], added[u], found)
  BY <1>4, <1>5, <1>6 DEF Telling
<1> QED BY <1>1, <1>2, <1>4, <1>7, OwnStep DEF o, w

LEMMA ReportingNameMesh ==
  ASSUME Reporting, Sound, NEW u \in Users, NameMesh(u)
  PROVE  Reporting'
<1> DEFINE w == work[u]
           o == work'[u]
           d == island[u]
           a == added[u]
<1>1. /\ w.at = "naming" /\ UNCHANGED <<found, user, island, added>> /\ DOMAIN work = Users
      /\ Shape(w) /\ Telling(u, w, d, a, found) /\ Disjoint(d) /\ Connected(d, a)
  BY DEF NameMesh, Reporting, Alone, vars, Sound
<1>2. PICK one \in w.todo :
        work' = [work EXCEPT ![u].todo = @ \ {one},
                             ![u].named = @ \cup {<<one[1], MeshPath(one[3])>>},
                             ![u].listed = List(u, MeshPath(one[3]))]
  BY DEF NameMesh
<1> DEFINE path == MeshPath(one[3])
           todo == w.todo \ {one}
           named == w.named \cup {<<one[1], path>>}
           listed == List(u, path)
<1>3. DOMAIN work' = Users /\ \A v \in Users : v # u => work'[v] = work[v]
  BY <1>1, <1>2
<1>4. o = [at |-> "naming", stage |-> w.stage, clashes |-> w.clashes, pairs |-> w.pairs,
           todo |-> todo, named |-> named, listed |-> listed, disturbed |-> w.disturbed]
  <2> HIDE DEF path, listed
  <2>1. work' = [work EXCEPT ![u].todo = @ \ {one}, ![u].named = @ \cup {<<one[1], path>>},
                             ![u].listed = listed]
    BY <1>2 DEF path, listed
  <2> QED BY <1>1, <2>1 DEF Shape
<1> HIDE DEF o
<1>5. /\ Shape(o) /\ o.at = "naming" /\ o.stage = w.stage /\ o.clashes = w.clashes
      /\ o.todo = todo /\ o.named = named /\ o.listed = listed /\ o.disturbed = w.disturbed
  BY <1>4 DEF Shape
<1>6. ASSUME ~o.disturbed PROVE Undisturbed(u, o, d, a, found)
  <2> HIDE DEF d, a
  <2>1. /\ Held(w, found) /\ Naming(u, w, d) /\ (u \in Islanders => a = Overlapping(w))
    BY <1>1, <1>5, <1>6 DEF Telling, Undisturbed
  <2>2. /\ \A t \in Items(u, w, d) : t[3] \in 0..found.meshes-1
        /\ u \in Islanders => \A s, t \in Items(u, w, d) : s[3] = t[3] => s = t
    <3> HIDE DEF w
    <3> QED BY <1>1, <2>1, ItemsNamed
  <2>3. path = PathOf(w, one[3])
    <3>1. one \in Items(u, w, d)
      BY <1>2, <2>1 DEF Naming
    <3> QED BY <2>1, <2>2, <3>1 DEF MeshPath, PathOf, Held
  <2>4. listed = IF u \in Islanders \/ PathOf(w, one[3]) \notin Range(w.listed)
                 THEN Append(w.listed, PathOf(w, one[3])) ELSE w.listed
    <3> HIDE DEF path
    <3> QED BY <2>3 DEF List
  <2> HIDE DEF path, listed, w
  <2>5. Naming(u, o, d)
    BY <1>2, <1>5, <2>1, <2>2, <2>3, <2>4, NamingOneMore
  <2>6. Held(o, found) /\ Overlapping(o) = Overlapping(w)
    BY <1>5, <2>1 DEF Held, Overlapping
  <2> QED BY <1>5, <2>1, <2>5, <2>6 DEF Undisturbed
<1>7. Telling(u, o, d, a, found)
  BY <1>5, <1>6 DEF Telling
<1> QED BY <1>1, <1>3, <1>5, <1>7, OwnStep DEF o, w, d, a

LEMMA ReportingFinish ==
  ASSUME Reporting, Sound, NEW u \in Users, Finish(u)
  PROVE  Reporting'
<1>1. /\ work[u].at = "naming" /\ UNCHANGED <<found, user>> /\ DOMAIN work = Users
      /\ work' = [work EXCEPT ![u] = Idle] /\ added'[u] = {}
      /\ \A v \in Users : v # u => island'[v] = island[v] /\ added'[v] = added[v]
  BY DEF Finish, Reporting, Alone, vars, Sound
<1>2. Idle.at = "idle" /\ Idle.named = {} /\ Idle.listed = <<>> /\ Shape(Idle)
  BY FreshShape DEF Idle
<1>3. Telling(u, Idle, island'[u], {}, found)
  BY <1>2 DEF Telling, Undisturbed
<1> QED BY <1>1, <1>2, <1>3, OwnStep

LEMMA ReportingStep == Typed /\ Sound /\ Reporting /\ [OpNext]_allVars => Reporting'
<1> SUFFICES ASSUME Typed, Sound, Reporting, [OpNext]_allVars PROVE Reporting'
  OBVIOUS
<1>1. ASSUME UNCHANGED opVars, \A v \in Users : user'[v] = "out" <=> user[v] = "out"
      PROVE  Reporting'
  <2>1. Alone'
    BY <1>1 DEF Reporting, Alone, opVars
  <2>2. \A v \in Users : Telling(v, work'[v], island'[v], added'[v], found')
    BY <1>1 DEF Reporting, opVars
  <2> QED BY <2>1, <2>2 DEF Reporting
<1>2. CASE UNCHANGED opVars /\ UNCHANGED user
  BY <1>1, <1>2
<1>3. ASSUME NEW u \in Users, Preparing(u) PROVE Reporting'
  <2>1. UNCHANGED opVars /\ \A v \in Users : user'[v] = "out" <=> user[v] = "out"
    BY <1>3 DEF Preparing, NeedDetector, Register, Typed, TypeOK
  <2> QED BY <1>1, <2>1
<1>4. ASSUME NEW e \in Exits, ShutdownService(e) PROVE Reporting'
  <2>1. UNCHANGED <<user, island, added>> /\ work' = [v \in Users |-> Disturb(work[v])]
    BY <1>4 DEF ShutdownService, RunService
  <2>2. ASSUME NEW v \in Users
        PROVE  /\ Shape(work'[v]) /\ work'[v].at = work[v].at
               /\ work'[v].at # "idle" => work'[v].disturbed
               /\ Telling(v, work'[v], island'[v], added'[v], found')
    <3>1. /\ work'[v] = Disturb(work[v]) /\ Shape(work[v])
          /\ Telling(v, work[v], island[v], added[v], found)
      BY <2>1 DEF Reporting, Alone
    <3>2. Telling(v, Disturb(work[v]), island[v], added[v], found')
      BY <3>1, TellingDisturbed
    <3>3. Shape(Disturb(work[v])) /\ Disturb(work[v]).at = work[v].at
          /\ (work[v].at # "idle" => Disturb(work[v]).disturbed)
      BY <3>1, DisturbShape
    <3> QED BY <2>1, <3>1, <3>2, <3>3
  <2>3. Alone'
    BY <2>1, <2>2 DEF Reporting, Alone
  <2> QED BY <2>2, <2>3 DEF Reporting
<1>5. CASE UNCHANGED allVars
  BY <1>2, <1>5 DEF allVars, vars
<1>6. ASSUME NEW c \in Others, RegisterOther(c) /\ UNCHANGED opVars PROVE Reporting'
  BY <1>2, <1>6 DEF RegisterOther
<1>7. ASSUME NEW e \in Exits, CallRun(e) /\ UNCHANGED opVars PROVE Reporting'
  BY <1>2, <1>7 DEF CallRun
<1>8. ASSUME NEW e \in Exits, InShutdown(e) PROVE Reporting'
  BY <1>2, <1>4, <1>8 DEF InShutdown, BeginRun, RunOther, EndRun
<1>9. ASSUME NEW u \in Users, Start(u) \/ InOperation(u) PROVE Reporting'
  BY <1>3, <1>9, ReportingStart, ReportingMismatched, ReportingDetected, ReportingReadPairs,
     ReportingAdd, ReportingGroup, ReportingNameMesh, ReportingFinish DEF InOperation
<1>10. CASE Done /\ UNCHANGED opVars
  BY <1>2, <1>10 DEF Done, vars
<1> QED BY <1>5, <1>6, <1>7, <1>8, <1>9, <1>10 DEF OpNext

LEMMA ReportingInvariant == OpSpec => [](Typed /\ Sound /\ Reporting)
<1>1. OpInit => Sound
  BY NoIslandsYet DEF OpInit, Sound
<1>2. OpInit => Reporting
  <2> SUFFICES ASSUME OpInit PROVE Reporting
    OBVIOUS
  <2>1. Idle.at = "idle" /\ Idle.named = {} /\ Idle.listed = <<>> /\ Shape(Idle)
    BY FreshShape DEF Idle
  <2>2. /\ work = [u \in Users |-> Idle] /\ user = [u \in Users |-> "out"]
        /\ \A u \in Users : added[u] = {}
    BY DEF OpInit, Init
  <2>3. \A u \in Users : Telling(u, work[u], island[u], added[u], found)
    BY <2>1, <2>2 DEF Telling, Undisturbed
  <2>4. Alone
    BY <2>1, <2>2 DEF Alone
  <2> QED BY <2>3, <2>4 DEF Reporting
<1>3. OpSpec => []Typed
  BY UsesService, TypedInvariant, PTL
<1> QED BY <1>1, <1>2, <1>3, SoundStep, ReportingStep, PTL DEF OpSpec

LEMMA ReportingTells == Sound /\ Reporting => GroupsReported
<1> SUFFICES ASSUME Sound, Reporting, NEW u \in Users, work[u].at = "naming", work[u].todo = {},
                    ~work[u].disturbed
             PROVE  LET w       == work[u]
                        overlap == {p \in Range(w.clashes) : NoMesh \notin Range(p) /\ p[1] # p[2]}
                        groups  == IF u \in Islanders THEN Components(overlap)
                                   ELSE {Range(p) : p \in overlap}
                        Path(m) == <<w.stage, m>>
                    IN  /\ {{Path(m) : m \in meshes} : meshes \in groups} =
                             {{n[2] : n \in {x \in w.named : x[1] = g}} : g \in {x[1] : x \in w.named}}
                        /\ IsInjective(w.listed)
                        /\ Range(w.listed) = {Path(m) : m \in UNION groups}
  BY DEF GroupsReported
<1> DEFINE w == work[u]
           d == island[u]
           items == Items(u, w, d)
           stage == w.stage
           overlap == {p \in Range(w.clashes) : NoMesh \notin Range(p) /\ p[1] # p[2]}
           groups == IF u \in Islanders THEN Components(overlap) ELSE {Range(p) : p \in overlap}
<1>1. /\ Held(w, found) /\ (u \in Islanders => added[u] = Overlapping(w)) /\ Naming(u, w, d)
      /\ Disjoint(d) /\ Connected(d, added[u])
  BY DEF Reporting, Telling, Undisturbed, Sound
<1>2. overlap = Overlapping(w)
  <2> DEFINE X == (-1..found.meshes-1) \X (-1..found.meshes-1)
  <2>1. \A p \in Range(w.clashes) : p \in X
    <3>1. w.clashes \in Seq(X)
      BY <1>1 DEF Held
    <3> HIDE DEF X
    <3> QED BY <3>1, LenProperties, ElementOfSeq DEF Range
  <2>2. ASSUME NEW p \in X PROVE NoMesh \notin Range(p) <=> p[1] >= 0 /\ p[2] >= 0
    <3>1. /\ p = <<p[1], p[2]>> /\ DOMAIN p = {1, 2}
          /\ p[1] \in -1..found.meshes-1 /\ p[2] \in -1..found.meshes-1
      OBVIOUS
    <3>2. Range(p) = {p[1], p[2]}
      BY <3>1 DEF Range
    <3> QED BY <1>1, <3>1, <3>2 DEF NoMesh, Held
  <2> QED BY <2>1, <2>2 DEF Overlapping, Real
<1>3. Grouped(items) = groups
  <2> HIDE DEF w, d, overlap
  <2>1. Grouped(Items(u, w, d)) =
          IF u \in Islanders THEN Components(Overlapping(w)) ELSE {Range(p) : p \in Overlapping(w)}
    BY <1>1, ItemsNamed
  <2> QED BY <1>2, <2>1
<1>4. /\ w.named = {<<t[1], <<stage, t[3]>>>> : t \in items}
      /\ IsInjective(w.listed)
      /\ Range(w.listed) = {<<stage, t[3]>> : t \in items}
  <2>1. items \ w.todo = items
    OBVIOUS
  <2> HIDE DEF items
  <2> QED BY <1>1, <2>1 DEF Naming, PathOf, items
<1> DEFINE named == w.named
<1> HIDE DEF groups, items, stage, named
<1>5. /\ Reported(named) = InStage(stage, Grouped(items))
      /\ {<<stage, m>> : m \in UNION Grouped(items)} = {<<stage, t[3]>> : t \in items}
  <2>1. named = {<<t[1], <<stage, t[3]>>>> : t \in items}
    BY <1>4 DEF named
  <2>2. Reported(named) = InStage(stage, Grouped(items))
    BY <2>1, GroupedItems, Zenon
  <2>3. {<<stage, m>> : m \in UNION Grouped(items)} = {<<stage, t[3]>> : t \in items}
    BY <2>1, GroupedItems, SMTT(60)
  <2> QED BY <2>2, <2>3
<1>6. Reported(w.named) = InStage(stage, groups) /\ IsInjective(w.listed)
      /\ Range(w.listed) = {<<stage, m>> : m \in UNION groups}
  BY <1>3, <1>4, <1>5 DEF named
<1> QED BY <1>6 DEF groups, stage, Reported, InStage

\* An execution whose stage stays in the service until every mesh is named reports the meshes of
\* its own stage, in the groups in which the detector found them, and lists each of them
\* once; whatever the other executions and the shutdown do in between.
THEOREM ReportedGroups == OpSpec => []GroupsReported
BY ReportingInvariant, ReportingTells, PTL
===============================================================================
