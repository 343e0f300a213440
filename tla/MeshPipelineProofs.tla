-------------------------- MODULE MeshPipelineProofs --------------------------
(***************************************************************************)
(* Proofs about MeshPipeline for any number of prims, threads and tokens.  *)
(***************************************************************************)
EXTENDS MeshPipeline, SequenceTheorems, FiniteSetTheorems, TLAPS

\* The elements of a sequence, ...
LEMMA ElementsIn == ASSUME NEW S, NEW q \in Seq(S) PROVE ToSet(q) \subseteq S
BY LenProperties DEF ToSet

\* ... when its front is taken off, ...
LEMMA FrontElements ==
  ASSUME NEW S, NEW q \in Seq(S), q # <<>>
  PROVE  /\ Head(q) \in S /\ Tail(q) \in Seq(S)
         /\ ToSet(q) = {Head(q)} \cup ToSet(Tail(q))
<1>1. /\ Head(q) \in S /\ Tail(q) \in Seq(S) /\ Len(Tail(q)) = Len(q) - 1
      /\ \A i \in 1..Len(Tail(q)) : Tail(q)[i] = q[i + 1]
      /\ Head(q) = q[1]
  BY HeadTailProperties
<1>2. Len(q) \in Nat \ {0} /\ DOMAIN q = 1..Len(q) /\ DOMAIN Tail(q) = 1..Len(q) - 1
  BY <1>1, EmptySeq, LenProperties
<1>3. ASSUME NEW i \in 1..Len(q) PROVE q[i] \in {Head(q)} \cup ToSet(Tail(q))
  <2>1. CASE i = 1
    BY <2>1, <1>1
  <2>2. CASE i # 1
    <3>1. i - 1 \in 1..Len(q) - 1 /\ (i - 1) + 1 = i
      BY <2>2, <1>2
    <3> QED BY <3>1, <1>1, <1>2 DEF ToSet
  <2> QED BY <2>1, <2>2
<1>4. ASSUME NEW i \in 1..Len(q) - 1 PROVE Tail(q)[i] \in ToSet(q)
  <2>1. i + 1 \in 1..Len(q)
    BY <1>2
  <2> QED BY <2>1, <1>1, <1>2 DEF ToSet
<1>5. Head(q) \in ToSet(q)
  BY <1>1, <1>2 DEF ToSet
<1> QED BY <1>1, <1>2, <1>3, <1>4, <1>5 DEF ToSet

\* ... when one is put at its end, ...
LEMMA AppendElements ==
  ASSUME NEW S, NEW q \in Seq(S), NEW x \in S
  PROVE  /\ Append(q, x) \in Seq(S)
         /\ ToSet(Append(q, x)) = ToSet(q) \cup {x}
<1>1. /\ Append(q, x) \in Seq(S) /\ Len(Append(q, x)) = Len(q) + 1
      /\ \A i \in 1..Len(q) : Append(q, x)[i] = q[i]
      /\ Append(q, x)[Len(q) + 1] = x
  BY AppendProperties
<1>2. Len(q) \in Nat /\ DOMAIN q = 1..Len(q) /\ DOMAIN Append(q, x) = 1..Len(q) + 1
  BY <1>1, LenProperties
<1> QED BY <1>1, <1>2 DEF ToSet

\* ... and when two are joined.
LEMMA ConcatElements ==
  ASSUME NEW S, NEW q \in Seq(S), NEW r \in Seq(S)
  PROVE  /\ q \o r \in Seq(S)
         /\ ToSet(q \o r) = ToSet(q) \cup ToSet(r)
<1>1. /\ q \o r \in Seq(S) /\ Len(q \o r) = Len(q) + Len(r)
      /\ \A i \in 1..Len(q) + Len(r) : (q \o r)[i] = IF i <= Len(q) THEN q[i] ELSE r[i - Len(q)]
  BY ConcatProperties
<1>2. /\ Len(q) \in Nat /\ DOMAIN q = 1..Len(q)
      /\ Len(r) \in Nat /\ DOMAIN r = 1..Len(r)
      /\ DOMAIN (q \o r) = 1..Len(q) + Len(r)
  BY <1>1, LenProperties
<1>3. ASSUME NEW i \in 1..Len(q) + Len(r) PROVE (q \o r)[i] \in ToSet(q) \cup ToSet(r)
  <2>1. CASE i <= Len(q)
    BY <2>1, <1>1, <1>2 DEF ToSet
  <2>2. CASE ~(i <= Len(q))
    <3>1. i - Len(q) \in 1..Len(r)
      BY <2>2, <1>2
    <3> QED BY <2>2, <3>1, <1>1, <1>2 DEF ToSet
  <2> QED BY <2>1, <2>2
<1>4. ASSUME NEW i \in 1..Len(q) PROVE q[i] \in ToSet(q \o r)
  BY <1>1, <1>2 DEF ToSet
<1>5. ASSUME NEW i \in 1..Len(r) PROVE r[i] \in ToSet(q \o r)
  <2>1. Len(q) + i \in 1..Len(q) + Len(r) /\ ~(Len(q) + i <= Len(q)) /\ (Len(q) + i) - Len(q) = i
    BY <1>2
  <2>2. (q \o r)[Len(q) + i] = r[i]
    BY <2>1, <1>1
  <2> QED BY <2>1, <2>2, <1>2 DEF ToSet
<1> QED BY <1>1, <1>2, <1>3, <1>4, <1>5 DEF ToSet

-----------------------------------------------------------------------------
Edits == [prim : Prims, kind : {"write", "delete"}, thread : Threads]

\* The part of the types that the proofs need: not the counts of tokens.
Typed == /\ phase \in {"running", "flushing", "post", "done", "failed"}
         /\ primIndex \in 0..PrimCount
         /\ stopped \in BOOLEAN /\ cancelled \in BOOLEAN
         /\ at \in [Threads -> {"idle", "processing", "output", "writing"}]
         /\ item \in [Threads -> Prims \cup {NoPrim}]
         /\ \A t \in Threads : item[t] # NoPrim <=> at[t] \in {"processing", "output"}
         /\ waiting \subseteq Prims
         /\ outQueue \in Seq(Prims) /\ toDelete \in Seq(Prims)
         /\ outcome \in [Prims -> Outcomes]
         /\ stats \subseteq Prims /\ posted \subseteq Prims
         /\ edits \in Seq(Edits)

\* Only the thread that called executeImpl is ever in the loop of writeQueued, and so
\* it has made all edits.
OnMain == /\ \A t \in Threads : at[t] = "writing" => t = Main
          /\ \A e \in ToSet(edits) : e.thread = Main

\* A deletion is the business of the destructor.
WritesFirst == phase \in {"running", "flushing"} => \A e \in ToSet(edits) : e.kind = "write"

\* A prim that is being processed is nowhere else, and one that is past the counter was
\* not touched.
Fresh == /\ \A t \in Threads : at[t] = "processing" =>
              /\ item[t] <= primIndex
              /\ outcome[item[t]] = "none"
              /\ \A u \in Threads : item[u] = item[t] => u = t
         /\ \A p \in Prims : p > primIndex =>
              outcome[p] = "none" /\ \A t \in Threads : item[t] # p

\* Whatever waits, is queued, counted or edited has a result, and the edits are those
\* it asks for.
Resulting ==
  /\ \A p \in waiting \cup ToSet(outQueue) \cup stats : outcome[p] # "none"
  /\ \A t \in Threads : at[t] = "output" => outcome[item[t]] # "none"
  /\ \A p \in ToSet(toDelete) : outcome[p] = "delete"
  /\ \A e \in ToSet(edits) : e.kind = outcome[e.prim]

Edited(p) == \E e \in ToSet(edits) : e.prim = p

\* What writeQueued does for a prim.
Handled(p) == /\ p \in stats
              /\ outcome[p] = "write" => Edited(p)
              /\ outcome[p] = "delete" => Edited(p) \/ p \in ToSet(toDelete)

\* As long as nothing was thrown, a result is on its way or handled.
Kept == ~cancelled =>
          \A p \in Prims : outcome[p] # "none" =>
            \/ p \in waiting \/ p \in ToSet(outQueue) \/ Handled(p)
            \/ \E t \in Threads : at[t] = "output" /\ item[t] = p

\* What is over when executeImpl has gone on.
Emptied == /\ phase # "running" => waiting = {} /\ \A t \in Threads : at[t] = "idle"
           /\ phase \in {"post", "done"} => ~cancelled /\ outQueue = <<>> /\ toDelete = <<>>
           /\ phase = "done" => posted = stats

Sound == Typed /\ OnMain /\ WritesFirst /\ Fresh /\ Resulting /\ Kept /\ Emptied

-----------------------------------------------------------------------------
\* One round of writeQueued's loop on the main thread.
LEMMA WriteFrontStep ==
  ASSUME Sound, outQueue # <<>>, WriteFront(Main), phase \in {"running", "flushing"},
         UNCHANGED <<phase, inputVars, threadVars, waiting, outcome, posted>>
  PROVE  Sound'
<1> USE DEF Sound, Typed, inputVars, threadVars
<1>p. PICK p \in Prims : p = Head(outQueue)
  BY FrontElements
<1>1. outQueue' \in Seq(Prims) /\ ToSet(outQueue) = {p} \cup ToSet(outQueue')
  BY <1>p, FrontElements DEF WriteFront
<1>2. /\ toDelete' \in Seq(Prims)
      /\ ToSet(toDelete') = IF outcome[p] = "delete" THEN ToSet(toDelete) \cup {p}
                                                     ELSE ToSet(toDelete)
  <2>1. Append(toDelete, p) \in Seq(Prims) /\ ToSet(Append(toDelete, p)) = ToSet(toDelete) \cup {p}
    BY AppendElements
  <2> QED BY <1>p, <2>1 DEF WriteFront
<1>3. Edit(p, "write", Main) \in Edits
  BY DEF Edit, Edits, Threads
<1>4. /\ edits' \in Seq(Edits)
      /\ ToSet(edits') = IF outcome[p] = "write" THEN ToSet(edits) \cup {Edit(p, "write", Main)}
                                                 ELSE ToSet(edits)
  <2>1. /\ Append(edits, Edit(p, "write", Main)) \in Seq(Edits)
        /\ ToSet(Append(edits, Edit(p, "write", Main)))
             = ToSet(edits) \cup {Edit(p, "write", Main)}
    BY <1>3, AppendElements
  <2> QED BY <1>p, <2>1 DEF WriteFront
<1>5. stats' = stats \cup {p}
  BY <1>p DEF WriteFront
<1>6. Typed'
  BY <1>1, <1>2, <1>4, <1>5
<1>7. OnMain' /\ WritesFirst' /\ Fresh'
  BY <1>4 DEF OnMain, WritesFirst, Fresh, Edit
<1>8. Resulting'
  BY <1>1, <1>2, <1>4, <1>5 DEF Resulting, Edit
<1>9. Kept'
  <2>1. Handled(p)'
    <3>1. Edit(p, "write", Main).prim = p
      BY DEF Edit
    <3>2. outcome[p] = "write" => Edited(p)'
      BY <1>4, <3>1 DEF Edited
    <3> QED BY <1>2, <1>5, <3>2 DEF Handled
  <2>2. ASSUME NEW r \in Prims, Handled(r) PROVE Handled(r)'
    BY <2>2, <1>2, <1>4, <1>5 DEF Handled, Edited
  <2> QED BY <1>1, <2>1, <2>2 DEF Kept
<1>10. Emptied'
  BY DEF Emptied
<1> QED BY <1>6, <1>7, <1>8, <1>9, <1>10

\* Sound is preserved by every step of the pool and of executeImpl.
LEMMA SoundStep == Sound /\ [Next]_vars => Sound'
<1> SUFFICES ASSUME Sound, [Next]_vars PROVE Sound'
  OBVIOUS
<1> USE MainAssumption, CountAssumption
    DEF Sound, Typed, threadVars, inputVars, outputVars, SetThread, Prims, NoPrim
<1>h. ASSUME NEW p \in Prims, Handled(p), outcome'[p] = outcome[p], UNCHANGED outputVars
      PROVE  Handled(p)'
  BY <1>h DEF Handled, Edited
<1>1. ASSUME NEW t \in Threads, TakePrim(t) PROVE Sound'
  <2>1. CASE primIndex < PrimCount
    <3> DEFINE q == primIndex + 1
    <3>a. /\ q \in Prims /\ q # NoPrim
          /\ primIndex' = q
          /\ outcome[q] = "none" /\ \A u \in Threads : item[u] # q
          /\ \A p \in Prims : p > q => p > primIndex
          /\ \A p \in Prims : p <= primIndex => p <= q
      BY <1>1, <2>1 DEF TakePrim, Fresh
    <3>b. /\ at' = [at EXCEPT ![t] = "processing"] /\ item' = [item EXCEPT ![t] = q]
          /\ UNCHANGED <<phase, stopped, cancelled, waiting, outQueue, outcome, outputVars, posted>>
      BY <1>1, <2>1 DEF TakePrim
    <3>c. primIndex' \in 0..PrimCount
      BY <3>a
    <3> HIDE DEF q
    <3>1. Typed'
      BY <3>a, <3>b, <3>c
    <3>2. OnMain' /\ WritesFirst' /\ Resulting'
      BY <1>1, <2>1 DEF TakePrim, OnMain, WritesFirst, Resulting
    <3>3. Fresh'
      <4>1. ASSUME NEW u \in Threads, at'[u] = "processing"
            PROVE  /\ item'[u] <= primIndex' /\ outcome'[item'[u]] = "none"
                   /\ \A v \in Threads : item'[v] = item'[u] => v = u
        <5>1. CASE u = t
          BY <5>1, <3>a, <3>b
        <5>2. CASE u # t
          BY <4>1, <5>2, <3>a, <3>b DEF Fresh
        <5> QED BY <5>1, <5>2
      <4>2. ASSUME NEW p \in Prims, p > primIndex'
            PROVE  outcome'[p] = "none" /\ \A u \in Threads : item'[u] # p
        <5>1. p > primIndex /\ p # q
          BY <4>2, <3>a
        <5> QED BY <5>1, <3>b DEF Fresh
      <4> QED BY <4>1, <4>2 DEF Fresh
    <3>4. Kept'
      <4>1. \A u \in Threads : at[u] = "output" => at'[u] = "output" /\ item'[u] = item[u]
        BY <1>1, <2>1 DEF TakePrim
      <4> QED BY <1>1, <1>h, <2>1, <4>1 DEF TakePrim, Kept
    <3>5. Emptied'
      BY <1>1, <2>1 DEF TakePrim, Emptied
    <3> QED BY <3>1, <3>2, <3>3, <3>4, <3>5
  <2>2. CASE ~(primIndex < PrimCount)
    BY <1>1, <2>2 DEF TakePrim, OnMain, WritesFirst, Fresh, Resulting, Kept, Handled, Edited,
                      Emptied
  <2> QED BY <2>1, <2>2
<1>2. ASSUME NEW t \in Threads, Process(t) PROVE Sound'
  <2>1. PICK o \in Outcomes :
          /\ outcome' = [outcome EXCEPT ![item[t]] = o]
          /\ waiting' = IF o \in {"none", "throw"} THEN waiting ELSE waiting \cup {item[t]}
          /\ cancelled' = (cancelled \/ o = "throw")
    BY <1>2 DEF Process
  <2>2. item[t] \in Prims /\ outcome[item[t]] = "none"
    BY <1>2 DEF Process, Fresh
  <2>3. \A p \in Prims : outcome[p] # "none" => outcome'[p] = outcome[p]
    BY <2>1, <2>2
  <2>4. Typed'
    BY <1>2, <2>1, <2>2 DEF Process
  <2>5. OnMain' /\ WritesFirst'
    BY <1>2 DEF Process, OnMain, WritesFirst
  <2>6. Fresh'
    BY <1>2, <2>1, <2>2 DEF Process, Fresh
  <2>7. Resulting'
    <3>1. \A p \in waiting' : outcome'[p] # "none"
      BY <2>1, <2>2, <2>3 DEF Resulting
    <3>2. \A u \in Threads : at'[u] = "output" => outcome'[item'[u]] # "none"
      BY <1>2, <2>2, <2>3 DEF Process, Resulting
    <3>3. ToSet(toDelete) \subseteq Prims /\ ToSet(outQueue) \subseteq Prims
      BY ElementsIn
    <3>4. ToSet(edits) \subseteq Edits
      BY ElementsIn
    <3>5. \A e \in ToSet(edits) : e.prim \in Prims /\ e.kind # "none"
      BY <3>4 DEF Edits
    <3> QED BY <1>2, <2>3, <3>1, <3>2, <3>3, <3>4, <3>5 DEF Process, Resulting
  <2>8. Kept'
    <3>1. \A u \in Threads : at[u] = "output" => at'[u] = "output" /\ item'[u] = item[u]
      BY <1>2 DEF Process
    <3>2. ~cancelled' => item[t] \in waiting' \/ outcome'[item[t]] = "none"
      BY <2>1, <2>2
    <3> QED BY <1>2, <1>h, <2>1, <2>2, <2>3, <3>1, <3>2 DEF Process, Kept
  <2>9. Emptied'
    BY <1>2, <2>1 DEF Process, Emptied
  <2> QED BY <2>4, <2>5, <2>6, <2>7, <2>8, <2>9
<1>3. ASSUME NEW t \in Threads, EnterOutput(t) PROVE Sound'
  <2>1. PICK p \in waiting : SetThread(t, "output", p) /\ waiting' = waiting \ {p}
    BY <1>3 DEF EnterOutput
  <2>2. Typed'
    BY <1>3, <2>1 DEF EnterOutput
  <2>3. OnMain' /\ WritesFirst' /\ Resulting'
    BY <1>3, <2>1 DEF EnterOutput, OnMain, WritesFirst, Resulting
  <2>4. Fresh'
    BY <1>3, <2>1 DEF EnterOutput, Fresh, Resulting
  <2>5. Kept'
    <3>1. at'[t] = "output" /\ item'[t] = p
      BY <2>1
    <3>2. \A u \in Threads : at[u] = "output" => at'[u] = "output" /\ item'[u] = item[u]
      BY <1>3, <2>1 DEF EnterOutput
    <3> QED BY <1>3, <1>h, <2>1, <3>1, <3>2 DEF EnterOutput, Kept
  <2>6. Emptied'
    BY <1>3, <2>1 DEF EnterOutput, Emptied
  <2> QED BY <2>2, <2>3, <2>4, <2>5, <2>6
<1>4. ASSUME NEW t \in Threads, Push(t) PROVE Sound'
  <2>1. item[t] \in Prims
    BY <1>4 DEF Push
  <2>2. outQueue' \in Seq(Prims) /\ ToSet(outQueue') = ToSet(outQueue) \cup {item[t]}
    BY <1>4, <2>1, AppendElements DEF Push
  <2>3. Typed'
    BY <1>4, <2>2 DEF Push
  <2>4. OnMain' /\ WritesFirst'
    BY <1>4 DEF Push, OnMain, WritesFirst
  <2>5. Fresh'
    BY <1>4 DEF Push, Fresh
  <2>6. Resulting'
    BY <1>4, <2>2 DEF Push, Resulting
  <2>7. Kept'
    BY <1>4, <2>2 DEF Push, Kept, Handled, Edited
  <2>8. Emptied'
    BY <1>4 DEF Push, Emptied
  <2> QED BY <2>3, <2>4, <2>5, <2>6, <2>7, <2>8
<1>5. ASSUME NEW t \in Threads, WriteQueued(t) PROVE Sound'
  <2>1. t = Main /\ phase = "running"
    BY <1>5 DEF WriteQueued, OnMain, Emptied
  <2> QED BY <1>5, <2>1, WriteFrontStep DEF WriteQueued
<1>6. ASSUME NEW t \in Threads, LeaveOutput(t) PROVE Sound'
  BY <1>6 DEF LeaveOutput, OnMain, WritesFirst, Fresh, Resulting, Kept, Handled, Edited, Emptied
<1>7. CASE PipelineEnds
  <2>1. cancelled \/ waiting = {}
    BY <1>7 DEF PipelineEnds
  <2>2. Typed' /\ OnMain' /\ WritesFirst' /\ Fresh' /\ Resulting' /\ Emptied'
    <3>1. Typed'
      BY <1>7 DEF PipelineEnds
    <3>2. OnMain' /\ WritesFirst' /\ Fresh'
      BY <1>7 DEF PipelineEnds, OnMain, WritesFirst, Fresh
    <3>3. Resulting'
      BY <1>7 DEF PipelineEnds, Resulting
    <3>4. Emptied'
      BY <1>7 DEF PipelineEnds, Emptied
    <3> QED BY <3>1, <3>2, <3>3, <3>4
  <2>3. Kept'
    BY <1>7, <1>h, <2>1 DEF PipelineEnds, Kept
  <2> QED BY <2>2, <2>3
<1>8. CASE Flush
  BY <1>8, WriteFrontStep DEF Flush
<1>9. CASE DeletePrims
  <2>1. PICK deletions : /\ deletions = [i \in 1..Len(toDelete) |-> Edit(toDelete[i], "delete", Main)]
                         /\ edits' = edits \o deletions
    BY <1>9 DEF DeletePrims
  <2>2. Len(toDelete) \in Nat /\ DOMAIN toDelete = 1..Len(toDelete)
    BY LenProperties
  <2>3. deletions \in Seq(Edits)
    <3>1. \A i \in 1..Len(toDelete) : Edit(toDelete[i], "delete", Main) \in Edits
      BY <2>2 DEF Edit, Edits, Threads
    <3> QED BY <2>1, <2>2, <3>1
  <2>4. ToSet(deletions) = {Edit(p, "delete", Main) : p \in ToSet(toDelete)}
    BY <2>1, <2>2 DEF ToSet
  <2>5. /\ edits' \in Seq(Edits)
        /\ ToSet(edits') = ToSet(edits) \cup {Edit(p, "delete", Main) : p \in ToSet(toDelete)}
    <3>1. /\ edits \o deletions \in Seq(Edits)
          /\ ToSet(edits \o deletions) = ToSet(edits) \cup ToSet(deletions)
      BY <2>3, ConcatElements
    <3> QED BY <2>1, <2>4, <3>1
  <2>6. \A p : Edit(p, "delete", Main).prim = p /\ Edit(p, "delete", Main).kind = "delete"
               /\ Edit(p, "delete", Main).thread = Main
    BY DEF Edit
  <2>7. ToSet(toDelete') = {} /\ toDelete' \in Seq(Prims)
    BY <1>9 DEF DeletePrims, ToSet
  <2>8. Typed'
    BY <1>9, <2>5, <2>7 DEF DeletePrims
  <2>9. OnMain' /\ WritesFirst' /\ Fresh'
    <3>1. OnMain'
      <4>1. \A e \in ToSet(edits') : e.thread = Main
        <5> HIDE DEF Sound, Typed
        <5>1. \A e \in ToSet(edits) : e.thread = Main
          BY DEF Sound, OnMain
        <5>2. \A p : Edit(p, "delete", Main).thread = Main
          BY <2>6
        <5> QED BY <2>5, <5>1, <5>2
      <4>2. at' = at
        BY <1>9 DEF DeletePrims
      <4> QED BY <4>1, <4>2 DEF OnMain
    <3>2. WritesFirst'
      BY <1>9 DEF DeletePrims, WritesFirst
    <3>3. Fresh'
      BY <1>9 DEF DeletePrims, Fresh
    <3> QED BY <3>1, <3>2, <3>3
  <2>10. Resulting'
    BY <1>9, <2>5, <2>6, <2>7 DEF DeletePrims, Resulting
  <2>11. Kept'
    <3>1. ASSUME NEW p \in Prims, Handled(p) PROVE Handled(p)'
      <4>1. Edited(p) \/ p \in ToSet(toDelete) => Edited(p)'
        BY <2>5, <2>6 DEF Edited
      <4> QED BY <1>9, <3>1, <4>1 DEF DeletePrims, Handled
    <3> QED BY <1>9, <3>1 DEF DeletePrims, Kept
  <2>12. Emptied'
    BY <1>9 DEF DeletePrims, Emptied
  <2> QED BY <2>8, <2>9, <2>10, <2>11, <2>12
<1>10. CASE Post
  BY <1>10 DEF Post, OnMain, WritesFirst, Fresh, Resulting, Kept, Handled, Edited, Emptied
<1>11. CASE Ended \/ UNCHANGED vars
  <2>1. UNCHANGED vars
    BY <1>11 DEF Ended
  <2>2. Typed' /\ OnMain' /\ WritesFirst' /\ Fresh' /\ Resulting' /\ Emptied'
    BY <2>1 DEF vars, OnMain, WritesFirst, Fresh, Resulting, Emptied
  <2>3. Kept'
    BY <1>h, <2>1 DEF vars, Kept
  <2> QED BY <2>2, <2>3
<1> QED
  BY <1>1, <1>2, <1>3, <1>4, <1>5, <1>6, <1>7, <1>8, <1>9, <1>10, <1>11
     DEF Next, Pool, Finish

LEMMA SoundInvariant == Spec => []Sound
<1>1. Init => Sound
  <2> SUFFICES ASSUME Init PROVE Sound
    OBVIOUS
  <2> USE CountAssumption DEF Init
  <2>1. ToSet(<<>>) = {}
    BY DEF ToSet
  <2>2. Typed
    <3>1. /\ at \in [Threads -> {"idle", "processing", "output", "writing"}]
          /\ item \in [Threads -> Prims \cup {NoPrim}]
          /\ \A t \in Threads : item[t] # NoPrim <=> at[t] \in {"processing", "output"}
      OBVIOUS
    <3>2. outcome \in [Prims -> Outcomes]
      BY DEF Outcomes
    <3>3. <<>> \in Seq(Prims) /\ <<>> \in Seq(Edits)
      BY EmptySeq
    <3>4. outQueue \in Seq(Prims) /\ toDelete \in Seq(Prims) /\ edits \in Seq(Edits)
      BY <3>3
    <3>5. stopped \in BOOLEAN /\ cancelled \in BOOLEAN
      BY Zenon
    <3>6. primIndex \in 0..PrimCount
      OBVIOUS
    <3>7. waiting \subseteq Prims /\ stats \subseteq Prims /\ posted \subseteq Prims
      OBVIOUS
    <3> QED BY <3>1, <3>2, <3>4, <3>5, <3>6, <3>7 DEF Typed
  <2>3. Fresh
    BY DEF Fresh, Prims, NoPrim
  <2> QED BY <2>1, <2>2, <2>3 DEF Sound, OnMain, WritesFirst, Resulting, Kept, Emptied
<1> QED
  BY <1>1, SoundStep, PTL DEF Spec

\* The stage is only edited on the thread that called executeImpl, whichever threads
\* processed the prims and queued the results.
THEOREM MainThreadOnly == Spec => []WrittenOnMainThread
<1>1. Sound => WrittenOnMainThread
  <2> SUFFICES ASSUME Sound, NEW i \in 1..Len(edits) PROVE edits[i].thread = Main
    BY DEF WrittenOnMainThread
  <2>1. edits[i] \in ToSet(edits)
    BY DEF ToSet, Sound, Typed
  <2> QED BY <2>1 DEF Sound, OnMain
<1> QED BY <1>1, SoundInvariant, PTL

\* When executeImpl succeeds, the stage has the edits the results ask for, and no other.
THEOREM AllEdits == Spec => []EditsComplete
<1>1. Sound => EditsComplete
  <2> SUFFICES ASSUME Sound, phase = "done", NEW p \in Prims, NEW kind \in {"write", "delete"}
               PROVE  outcome[p] = kind <=>
                        \E i \in 1..Len(edits) : edits[i].prim = p /\ edits[i].kind = kind
    BY DEF EditsComplete
  <2> USE DEF Sound, Typed
  <2>1. ToSet(edits) = {edits[i] : i \in 1..Len(edits)}
    BY DEF ToSet
  <2>2. ToSet(outQueue) = {} /\ ToSet(toDelete) = {} /\ waiting = {} /\ ~cancelled
        /\ \A t \in Threads : at[t] = "idle"
    BY DEF Emptied, ToSet
  <2>3. ASSUME outcome[p] = kind PROVE Edited(p)
    BY <2>2, <2>3 DEF Kept, Handled
  <2>4. \A e \in ToSet(edits) : e.kind = outcome[e.prim]
    BY DEF Resulting
  <2>5. ASSUME outcome[p] = kind
        PROVE  \E i \in 1..Len(edits) : edits[i].prim = p /\ edits[i].kind = kind
    <3>1. PICK e \in ToSet(edits) : e.prim = p
      BY <2>3, <2>5 DEF Edited
    <3>2. PICK i \in 1..Len(edits) : edits[i] = e
      BY <2>1
    <3> QED BY <2>4, <2>5, <3>1, <3>2
  <2>6. ASSUME NEW i \in 1..Len(edits), edits[i].prim = p, edits[i].kind = kind
        PROVE  outcome[p] = kind
    BY <2>1, <2>4, <2>6
  <2> QED BY <2>5, <2>6
<1> QED BY <1>1, SoundInvariant, PTL

\* executePost gets the statistics of every prim that has a result.
THEOREM AllStats == Spec => []StatsBeforePost
<1>1. Sound => StatsBeforePost
  <2> SUFFICES ASSUME Sound, phase = "done" PROVE posted = {p \in Prims : outcome[p] # "none"}
    BY DEF StatsBeforePost
  <2> USE DEF Sound, Typed
  <2>1. ToSet(outQueue) = {} /\ waiting = {} /\ ~cancelled /\ posted = stats
        /\ \A t \in Threads : at[t] = "idle"
    BY DEF Emptied, ToSet
  <2>2. ASSUME NEW p \in Prims, outcome[p] # "none" PROVE p \in stats
    BY <2>1, <2>2 DEF Kept, Handled
  <2> QED BY <2>1, <2>2 DEF Resulting
<1> QED BY <1>1, SoundInvariant, PTL

\* No write follows a deletion: deletions wait for the destructor of the filter.
THEOREM DeletionsLast == Spec => DeletedLast
<1>1. Sound /\ [Next]_vars
        => [Len(edits') > Len(edits) /\ Last(edits').kind = "write"
              => \A i \in 1..Len(edits) : edits[i].kind = "write"]_vars
  <2> SUFFICES ASSUME Sound, [Next]_vars, Len(edits') > Len(edits), Last(edits').kind = "write",
                      NEW i \in 1..Len(edits)
               PROVE  edits[i].kind = "write"
    OBVIOUS
  <2> USE DEF Sound, Typed
  <2>1. edits[i] \in ToSet(edits)
    BY DEF ToSet
  <2>2. CASE phase \in {"running", "flushing"}
    BY <2>1, <2>2 DEF WritesFirst
  <2>3. CASE phase \notin {"running", "flushing"}
    <3>1. UNCHANGED edits
      BY <2>3 DEF Emptied, Next, Pool, Finish, TakePrim, Process, EnterOutput, Push,
                  WriteQueued, LeaveOutput, PipelineEnds, Flush, DeletePrims, Post, Ended,
                  outputVars, vars
    <3> QED BY <3>1
  <2> QED BY <2>2, <2>3
<1> QED BY <1>1, SoundInvariant, PTL DEF Spec, DeletedLast

-----------------------------------------------------------------------------
\* No element of a sequence occurs twice, ...
Distinct(q) == \A i, j \in 1..Len(q) : q[i] = q[j] => i = j

\* ... and so none of its tail is its head, ...
LEMMA FrontDistinct ==
  ASSUME NEW S, NEW q \in Seq(S), q # <<>>, Distinct(q)
  PROVE  Distinct(Tail(q)) /\ Head(q) \notin ToSet(Tail(q))
<1>1. /\ Tail(q) \in Seq(S) /\ Len(Tail(q)) = Len(q) - 1
      /\ \A i \in 1..Len(Tail(q)) : Tail(q)[i] = q[i + 1]
      /\ Head(q) = q[1]
  BY HeadTailProperties
<1>2. Len(q) \in Nat \ {0} /\ DOMAIN Tail(q) = 1..Len(q) - 1
  BY <1>1, EmptySeq, LenProperties
<1>3. ASSUME NEW i \in 1..Len(q) - 1 PROVE i + 1 \in 1..Len(q) /\ 1 \in 1..Len(q) /\ i + 1 # 1
  BY <1>2
<1>4. \A i, j \in 1..Len(q) - 1 : Tail(q)[i] = Tail(q)[j] => i = j
  <2> SUFFICES ASSUME NEW i \in 1..Len(q) - 1, NEW j \in 1..Len(q) - 1, Tail(q)[i] = Tail(q)[j]
               PROVE  i = j
    OBVIOUS
  <2>1. i + 1 \in 1..Len(q) /\ j + 1 \in 1..Len(q) /\ q[i + 1] = q[j + 1]
    BY <1>1, <1>3
  <2>2. i + 1 = j + 1
    BY <2>1 DEF Distinct
  <2> QED BY <2>2, <1>2
<1>5. \A i \in 1..Len(q) - 1 : Tail(q)[i] # Head(q)
  BY <1>1, <1>3 DEF Distinct
<1> QED BY <1>1, <1>2, <1>4, <1>5 DEF Distinct, ToSet

\* ... nor when two sequences without a common element are joined.
LEMMA ConcatDistinct ==
  ASSUME NEW S, NEW q \in Seq(S), NEW r \in Seq(S), Distinct(q), Distinct(r),
         ToSet(q) \cap ToSet(r) = {}
  PROVE  Distinct(q \o r)
<1>1. /\ Len(q \o r) = Len(q) + Len(r)
      /\ \A i \in 1..Len(q) + Len(r) : (q \o r)[i] = IF i <= Len(q) THEN q[i] ELSE r[i - Len(q)]
  BY ConcatProperties
<1>2. /\ Len(q) \in Nat /\ DOMAIN q = 1..Len(q)
      /\ Len(r) \in Nat /\ DOMAIN r = 1..Len(r)
  BY LenProperties
<1>3. ASSUME NEW i \in 1..Len(q) + Len(r), NEW j \in 1..Len(q) + Len(r), (q \o r)[i] = (q \o r)[j]
      PROVE  i = j
  <2>1. ASSUME NEW k \in 1..Len(q) + Len(r), k <= Len(q)
        PROVE  k \in 1..Len(q) /\ (q \o r)[k] = q[k] /\ q[k] \in ToSet(q)
    BY <2>1, <1>1, <1>2 DEF ToSet
  <2>2. ASSUME NEW k \in 1..Len(q) + Len(r), ~(k <= Len(q))
        PROVE  k - Len(q) \in 1..Len(r) /\ (q \o r)[k] = r[k - Len(q)] /\ r[k - Len(q)] \in ToSet(r)
    <3>1. k - Len(q) \in 1..Len(r)
      BY <2>2, <1>2
    <3> QED BY <2>2, <3>1, <1>1, <1>2 DEF ToSet
  <2>3. CASE i <= Len(q) /\ j <= Len(q)
    BY <2>1, <2>3, <1>3 DEF Distinct
  <2>4. CASE ~(i <= Len(q)) /\ ~(j <= Len(q))
    <3>1. i - Len(q) = j - Len(q)
      BY <2>2, <2>4, <1>3 DEF Distinct
    <3> QED BY <3>1, <1>2
  <2>5. CASE i <= Len(q) /\ ~(j <= Len(q))
    BY <2>1, <2>2, <2>5, <1>3
  <2>6. CASE ~(i <= Len(q)) /\ j <= Len(q)
    BY <2>1, <2>2, <2>6, <1>3
  <2> QED BY <2>3, <2>4, <2>5, <2>6
<1> QED BY <1>1, <1>3 DEF Distinct

LEMMA AppendDistinct ==
  ASSUME NEW S, NEW q \in Seq(S), NEW x \in S, Distinct(q), x \notin ToSet(q)
  PROVE  Distinct(Append(q, x))
<1>1. <<x>> \in Seq(S) /\ Len(<<x>>) = 1 /\ ToSet(<<x>>) = {x}
  BY DEF ToSet
<1>2. Distinct(<<x>>)
  BY <1>1 DEF Distinct
<1>3. Append(q, x) = q \o <<x>>
  BY AppendIsConcat
<1> QED BY <1>1, <1>2, <1>3, ConcatDistinct

\* A set of at most one element.
LEMMA AtMostOne ==
  ASSUME NEW S, \A x, y \in S : x = y
  PROVE  Cardinality(S) = IF S = {} THEN 0 ELSE 1
<1>1. CASE S = {}
  BY <1>1, FS_EmptySet
<1>2. CASE S # {}
  <2>1. PICK x : S = {x}
    BY <1>2
  <2> QED BY <2>1, <1>2, FS_Singleton
<1> QED BY <1>1, <1>2

-----------------------------------------------------------------------------
PrimsOf(es) == [i \in 1..Len(es) |-> es[i].prim]
Hand == {item[t] : t \in Threads} \ {NoPrim}

Disjoint(A, B) == A \cap B = {}

\* A prim is in one place: in one thread's hand, waiting, queued, to be deleted, or edited.
Once == /\ \A t, u \in Threads : item[t] # NoPrim /\ item[t] = item[u] => t = u
        /\ Distinct(outQueue) /\ Distinct(toDelete) /\ Distinct(PrimsOf(edits))
        /\ Disjoint(Hand, waiting) /\ Disjoint(Hand, ToSet(outQueue))
        /\ Disjoint(Hand, ToSet(toDelete)) /\ Disjoint(Hand, ToSet(PrimsOf(edits)))
        /\ Disjoint(waiting, ToSet(outQueue)) /\ Disjoint(waiting, ToSet(toDelete))
        /\ Disjoint(waiting, ToSet(PrimsOf(edits)))
        /\ Disjoint(ToSet(outQueue), ToSet(toDelete))
        /\ Disjoint(ToSet(outQueue), ToSet(PrimsOf(edits)))
        /\ Disjoint(ToSet(toDelete), ToSet(PrimsOf(edits)))

LEMMA PrimsOfEdits ==
  ASSUME NEW es \in Seq(Edits)
  PROVE  /\ PrimsOf(es) \in Seq(Prims) /\ Len(PrimsOf(es)) = Len(es)
         /\ \A i \in 1..Len(es) : PrimsOf(es)[i] = es[i].prim
<1>1. ASSUME NEW i \in 1..Len(es) PROVE es[i].prim \in Prims
  <2>1. es[i] \in Edits
    BY ElementOfSeq
  <2> QED BY <2>1 DEF Edits
<1>2. Len(es) \in Nat
  BY LenProperties
<1> QED BY <1>1, <1>2 DEF PrimsOf

LEMMA PrimsOfConcat ==
  ASSUME NEW es \in Seq(Edits), NEW ds \in Seq(Edits)
  PROVE  PrimsOf(es \o ds) = PrimsOf(es) \o PrimsOf(ds)
<1>1. /\ es \o ds \in Seq(Edits) /\ Len(es \o ds) = Len(es) + Len(ds)
      /\ \A i \in 1..Len(es) + Len(ds) : (es \o ds)[i] = IF i <= Len(es) THEN es[i] ELSE ds[i - Len(es)]
  BY ConcatProperties
<1>2. Len(es) \in Nat /\ Len(ds) \in Nat
  BY LenProperties
<1>3. /\ PrimsOf(es) \in Seq(Prims) /\ Len(PrimsOf(es)) = Len(es)
      /\ PrimsOf(ds) \in Seq(Prims) /\ Len(PrimsOf(ds)) = Len(ds)
      /\ PrimsOf(es \o ds) \in Seq(Prims) /\ Len(PrimsOf(es \o ds)) = Len(es) + Len(ds)
  BY <1>1, PrimsOfEdits
<1>4. /\ PrimsOf(es) \o PrimsOf(ds) \in Seq(Prims)
      /\ Len(PrimsOf(es) \o PrimsOf(ds)) = Len(es) + Len(ds)
      /\ \A i \in 1..Len(es) + Len(ds) :
           (PrimsOf(es) \o PrimsOf(ds))[i] = IF i <= Len(es) THEN PrimsOf(es)[i] ELSE PrimsOf(ds)[i - Len(es)]
  <2> DEFINE ps == PrimsOf(es)  rs == PrimsOf(ds)
  <2>1. ps \in Seq(Prims) /\ rs \in Seq(Prims) /\ Len(ps) = Len(es) /\ Len(rs) = Len(ds)
    BY <1>3
  <2> HIDE DEF ps, rs
  <2>2. /\ ps \o rs \in Seq(Prims) /\ Len(ps \o rs) = Len(ps) + Len(rs)
        /\ \A i \in 1..Len(ps) + Len(rs) : (ps \o rs)[i] = IF i <= Len(ps) THEN ps[i] ELSE rs[i - Len(ps)]
    BY <2>1, ConcatProperties
  <2> QED BY <2>1, <2>2 DEF ps, rs
<1>5. ASSUME NEW i \in 1..Len(es) + Len(ds)
      PROVE  PrimsOf(es \o ds)[i] = (PrimsOf(es) \o PrimsOf(ds))[i]
  <2>1. PrimsOf(es \o ds)[i] = (es \o ds)[i].prim
    BY <1>1, PrimsOfEdits
  <2>2. CASE i <= Len(es)
    <3>1. i \in 1..Len(es)
      BY <1>2, <2>2
    <3>2. PrimsOf(es)[i] = es[i].prim
      BY <3>1, PrimsOfEdits
    <3> QED BY <1>1, <1>4, <2>1, <2>2, <3>2
  <2>3. CASE ~(i <= Len(es))
    <3>1. i - Len(es) \in 1..Len(ds)
      BY <1>2, <2>3
    <3>2. PrimsOf(ds)[i - Len(es)] = ds[i - Len(es)].prim
      BY <3>1, PrimsOfEdits
    <3> QED BY <1>1, <1>4, <2>1, <2>3, <3>2
  <2> QED BY <2>2, <2>3
<1> DEFINE left == PrimsOf(es \o ds)  right == PrimsOf(es) \o PrimsOf(ds)
<1>6. left \in Seq(Prims) /\ right \in Seq(Prims) /\ Len(left) = Len(right)
      /\ \A i \in 1..Len(left) : left[i] = right[i]
  BY <1>3, <1>4, <1>5
<1> HIDE DEF left, right
<1>7. left = right
  BY <1>6, SeqEqual
<1> QED BY <1>7 DEF left, right

\* Prims without a result, or with none that asks for it, are not beyond processing.
LEMMA Untouched ==
  ASSUME Sound, NEW p \in Prims, outcome[p] = "none"
  PROVE  p \notin waiting \cup ToSet(outQueue) \cup ToSet(toDelete) \cup ToSet(PrimsOf(edits))
<1> USE DEF Sound, Typed
<1>1. p \notin waiting \cup ToSet(outQueue) \cup ToSet(toDelete)
  BY DEF Resulting
<1>2. ASSUME NEW i \in 1..Len(edits) PROVE edits[i].prim # p
  <2>1. edits[i] \in Edits /\ edits[i] \in ToSet(edits)
    BY ElementOfSeq DEF ToSet
  <2>2. edits[i].kind = outcome[edits[i].prim] /\ edits[i].kind \in {"write", "delete"}
    BY <2>1 DEF Resulting, Edits
  <2> QED BY <2>2
<1>3. p \notin ToSet(PrimsOf(edits))
  <2>1. DOMAIN PrimsOf(edits) = 1..Len(edits)
    BY DEF PrimsOf
  <2>2. \A i \in 1..Len(edits) : PrimsOf(edits)[i] = edits[i].prim
    BY PrimsOfEdits
  <2> QED BY <1>2, <2>1, <2>2 DEF ToSet
<1> QED BY <1>1, <1>3

\* What is behind the filter stays apart and without repetition as one round of
\* writeQueued moves the front of the queue to the edits, the deletions or nowhere.
LEMMA WriteFrontOnce ==
  ASSUME Sound, Once, outQueue # <<>>, WriteFront(Main), UNCHANGED <<item, waiting>>
  PROVE  Once'
<1> USE DEF Sound, Typed
<1>1. PICK p \in Prims : p = Head(outQueue)
  BY FrontElements
<1>2. /\ outQueue' = Tail(outQueue) /\ outQueue' \in Seq(Prims)
      /\ ToSet(outQueue) = {p} \cup ToSet(outQueue')
      /\ Distinct(outQueue') /\ p \notin ToSet(outQueue')
  BY <1>1, FrontElements, FrontDistinct DEF WriteFront, Once
<1>3. p \notin ToSet(toDelete) /\ p \notin ToSet(PrimsOf(edits)) /\ p \notin Hand /\ p \notin waiting
  BY <1>2 DEF Once, Disjoint
<1>4. /\ Distinct(toDelete')
      /\ ToSet(toDelete') = IF outcome[p] = "delete" THEN ToSet(toDelete) \cup {p} ELSE ToSet(toDelete)
  <2>1. toDelete' = IF outcome[p] = "delete" THEN Append(toDelete, p) ELSE toDelete
    BY <1>1 DEF WriteFront
  <2>2. Distinct(toDelete)
    BY DEF Once
  <2>3. Distinct(Append(toDelete, p)) /\ ToSet(Append(toDelete, p)) = ToSet(toDelete) \cup {p}
    BY <1>3, <2>2, AppendDistinct, AppendElements
  <2> QED BY <2>1, <2>2, <2>3
<1>5. /\ Distinct(PrimsOf(edits'))
      /\ ToSet(PrimsOf(edits')) = IF outcome[p] = "write" THEN ToSet(PrimsOf(edits)) \cup {p}
                                                          ELSE ToSet(PrimsOf(edits))
  <2>1. edits' = IF outcome[p] = "write" THEN Append(edits, Edit(p, "write", Main)) ELSE edits
    BY <1>1 DEF WriteFront
  <2>2. Distinct(PrimsOf(edits)) /\ PrimsOf(edits) \in Seq(Prims)
    BY PrimsOfEdits DEF Once
  <2>3. PrimsOf(Append(edits, Edit(p, "write", Main))) = Append(PrimsOf(edits), p)
    <3> DEFINE one == <<Edit(p, "write", Main)>>
    <3>1. Edit(p, "write", Main) \in Edits /\ Edit(p, "write", Main).prim = p
      BY DEF Edit, Edits, Threads
    <3>2. one \in Seq(Edits) /\ Len(one) = 1 /\ one[1].prim = p
      BY <3>1
    <3>3. PrimsOf(one) = <<p>>
      BY <3>2 DEF PrimsOf
    <3>4. Append(edits, Edit(p, "write", Main)) = edits \o one
      BY <3>1, AppendIsConcat
    <3>5. PrimsOf(edits \o one) = PrimsOf(edits) \o <<p>>
      BY <3>2, <3>3, PrimsOfConcat
    <3>6. Append(PrimsOf(edits), p) = PrimsOf(edits) \o <<p>>
      BY <2>2, AppendIsConcat
    <3> QED BY <3>4, <3>5, <3>6
  <2>4. /\ Distinct(Append(PrimsOf(edits), p))
        /\ ToSet(Append(PrimsOf(edits), p)) = ToSet(PrimsOf(edits)) \cup {p}
    <3> DEFINE ps == PrimsOf(edits)
    <3>1. ps \in Seq(Prims) /\ Distinct(ps) /\ p \notin ToSet(ps)
      BY <1>3, <2>2
    <3> HIDE DEF ps
    <3>2. Distinct(Append(ps, p)) /\ ToSet(Append(ps, p)) = ToSet(ps) \cup {p}
      BY <3>1, AppendDistinct, AppendElements
    <3> QED BY <3>2 DEF ps
  <2> QED BY <2>1, <2>2, <2>3, <2>4
<1>6. outcome[p] = "write" => outcome[p] # "delete"
  OBVIOUS
<1>7. Hand' = Hand /\ waiting' = waiting
  BY DEF Hand
<1>8. \A t, u \in Threads : item'[t] # NoPrim /\ item'[t] = item'[u] => t = u
  BY DEF Once
<1> QED
  <2> HIDE DEF Sound, Typed
  <2> QED BY <1>2, <1>3, <1>4, <1>5, <1>6, <1>7, <1>8 DEF Once, Disjoint

Alone == \A t, u \in Threads : item[t] # NoPrim /\ item[t] = item[u] => t = u

\* A thread without a prim takes one that no thread has, ...
LEMMA HandTakes ==
  ASSUME Typed, Alone, NEW t \in Threads, item[t] = NoPrim,
         NEW p \in Prims, p \notin Hand, item' = [item EXCEPT ![t] = p]
  PROVE  Alone' /\ Hand' = Hand \cup {p}
<1>1. p # NoPrim /\ \A u \in Threads : item[u] # p
  BY DEF Prims, NoPrim, Hand
<1>2. item'[t] = p /\ \A u \in Threads \ {t} : item'[u] = item[u]
  BY DEF Typed
<1> QED BY <1>1, <1>2 DEF Alone, Hand

\* ... and hands it on.
LEMMA HandDrops ==
  ASSUME Typed, Alone, NEW t \in Threads, item' = [item EXCEPT ![t] = NoPrim]
  PROVE  Alone' /\ Hand' = Hand \ {item[t]}
<1>1. item'[t] = NoPrim /\ \A u \in Threads \ {t} : item'[u] = item[u]
  BY DEF Typed
<1> QED BY <1>1 DEF Alone, Hand

LEMMA OnceStep == Sound /\ Once /\ [Next]_vars => Once'
<1> SUFFICES ASSUME Sound, Once, [Next]_vars PROVE Once'
  OBVIOUS
<1>a. Alone /\ Typed
  BY DEF Once, Alone, Sound
<1>b. \A t \in Threads : at[t] \in {"idle", "writing"} => item[t] = NoPrim
  BY DEF Sound, Typed
<1>c. \A t \in Threads : at[t] \in {"processing", "output"} => item[t] \in Prims /\ item[t] \in Hand
  BY DEF Sound, Typed, Hand
<1>k. UNCHANGED <<item, waiting, outQueue, toDelete, edits>> => Once'
  BY DEF Once, Hand
<1>1. ASSUME NEW t \in Threads, TakePrim(t) PROVE Once'
  <2>1. CASE primIndex < PrimCount
    <3>1. PICK q : q = primIndex + 1
      OBVIOUS
    <3>2. /\ q \in Prims /\ q > primIndex
      BY <2>1, <3>1, <1>a, CountAssumption DEF Typed, Prims
    <3>3. outcome[q] = "none" /\ q \notin Hand
      BY <3>2 DEF Sound, Fresh, Hand
    <3>4. q \notin waiting \cup ToSet(outQueue) \cup ToSet(toDelete) \cup ToSet(PrimsOf(edits))
      BY <3>2, <3>3, Untouched
    <3>5. /\ item[t] = NoPrim /\ item' = [item EXCEPT ![t] = q]
          /\ UNCHANGED <<waiting, outQueue, toDelete, edits>>
      BY <1>1, <1>b, <2>1, <3>1 DEF TakePrim, SetThread, outputVars
    <3>6. Alone' /\ Hand' = Hand \cup {q}
      BY <1>a, <3>2, <3>3, <3>5, HandTakes
    <3> QED BY <3>4, <3>5, <3>6 DEF Once, Alone, Disjoint
  <2>2. CASE ~(primIndex < PrimCount)
    BY <1>1, <1>k, <2>2 DEF TakePrim, threadVars, outputVars
  <2> QED BY <2>1, <2>2
<1>2. ASSUME NEW t \in Threads, Process(t) PROVE Once'
  <2>1. /\ item[t] \in Hand /\ item' = [item EXCEPT ![t] = NoPrim]
        /\ waiting' \subseteq waiting \cup {item[t]}
        /\ UNCHANGED <<outQueue, toDelete, edits>>
    BY <1>2, <1>c DEF Process, SetThread, outputVars
  <2>2. Alone' /\ Hand' = Hand \ {item[t]}
    BY <1>a, <2>1, HandDrops
  <2> QED BY <2>1, <2>2 DEF Once, Alone, Disjoint
<1>3. ASSUME NEW t \in Threads, EnterOutput(t) PROVE Once'
  <2>1. PICK p \in waiting : item' = [item EXCEPT ![t] = p] /\ waiting' = waiting \ {p}
    BY <1>3 DEF EnterOutput, SetThread
  <2>2. /\ item[t] = NoPrim /\ p \in Prims /\ p \notin Hand
        /\ UNCHANGED <<outQueue, toDelete, edits>>
    BY <1>3, <1>a, <1>b DEF EnterOutput, outputVars, Typed, Once, Disjoint
  <2>3. Alone' /\ Hand' = Hand \cup {p}
    BY <1>a, <2>1, <2>2, HandTakes
  <2> QED BY <2>1, <2>2, <2>3 DEF Once, Alone, Disjoint
<1>4. ASSUME NEW t \in Threads, Push(t) PROVE Once'
  <2>1. /\ item[t] \in Hand /\ item[t] \in Prims /\ item' = [item EXCEPT ![t] = NoPrim]
        /\ outQueue' = Append(outQueue, item[t]) /\ UNCHANGED <<waiting, toDelete, edits>>
    BY <1>4, <1>c DEF Push, SetThread, outputVars
  <2>2. Alone' /\ Hand' = Hand \ {item[t]}
    BY <1>a, <2>1, HandDrops
  <2>3. item[t] \notin ToSet(outQueue) /\ Distinct(outQueue)
    BY <2>1 DEF Once, Disjoint
  <2>4. outQueue \in Seq(Prims)
    BY <1>a DEF Typed
  <2>5. Distinct(outQueue') /\ ToSet(outQueue') = ToSet(outQueue) \cup {item[t]}
    BY <2>1, <2>3, <2>4, AppendDistinct, AppendElements
  <2> QED BY <2>1, <2>2, <2>5 DEF Once, Alone, Disjoint
<1>5. ASSUME NEW t \in Threads, WriteQueued(t) PROVE Once'
  <2>1. t = Main
    BY <1>5 DEF WriteQueued, Sound, OnMain
  <2> QED BY <1>5, <2>1, WriteFrontOnce DEF WriteQueued, threadVars
<1>6. ASSUME NEW t \in Threads, LeaveOutput(t) PROVE Once'
  <2>1. item' = item /\ UNCHANGED <<waiting, outQueue, toDelete, edits>>
    BY <1>6, <1>a, <1>b DEF LeaveOutput, SetThread, outputVars, Typed
  <2> QED BY <2>1, <1>k
<1>7. CASE PipelineEnds
  BY <1>7 DEF PipelineEnds, threadVars, outputVars, Once, Hand, Disjoint
<1>8. CASE Flush
  BY <1>8, WriteFrontOnce DEF Flush, threadVars
<1>9. CASE DeletePrims
  <2>1. PICK deletions : /\ deletions = [i \in 1..Len(toDelete) |-> Edit(toDelete[i], "delete", Main)]
                         /\ edits' = edits \o deletions
    BY <1>9 DEF DeletePrims
  <2>2. toDelete \in Seq(Prims) /\ edits \in Seq(Edits) /\ Len(toDelete) \in Nat
    BY <1>a, LenProperties DEF Typed
  <2>3. \A i \in 1..Len(toDelete) : /\ Edit(toDelete[i], "delete", Main) \in Edits
                                    /\ Edit(toDelete[i], "delete", Main).prim = toDelete[i]
    BY <2>2, ElementOfSeq DEF Edit, Edits, Threads
  <2>4. deletions \in Seq(Edits) /\ Len(deletions) = Len(toDelete)
    <3> DEFINE Deletion(i) == Edit(toDelete[i], "delete", Main)
    <3>1. deletions = [i \in 1..Len(toDelete) |-> Deletion(i)]
      BY <2>1
    <3>2. \A i \in 1..Len(toDelete) : Deletion(i) \in Edits
      BY <2>3
    <3> HIDE DEF Deletion
    <3> QED BY <2>2, <3>1, <3>2
  <2>5. PrimsOf(deletions) = toDelete
    <3>1. /\ PrimsOf(deletions) \in Seq(Prims) /\ Len(PrimsOf(deletions)) = Len(toDelete)
          /\ \A i \in 1..Len(toDelete) : PrimsOf(deletions)[i] = toDelete[i]
      BY <2>1, <2>3, <2>4, PrimsOfEdits
    <3> QED BY <2>2, <3>1, SeqEqual
  <2>6. PrimsOf(edits') = PrimsOf(edits) \o toDelete /\ PrimsOf(edits) \in Seq(Prims)
    BY <2>1, <2>2, <2>4, <2>5, PrimsOfConcat, PrimsOfEdits
  <2>7. PICK ps \in Seq(Prims) : ps = PrimsOf(edits)
    BY <2>6
  <2>8. Distinct(ps \o toDelete) /\ ToSet(ps \o toDelete) = ToSet(ps) \cup ToSet(toDelete)
    <3>1. Distinct(ps) /\ Distinct(toDelete) /\ ToSet(ps) \cap ToSet(toDelete) = {}
      BY <2>7 DEF Once, Disjoint
    <3> QED BY <2>2, <3>1, ConcatDistinct, ConcatElements
  <2>9. UNCHANGED <<item, waiting, outQueue>> /\ ToSet(toDelete') = {} /\ Distinct(toDelete')
    BY <1>9 DEF DeletePrims, threadVars, ToSet, Distinct
  <2> QED BY <2>6, <2>7, <2>8, <2>9 DEF Once, Hand, Disjoint
<1>10. CASE Post \/ Ended \/ UNCHANGED vars
  BY <1>10, <1>k DEF Post, Ended, vars, threadVars, outputVars
<1> QED
  BY <1>1, <1>2, <1>3, <1>4, <1>5, <1>6, <1>7, <1>8, <1>9, <1>10 DEF Next, Pool, Finish

\* However the threads take, queue and write the prims, each is in one place on its way
\* and is edited at most once.
THEOREM OncePerPrim == Spec => []ProcessedOnce
<1>1. Init => Once
  <2> SUFFICES ASSUME Init PROVE Once
    OBVIOUS
  <2>1. outQueue = <<>> /\ toDelete = <<>> /\ edits = <<>> /\ waiting = {} /\ Hand = {}
        /\ \A t \in Threads : item[t] = NoPrim
    BY DEF Init, Hand
  <2>2. PrimsOf(<<>>) = <<>>
    BY DEF PrimsOf
  <2>3. ToSet(<<>>) = {} /\ Distinct(<<>>)
    BY DEF ToSet, Distinct
  <2> QED BY <2>1, <2>2, <2>3 DEF Once, Disjoint
<1>2. Sound /\ Once => ProcessedOnce
  <2> SUFFICES ASSUME Sound, Once, NEW p \in Prims PROVE Places(p) <= 1
    BY DEF ProcessedOnce
  <2> DEFINE A == {t \in Threads : item[t] = p}
             C == {i \in 1..Len(outQueue) : outQueue[i] = p}
             D == {i \in 1..Len(toDelete) : toDelete[i] = p}
             E == {i \in 1..Len(edits) : edits[i].prim = p}
  <2>0. p # NoPrim
    BY DEF Prims, NoPrim
  <2>1. /\ Cardinality(A) = IF A = {} THEN 0 ELSE 1
        /\ A # {} => p \in Hand
    <3>1. \A x, y \in A : x = y
      BY <2>0 DEF Once
    <3>2. A # {} => p \in Hand
      BY <2>0 DEF Hand
    <3> HIDE DEF A
    <3> QED BY <3>1, <3>2, AtMostOne
  <2>2. /\ Cardinality(C) = IF C = {} THEN 0 ELSE 1
        /\ C # {} => p \in ToSet(outQueue)
    <3>1. \A x, y \in C : x = y
      BY DEF Once, Distinct
    <3>2. C # {} => p \in ToSet(outQueue)
      BY LenProperties DEF ToSet, Sound, Typed
    <3> HIDE DEF C
    <3> QED BY <3>1, <3>2, AtMostOne
  <2>3. /\ Cardinality(D) = IF D = {} THEN 0 ELSE 1
        /\ D # {} => p \in ToSet(toDelete)
    <3>1. \A x, y \in D : x = y
      BY DEF Once, Distinct
    <3>2. D # {} => p \in ToSet(toDelete)
      BY LenProperties DEF ToSet, Sound, Typed
    <3> HIDE DEF D
    <3> QED BY <3>1, <3>2, AtMostOne
  <2>4. /\ Cardinality(E) = IF E = {} THEN 0 ELSE 1
        /\ E # {} => p \in ToSet(PrimsOf(edits))
    <3>0. /\ Len(PrimsOf(edits)) = Len(edits) /\ DOMAIN PrimsOf(edits) = 1..Len(edits)
          /\ \A i \in 1..Len(edits) : PrimsOf(edits)[i] = edits[i].prim
      BY PrimsOfEdits DEF Sound, Typed, PrimsOf
    <3>1. \A x, y \in E : x = y
      BY <3>0 DEF Once, Distinct
    <3>2. E # {} => p \in ToSet(PrimsOf(edits))
      BY <3>0 DEF ToSet
    <3> HIDE DEF E
    <3> QED BY <3>1, <3>2, AtMostOne
  <2>5. Places(p) = Cardinality(A) + (IF p \in waiting THEN 1 ELSE 0)
                    + Cardinality(C) + Cardinality(D) + Cardinality(E)
    BY DEF Places
  <2> HIDE DEF A, C, D, E
  <2>6. PICK a, w, c, d, e \in {0, 1} :
          /\ Places(p) = a + w + c + d + e
          /\ a = 1 => p \in Hand
          /\ w = 1 => p \in waiting
          /\ c = 1 => p \in ToSet(outQueue)
          /\ d = 1 => p \in ToSet(toDelete)
          /\ e = 1 => p \in ToSet(PrimsOf(edits))
    BY <2>1, <2>2, <2>3, <2>4, <2>5
  <2> QED BY <2>6 DEF Once, Disjoint
<1> QED BY <1>1, <1>2, SoundInvariant, OnceStep, PTL DEF Spec
===============================================================================
