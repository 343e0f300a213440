---------------------------- MODULE ReportProofs ----------------------------
(***************************************************************************)
(* Proofs about Report for any loggers, messages and number of logs.       *)
(***************************************************************************)
EXTENDS Report, SequenceTheorems, TLAPS

\* The types of Report's variables, and what they say of one another, are
\* preserved by every step of initialize(), log(), the writer and ~Report().
THEOREM TypeCorrect == Spec => []TypeOK
<1>1. Init => TypeOK
  BY EmptySeq DEF Init, TypeOK, Phases, Writers, Destroying
<1>2. TypeOK /\ [Next]_vars => TypeOK'
  <2> SUFFICES ASSUME TypeOK, [Next]_vars PROVE TypeOK'
    OBVIOUS
  <2> USE DEF TypeOK, Phases, Writers, Destroying
  <2>1. CASE Initialize
    BY <2>1 DEF Initialize
  <2>2. ASSUME NEW t \in Loggers, Log(t) PROVE TypeOK'
    BY <2>2 DEF Log, MutexFree
  <2>3. ASSUME NEW t \in Loggers, LogNotify(t) PROVE TypeOK'
    BY <2>3 DEF LogNotify, Wake
  <2>4. CASE WriterWait
    BY <2>4 DEF WriterWait
  <2>5. CASE WriterTake
    <3>1. Head(queue) \in Messages /\ Tail(queue) \in Seq(Messages)
      BY <2>5, HeadTailProperties DEF WriterTake
    <3>2. held' \in Seq(Messages) /\ Len(held') = 1
      BY <2>5, <3>1 DEF WriterTake
    <3> QED BY <2>5, <3>1, <3>2 DEF WriterTake
  <2>6. CASE WriterWrite
    <3>1. out' \in Seq(Messages)
      BY <2>6, ConcatProperties DEF WriterWrite
    <3>2. held' \in Seq(Messages)
      BY <2>6 DEF WriterWrite
    <3> QED BY <2>6, <3>1, <3>2 DEF WriterWrite
  <2>7. CASE WriterShutdown
    BY <2>7 DEF WriterShutdown
  <2>8. CASE WriterFlush
    <3>1. Head(queue) \in Messages /\ Tail(queue) \in Seq(Messages)
      BY <2>8, HeadTailProperties DEF WriterFlush
    <3> QED BY <2>8, <3>1 DEF WriterFlush
  <2>9. CASE WriterReturn
    BY <2>9 DEF WriterReturn
  <2>10. CASE WriterSpuriousWakeup
    BY <2>10 DEF WriterSpuriousWakeup
  <2>11. CASE Destroy
    BY <2>11 DEF Destroy, MutexFree
  <2>12. CASE DestroyNotify
    BY <2>12 DEF DestroyNotify, Wake
  <2>13. CASE DestroyClose
    BY <2>13 DEF DestroyClose
  <2>14. CASE UNCHANGED vars
    BY <2>14 DEF vars
  <2> QED
    BY <2>1, <2>2, <2>3, <2>4, <2>5, <2>6, <2>7, <2>8, <2>9, <2>10, <2>11, <2>12,
       <2>13, <2>14 DEF Next, Writer, Closed
<1> QED
  BY <1>1, <1>2, PTL DEF Spec, SafetySpec

-----------------------------------------------------------------------------
\* Taking the front of a sequence off and putting it at the end of what precedes
\* it leaves their concatenation alone.
LEMMA MoveFront ==
  ASSUME NEW S, NEW p \in Seq(S), NEW q \in Seq(S), q # <<>>
  PROVE  /\ <<Head(q)>> \o Tail(q) = q
         /\ (p \o <<Head(q)>>) \o Tail(q) = p \o q
<1>1. Head(q) \in S /\ Tail(q) \in Seq(S) /\ Len(Tail(q)) = Len(q) - 1
      /\ \A i \in 1..Len(Tail(q)) : Tail(q)[i] = q[i + 1]
  BY HeadTailProperties
<1>2. <<Head(q)>> \in Seq(S) /\ Len(<<Head(q)>>) = 1 /\ <<Head(q)>>[1] = q[1]
  BY <1>1
<1>3. Len(q) \in Nat /\ Len(q) > 0
  BY EmptySeq
<1>4. <<Head(q)>> \o Tail(q) = q
  <2> DEFINE c == <<Head(q)>> \o Tail(q)
  <2>1. /\ c \in Seq(S)
        /\ Len(c) = 1 + Len(Tail(q))
        /\ \A i \in 1..(1 + Len(Tail(q))) :
             c[i] = IF i <= 1 THEN <<Head(q)>>[i] ELSE Tail(q)[i - 1]
    BY <1>1, <1>2, ConcatProperties
  <2>2. Len(c) = Len(q)
    BY <2>1, <1>1, <1>3
  <2>3. ASSUME NEW i \in 1..Len(c) PROVE c[i] = q[i]
    <3>1. CASE i = 1
      BY <3>1, <2>1, <1>2, <1>1, <1>3
    <3>2. CASE i # 1
      <4>1. i - 1 \in 1..Len(Tail(q)) /\ (i - 1) + 1 = i /\ ~(i <= 1)
        BY <3>2, <2>2, <1>1, <1>3
      <4> QED BY <4>1, <2>1, <1>1
    <3> QED BY <3>1, <3>2
  <2> QED BY <2>1, <2>2, <2>3, SeqEqual
<1> QED
  BY <1>1, <1>2, <1>4, ConcatAssociative

\* Pushing to the queue, popping, writing and flushing keep the messages in the
\* order they were logged and keep each of them exactly once.
LEMMA InOrderStep == TypeOK /\ InOrder /\ [Next]_vars => InOrder'
<1> SUFFICES ASSUME TypeOK, InOrder, [Next]_vars PROVE InOrder'
  OBVIOUS
<1> USE DEF TypeOK, InOrder
<1>1. ASSUME NEW t \in Loggers, Log(t) PROVE InOrder'
  <2>1. PICK m \in Messages : queue' = Append(queue, m) /\ accepted' = Append(accepted, m)
    BY <1>1 DEF Log
  <2>2. <<m>> \in Seq(Messages) /\ out \o held \in Seq(Messages)
    BY ConcatProperties
  <2>3. Append(queue, m) = queue \o <<m>> /\ Append(accepted, m) = accepted \o <<m>>
    BY AppendIsConcat
  <2>4. ((out \o held) \o queue) \o <<m>> = (out \o held) \o (queue \o <<m>>)
    BY <2>2, ConcatAssociative
  <2> QED BY <1>1, <2>1, <2>3, <2>4 DEF Log
<1>2. CASE WriterTake
  <2>1. held = <<>> /\ <<Head(queue)>> \o Tail(queue) = queue
    BY <1>2, MoveFront DEF WriterTake
  <2>2. <<Head(queue)>> \in Seq(Messages) /\ Tail(queue) \in Seq(Messages)
    BY <1>2, HeadTailProperties DEF WriterTake
  <2>3. (out \o <<Head(queue)>>) \o Tail(queue) = out \o queue
    BY <1>2, MoveFront DEF WriterTake
  <2>4. out \o held = out
    BY <2>1, ConcatEmptySeq
  <2> QED BY <1>2, <2>3, <2>4 DEF WriterTake
<1>3. CASE WriterWrite
  <2>1. (out \o held) \o <<>> = out \o held
    BY ConcatProperties, ConcatEmptySeq
  <2> QED BY <1>3, <2>1 DEF WriterWrite
<1>4. CASE WriterFlush
  <2>1. held = <<>> /\ out \o held = out
    BY <1>4, ConcatEmptySeq DEF WriterFlush
  <2>2. Head(queue) \in Messages
    BY <1>4, HeadTailProperties DEF WriterFlush
  <2>3. Append(out, Head(queue)) = out \o <<Head(queue)>>
    BY <2>2, AppendIsConcat
  <2>4. Append(out, Head(queue)) \in Seq(Messages)
    BY <2>2
  <2>5. Append(out, Head(queue)) \o <<>> = Append(out, Head(queue))
    BY <2>4, ConcatEmptySeq
  <2>6. (out \o <<Head(queue)>>) \o Tail(queue) = out \o queue
    BY <1>4, MoveFront DEF WriterFlush
  <2> QED BY <1>4, <2>1, <2>3, <2>5, <2>6 DEF WriterFlush
<1>5. ASSUME UNCHANGED <<queue, held, out, accepted>> PROVE InOrder'
  BY <1>5
<1> QED
  BY <1>1, <1>2, <1>3, <1>4, <1>5
     DEF Next, Writer, Initialize, LogNotify, WriterWait, WriterShutdown, WriterReturn,
         WriterSpuriousWakeup, Destroy, DestroyNotify, DestroyClose, Closed, vars

\* Nothing is lost, repeated or reordered between log() and the file.
THEOREM OrderKept == Spec => []InOrder
<1>1. Init => InOrder
  <2> SUFFICES ASSUME Init PROVE InOrder
    OBVIOUS
  <2>1. <<>> \o <<>> = <<>>
    BY EmptySeq, ConcatEmptySeq
  <2> QED BY <2>1 DEF Init, InOrder
<1> QED
  BY <1>1, InOrderStep, TypeCorrect, PTL DEF Spec, SafetySpec

-----------------------------------------------------------------------------
\* Why nothing can be left behind: a writer that has returned left an empty queue,
\* and nobody can log any more; a report without a writer was never logged to;
\* and the report is only closed once the writer was joined.
Drained == /\ writer \in {"none", "done"} => queue = <<>>
           /\ phase = "closed" => writer \in {"none", "done"}

\* Drained is inductive beside the types.
LEMMA DrainedInvariant == Spec => []Drained
<1>1. Init => Drained
  BY DEF Init, Drained
<1>2. TypeOK /\ Drained /\ [Next]_vars => Drained'
  BY DEF TypeOK, Destroying, Drained, Next, Writer, Initialize, Log, MutexFree, LogNotify,
         Wake, WriterWait, WriterTake, WriterWrite, WriterShutdown, WriterFlush,
         WriterReturn, WriterSpuriousWakeup, Destroy, DestroyNotify, DestroyClose,
         Closed, vars
<1> QED
  BY <1>1, <1>2, TypeCorrect, PTL DEF Spec, SafetySpec

LEMMA DrainedComplete == TypeOK /\ InOrder /\ Drained => CompleteWhenClosed
<1> SUFFICES ASSUME TypeOK, InOrder, Drained, phase = "closed" PROVE out = accepted
  BY DEF CompleteWhenClosed
<1>1. queue = <<>> /\ held = <<>>
  BY DEF Drained, TypeOK
<1>2. (out \o <<>>) \o <<>> = out
  BY ConcatEmptySeq DEF TypeOK
<1> QED BY <1>1, <1>2 DEF InOrder

\* When ~Report() is over, every message given to log() is in the file.
THEOREM Complete == Spec => []CompleteWhenClosed
BY DrainedComplete, DrainedInvariant, OrderKept, TypeCorrect, PTL

\* The writer never touches the stream after close().
THEOREM StreamOutlivesWriter == Spec => NoWriteAfterClose
<1>1. TypeOK /\ Drained /\ [Next]_vars => [out' # out => phase # "closed"]_vars
  BY DEF TypeOK, Drained, Next, Writer, Initialize, Log, LogNotify, WriterWait, WriterTake,
         WriterWrite, WriterShutdown, WriterFlush, WriterReturn, WriterSpuriousWakeup,
         Destroy, DestroyNotify, DestroyClose, Closed, vars
<1> QED
  BY <1>1, TypeCorrect, DrainedInvariant, PTL DEF Spec, SafetySpec, NoWriteAfterClose

-----------------------------------------------------------------------------
\* Writing the next message is the abstract log's Store.
LEMMA NextStored ==
  ASSUME NEW S, NEW p \in Seq(S), NEW q \in Seq(S), q # <<>>
  PROVE  /\ Len(p) < Len(p \o q)
         /\ p \o <<Head(q)>> = Append(p, (p \o q)[Len(p) + 1])
<1>1. Len(q) \in Nat \ {0} /\ Len(p) \in Nat
  BY EmptySeq, LenProperties
<1>2. Len(p) + 1 \in 1..(Len(p) + Len(q)) /\ ~(Len(p) + 1 <= Len(p))
      /\ (Len(p) + 1) - Len(p) = 1
  BY <1>1
<1>3. Len(p \o q) = Len(p) + Len(q) /\ (p \o q)[Len(p) + 1] = q[1]
  BY <1>2, ConcatProperties
<1>4. Head(q) = q[1] /\ Head(q) \in S
  BY HeadTailProperties
<1>5. Append(p, Head(q)) = p \o <<Head(q)>>
  BY <1>4, AppendIsConcat
<1> QED BY <1>1, <1>3, <1>4, <1>5

\* Every step of the class is a step of the append-only log, or none.
LEMMA StepRefines ==
  TypeOK /\ InOrder /\ Drained /\ [Next]_vars => [Abstract!Next]_(Abstract!logVars)
<1> SUFFICES ASSUME TypeOK, InOrder, Drained, [Next]_vars
             PROVE  [Abstract!Next]_(Abstract!logVars)
  OBVIOUS
<1> USE DEF Abstract!Next, Abstract!logVars
<1>1. ASSUME NEW t \in Loggers, Log(t) PROVE Abstract!Accept
  BY <1>1 DEF Log, Abstract!Accept
<1>2. CASE WriterWrite
  <2>1. held \in Seq(Messages) /\ held # <<>> /\ held = <<Head(held)>>
    <3>1. held \in Seq(Messages) /\ Len(held) = 1
      BY <1>2 DEF WriterWrite, TypeOK
    <3>2. held # <<>> /\ Head(held) = held[1]
      BY <3>1
    <3>3. Len(<<Head(held)>>) = 1 /\ <<Head(held)>>[1] = held[1]
          /\ <<Head(held)>> \in Seq(Messages)
      BY <3>1, <3>2, HeadTailProperties
    <3> QED BY <3>1, <3>2, <3>3, SeqEqual
  <2>2. out \o held \in Seq(Messages) /\ held \o queue \in Seq(Messages)
    BY <2>1, ConcatProperties DEF TypeOK
  <2>3. accepted = out \o (held \o queue)
    <3>1. out \in Seq(Messages) /\ queue \in Seq(Messages)
      BY DEF TypeOK
    <3>2. accepted = (out \o held) \o queue
      BY DEF InOrder
    <3>3. (out \o held) \o queue = out \o (held \o queue)
      BY <2>1, <3>1, ConcatAssociative
    <3> QED BY <3>2, <3>3, Zenon
  <2>4. held \o queue # <<>> /\ Head(held \o queue) = Head(held)
    <3>1. Len(held \o queue) = Len(held) + Len(queue)
      BY <2>1, ConcatProperties DEF TypeOK
    <3>2. Len(held) = 1 /\ Len(queue) \in Nat
      BY <2>1, LenProperties DEF TypeOK
    <3>3. (held \o queue)[1] = held[1]
      BY <2>1, <3>2, ConcatProperties DEF TypeOK
    <3>4. held \o queue # <<>>
      BY <3>1, <3>2, <2>2, EmptySeq
    <3> QED BY <3>3, <3>4, <2>1, <2>2, HeadTailProperties
  <2>5. Len(out) < Len(accepted) /\ out \o held = Append(out, accepted[Len(out) + 1])
    <3> DEFINE q == held \o queue
    <3>1. out \in Seq(Messages) /\ q \in Seq(Messages) /\ q # <<>>
      BY <2>2, <2>4 DEF TypeOK
    <3>2. accepted = out \o q /\ <<Head(q)>> = held
      BY <2>1, <2>3, <2>4
    <3> HIDE DEF q
    <3>3. Len(out) < Len(out \o q)
          /\ out \o <<Head(q)>> = Append(out, (out \o q)[Len(out) + 1])
      BY <3>1, NextStored
    <3> QED BY <3>2, <3>3, Zenon
  <2>6. phase # "closed"
    BY <1>2 DEF WriterWrite, Drained
  <2> QED BY <1>2, <2>5, <2>6 DEF WriterWrite, Abstract!Store
<1>3. CASE WriterFlush
  <2>1. held = <<>> /\ queue # <<>> /\ Head(queue) \in Messages
    BY <1>3, HeadTailProperties DEF WriterFlush, TypeOK
  <2>2. accepted = out \o queue
    BY <2>1, ConcatEmptySeq DEF InOrder, TypeOK
  <2>3. Append(out, Head(queue)) = out \o <<Head(queue)>>
    BY <2>1, AppendIsConcat DEF TypeOK
  <2>4. Len(out) < Len(accepted) /\ out' = Append(out, accepted[Len(out) + 1])
    BY <1>3, <2>1, <2>2, <2>3, NextStored DEF WriterFlush, TypeOK
  <2>5. phase # "closed"
    BY <1>3 DEF WriterFlush, Drained
  <2> QED BY <1>3, <2>4, <2>5 DEF WriterFlush, Abstract!Store
<1>4. CASE DestroyClose
  <2>1. phase # "closed" /\ phase' = "closed" /\ queue = <<>> /\ held = <<>>
    BY <1>4 DEF DestroyClose, Drained, TypeOK
  <2>2. out = accepted
    BY <2>1, ConcatEmptySeq DEF InOrder, TypeOK
  <2> QED BY <1>4, <2>1, <2>2 DEF DestroyClose, Abstract!Close
<1>5. ASSUME UNCHANGED <<accepted, out>>, (phase' = "closed") = (phase = "closed")
      PROVE  UNCHANGED Abstract!logVars
  BY <1>5
<1> QED
  BY <1>1, <1>2, <1>3, <1>4, <1>5
     DEF Next, Writer, Initialize, LogNotify, WriterWait, WriterTake, WriterShutdown,
         WriterReturn, WriterSpuriousWakeup, Destroy, DestroyNotify, Closed, vars

\* The queue, the writer thread and the destructor together are an append-only log
\* that closes with everything stored (its safety part; fairness is left to TLC).
THEOREM Refinement == Spec => Abstract!SafetySpec
<1>1. Init => Abstract!Init
  BY DEF Init, Abstract!Init
<1> QED
  BY <1>1, StepRefines, TypeCorrect, OrderKept, DrainedInvariant, PTL
     DEF Spec, SafetySpec, Abstract!SafetySpec
=============================================================================
