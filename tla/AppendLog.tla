----------------------------- MODULE AppendLog -----------------------------
(***************************************************************************)
(* What a report file promises its writers: messages are stored in the     *)
(* order they were accepted, each exactly once, and once the report is     *)
(* closed nothing that was accepted is missing.  source/core/src/Report.h  *)
(* offers this to the operations; module Report shows how the class        *)
(* delivers it with a queue and a writer thread.                           *)
(***************************************************************************)
EXTENDS Naturals, Sequences

CONSTANT Messages      \* what Report::log can be given

VARIABLES accepted,    \* messages handed over, oldest first
          stored,      \* messages in the output stream, oldest first
          closed       \* the report is gone

logVars == <<accepted, stored, closed>>

Init == accepted = <<>> /\ stored = <<>> /\ closed = FALSE

Accept == /\ ~closed
          /\ \E m \in Messages : accepted' = Append(accepted, m)
          /\ UNCHANGED <<stored, closed>>

Store == /\ ~closed
         /\ Len(stored) < Len(accepted)
         /\ stored' = Append(stored, accepted[Len(stored) + 1])
         /\ UNCHANGED <<accepted, closed>>

Close == /\ ~closed
         /\ stored = accepted
         /\ closed' = TRUE
         /\ UNCHANGED <<accepted, stored>>

Next == Accept \/ Store \/ Close

\* Whatever is accepted is eventually stored, without waiting for Close.
Spec == Init /\ [][Next]_logVars /\ WF_logVars(Store)

SafetySpec == Init /\ [][Next]_logVars
=============================================================================
