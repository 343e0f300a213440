---------------------------- MODULE OverlappingMeshes ----------------------------
(***************************************************************************)
(* The operation findOverlappingMeshes (FindOverlappingMeshesOperation.cpp,*)
(* generate) on top of the service it shares with everybody, the singleton *)
(* of module Shutdown: it has the service process its stage, copies the    *)
(* pairs of meshes that overlap, groups them, and asks for the path of     *)
(* each mesh. Every one of these calls takes m_processMutex for itself, so *)
(* another execution, or the shutdown, may come in between.                *)
(*                                                                         *)
(* What the detector finds is outside the program: a constant set of       *)
(* results it may have, clashes in the order in which the threads of the   *)
(* parallel loop append them. Each call of processStage has a stage of its *)
(* own, and a mesh's path says which.                                      *)
(***************************************************************************)
EXTENDS Shutdown, IslandDetector, Integers

CONSTANTS Islanders,    \* users that set reportIslands
          Clashes       \* what the detector may find on each user's stage: [meshes, pairs]

ASSUME IslandersAssumption == Islanders \subseteq Users

\* A clash names two meshes by their index; mesh -1 stands for none.
ASSUME ClashesAssumption ==
         \A u \in Users : \A c \in Clashes[u] :
           /\ c.meshes \in Nat
           /\ c.pairs \in Seq((-1..c.meshes-1) \X (-1..c.meshes-1))

VARIABLES found,     \* the service's bookkeeping: the stage, its meshes and m_overlapPairs
          work,      \* each execution of the operation
          island,    \* its IslandDetector
          added      \* history: the pairs it was given

opVars  == <<found, work, island, added>>
allVars == <<vars, opVars>>

NoMesh  == -1
NoPath  == <<0, 0>>
Nothing == [stage |-> 0, meshes |-> 0, pairs |-> <<>>]
Fresh(at, stage) == [at |-> at, stage |-> stage, clashes |-> <<>>, pairs |-> <<>>,
                     todo |-> {}, named |-> {}, listed |-> <<>>, disturbed |-> FALSE]
Idle    == Fresh("idle", 0)

\* Other executions are still to read what the service is about to clear.
Disturb(w) == [w EXCEPT !.disturbed = @ \/ w.at # "idle"]

-----------------------------------------------------------------------------
(* What the steps below compute. *)

\* Clashes with a mesh that is not there, and of a mesh with itself, are left out.
Real(p) == p[1] >= 0 /\ p[2] >= 0 /\ p[1] # p[2]
\* Mutant: only the first mesh is looked at.
M_OverlapPairsFirstOnly(clashes) ==
  FoldLeft(LAMBDA kept, p : IF p[1] >= 0 THEN Append(kept, p) ELSE kept, <<>>, clashes)

OverlapPairs(clashes) ==
  FoldLeft(LAMBDA kept, p : IF Real(p) THEN Append(kept, p) ELSE kept, <<>>, clashes)

\* meshPath()
MeshPath(mesh) == IF mesh \in 0..found.meshes-1 THEN <<found.stage, mesh>> ELSE NoPath

\* The meshes of each group, with their places in it: pairs as they are, or islands with
\* their meshes in order.
PairGroups(pairs) == {<<g, i, pairs[g][i]>> : g \in DOMAIN pairs, i \in {1, 2}}
IslandGroups(d) == UNION {{<<g, mesh, mesh>> : mesh \in Island(d, g)} : g \in 0..IslandCount(d)-1}
\* The order in which the paths are asked for.
Before(x, y) == x[1] < y[1] \/ (x[1] = y[1] /\ x[2] <= y[2])

\* A path is listed once, whatever the number of pairs its mesh is in; islands have no
\* mesh in common, so the code does not look.
List(u, path) == IF u \in Islanders \/ path \notin Range(work[u].listed)
                 THEN Append(work[u].listed, path) ELSE work[u].listed

-----------------------------------------------------------------------------
\* generate() begins: processStage clears the bookkeeping.
Start(u) ==
  /\ work[u].at = "idle"
  /\ Process(u)
  /\ found' = Nothing
  /\ work' = [v \in Users |-> IF v = u THEN Fresh("processing", calls + 1) ELSE Disturb(work[v])]
  /\ UNCHANGED <<island, added>>

\* An error is logged and the operation goes on, with the paths of the stage and no pairs.
Mismatched(u) ==
  /\ Mismatch(u)
  /\ \E c \in Clashes[u] : found' = [Nothing EXCEPT !.stage = work[u].stage, !.meshes = c.meshes]
  /\ work' = [work EXCEPT ![u].at = "processed"]
  /\ UNCHANGED <<island, added>>

Preparing(u) == (NeedDetector(u) \/ Register(u)) /\ UNCHANGED opVars

Detected(u) ==
  /\ Detect(u)
  /\ \E c \in Clashes[u] :
       /\ found' = [stage |-> work[u].stage, meshes |-> c.meshes, pairs |-> OverlapPairs(c.pairs)]
       /\ work'  = [work EXCEPT ![u].at = "processed", ![u].clashes = c.pairs]
  /\ UNCHANGED <<island, added>>

\* overlapPairs() works on a copy it makes under the mutex.
ReadPairs(u) ==
  /\ work[u].at = "processed"
  /\ processMutex = Nobody
  /\ work' = [work EXCEPT ![u] =
                IF u \in Islanders THEN [@ EXCEPT !.at = "adding", !.pairs = found.pairs]
                ELSE [@ EXCEPT !.at = "naming", !.todo = PairGroups(found.pairs)]]
  /\ UNCHANGED <<vars, found, island, added>>

Add(u) ==
  /\ work[u].at = "adding" /\ work[u].pairs # <<>>
  /\ LET pair == Head(work[u].pairs)
     IN  /\ island' = [island EXCEPT ![u] = AddPair(@, pair[1], pair[2])]
         /\ added'  = [added EXCEPT ![u] = @ \cup {pair}]
  /\ work' = [work EXCEPT ![u].pairs = Tail(@)]
  /\ UNCHANGED <<vars, found>>

Group(u) ==
  /\ work[u].at = "adding" /\ work[u].pairs = <<>>
  /\ work' = [work EXCEPT ![u].at = "naming", ![u].todo = IslandGroups(island[u])]
  /\ UNCHANGED <<vars, found, island, added>>

\* The path of one mesh, under the mutex.
NameMesh(u) ==
  /\ work[u].at = "naming"
  /\ processMutex = Nobody
  /\ \E one \in work[u].todo :
       /\ \A other \in work[u].todo : Before(one, other)
       /\ LET path == MeshPath(one[3])
          IN  work' = [work EXCEPT ![u].todo = @ \ {one},
                                   ![u].named = @ \cup {<<one[1], path>>},
                                   ![u].listed = List(u, path)]
  /\ UNCHANGED <<vars, found, island, added>>

\* The report is complete. The detector was a local variable, and the next execution
\* clears what this one lists.
Finish(u) ==
  /\ work[u].at = "naming" /\ work[u].todo = {}
  /\ work'   = [work EXCEPT ![u] = Idle]
  /\ island' = [island EXCEPT ![u] = NoIslands]
  /\ added'  = [added EXCEPT ![u] = {}]
  /\ UNCHANGED <<vars, found>>

\* The service's callback at the shutdown.
ShutdownService(e) ==
  /\ RunService(e)
  /\ found' = Nothing
  /\ work'  = [u \in Users |-> Disturb(work[u])]
  /\ UNCHANGED <<island, added>>

OpInit == /\ Init
          /\ found = Nothing
          /\ work = [u \in Users |-> Idle]
          /\ island = [u \in Users |-> NoIslands]
          /\ added = [u \in Users |-> {}]

InOperation(u) == \/ Mismatched(u) \/ Preparing(u) \/ Detected(u)
                  \/ ReadPairs(u) \/ Add(u) \/ Group(u) \/ NameMesh(u) \/ Finish(u)
InShutdown(e)  == \/ (BeginRun(e) \/ RunOther(e) \/ EndRun(e)) /\ UNCHANGED opVars
                  \/ ShutdownService(e)

OpNext == \/ \E c \in Others : RegisterOther(c) /\ UNCHANGED opVars
          \/ \E u \in Users : Start(u) \/ InOperation(u)
          \/ \E e \in Exits : CallRun(e) /\ UNCHANGED opVars
          \/ \E e \in Exits : InShutdown(e)
          \/ /\ Done
             /\ \A u \in Users : work[u].at = "idle"
             /\ UNCHANGED opVars

\* As in Shutdown; of the operation, only the steps inside processStage hold a mutex.
OpFairness == /\ \A u \in Users : WF_allVars(InOperation(u))
              /\ \A e \in Exits : SF_allVars(InShutdown(e))

OpSpec == OpInit /\ [][OpNext]_allVars /\ OpFairness

-----------------------------------------------------------------------------
\* Whatever order the pairs come in, and however slots are given up and used again, the
\* islands are the connected components of the pairs added so far.
IslandsAreComponents ==
  \A u \in Users : work[u].at = "adding" =>
                     Islands(island[u]) = Components(added[u])

\* An execution whose stage stayed in the service until every mesh was named reports the meshes
\* of its own stage, in the groups in which the detector found them, each listed once:
\* "Islands are disjoint, so we can simply add this path".
GroupsReported ==
  \A u \in Users :
    LET w       == work[u]
        overlap == {p \in Range(w.clashes) : NoMesh \notin Range(p) /\ p[1] # p[2]}
        groups  == IF u \in Islanders THEN Components(overlap) ELSE {Range(p) : p \in overlap}
        Path(m) == <<w.stage, m>>
    IN  w.at = "naming" /\ w.todo = {} /\ ~w.disturbed =>
          /\ {{Path(m) : m \in meshes} : meshes \in groups} =
               {{n[2] : n \in {x \in w.named : x[1] = g}} : g \in {x[1] : x \in w.named}}
          /\ IsInjective(w.listed)
          /\ Range(w.listed) = {Path(m) : m \in UNION groups}

=============================================================================
