---------------------------- MODULE PruneLeaves ----------------------------
(***************************************************************************)
(* pruneLeaves: removes the grouping prims (Xform, Scope) that hold nothing*)
(* but grouping prims.  filterInactive makes inactive prims invisible to   *)
(* the search; every payload is loaded.                                    *)
(***************************************************************************)
EXTENDS Stage

IsGroupingPrim(s, p) == Get(s, p, "type") \in {"Xform", "Scope"}

Filtered(s, p, filterInactive) ==
    { c \in Composed(s, p) : IsDefined(s, c) /\ (filterInactive => IsActive(s, c)) }

\* Instances hide their content and references are pruned whole or not at
\* all, but both count as leaves when nothing but leaves is below them.
RECURSIVE AllLeaves(_, _, _)
AllLeaves(s, p, filterInactive) ==
    \A c \in Filtered(s, p, filterInactive) :
        IsGroupingPrim(s, c) /\ AllLeaves(s, c, filterInactive)

RECURSIVE FindLeaves(_, _, _)
FindLeaves(s, p, filterInactive) ==
    IF p # Root /\ IsGroupingPrim(s, p) /\ AllLeaves(s, p, filterInactive) THEN {p}
    ELSE UNION { FindLeaves(s, c, filterInactive) : c \in
                    { d \in Filtered(s, p, filterInactive) :
                        IsInstance(s, d) \/ (IsGroupingPrim(s, d) /\ Get(s, d, "ref") # None)
                        => IsGroupingPrim(s, d) /\ AllLeaves(s, d, filterInactive) } }

RelationshipTargets(s) ==
    { Get(s, p, f) : p \in AllPrims(s), f \in {"bind", "rel"} } \ {None}

\* Mutant: a leaf that holds a target, but is none, is not recognized.
M_LeavesHoldingTargets(s, filterInactive, preserveRelationshipTargets) ==
    { p \in FindLeaves(s, Root, filterInactive) :
        /\ ~IsProxy(s, p)
        /\ preserveRelationshipTargets => p \notin RelationshipTargets(s) }
Leaves(s, filterInactive, preserveRelationshipTargets) ==
    { p \in FindLeaves(s, Root, filterInactive) :
        /\ ~IsProxy(s, p)
        /\ preserveRelationshipTargets => \A t \in RelationshipTargets(s) : ~HasPrefix(t, p) }

PruneLeaves(mode, filterInactive, preserveRelationshipTargets) ==
    stage' = RemoveBy(stage, Leaves(stage, filterInactive, preserveRelationshipTargets), mode)
=============================================================================
