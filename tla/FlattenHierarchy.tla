-------------------------- MODULE FlattenHierarchy --------------------------
(***************************************************************************)
(* flattenHierarchy: collapses chains of Xforms with one child each.  One  *)
(* traversal queues the namespace edits; they are applied together, and    *)
(* what they moved (transforms, visibility, bindings) is then put right.   *)
(***************************************************************************)
EXTENDS Stage

\* _findReferences: what the edits must not move.
FindReferences(s) ==
    LET range == PrimRange(s, Root)
        related == { p \in range : Get(s, p, "rel") # None }
    IN [references |-> { p \in range : Arcs(s, p) # {} },
        internalReferenced |->
            UNION { UNION { Ancestors(t) : t \in DirectTargets(s, p, MaxArcs) } : p \in range },
        relationships |-> related \cup UNION { Ancestors(Get(s, p, "rel")) : p \in related },
        boundPrims |-> { p \in range : Get(s, p, "bind") # None },
        newPath |-> [p \in range |-> p],
        edits |-> << >>, toRemove |-> {}, seen |-> {}, originalData |-> << >>]

\* Mutant: what is referenced may move away.
M_CanRemoveReferenced(s, p, data, identityOnly) ==
    /\ p # Root
    /\ identityOnly => Get(s, p, "xf") \in {None, 0}
    /\ Get(s, p, "bind") = None
    /\ p \notin data.relationships
CanRemove(s, p, data, identityOnly) ==
    /\ p # Root
    /\ identityOnly => Get(s, p, "xf") \in {None, 0}
    /\ p \notin data.internalReferenced
    /\ Get(s, p, "bind") = None
    /\ p \notin data.relationships

Visibility(s, p) == IF Visible(s, p) THEN "inherited" ELSE "invisible"

\* The children of from go to to, under a free name, and the chain goes away.
Reparent(s, from, to, data) ==
    LET MoveChild(d, c) ==
            LET wanted == Append(to, Last(c))
                seen == IF Exists(s, wanted) THEN d.seen \cup {wanted} ELSE d.seen
                path == FreePath(seen, wanted, "_")
            IN [d EXCEPT !.edits = Append(@, <<c, path>>),
                         !.seen = IF path = wanted THEN seen ELSE seen \cup {path},
                         !.newPath = [p \in DOMAIN @ |->
                             IF p \in PrimRange(s, c) THEN ReplacePrefix(@[p], c, path) ELSE @[p]]]
        chain == [i \in 1..(Len(from) - Len(to)) |-> SubSeq(from, 1, Len(from) - i + 1)]
        moved == FoldLeft(MoveChild, data, Sorted(AllChildren(s, from), Before))
        Shorten(p) == IF HasPrefix(p, from) THEN ReplacePrefix(p, from, to) ELSE p
        original == Append(moved.originalData, <<to, World(s, from), Visibility(s, from)>>)
    IN [moved EXCEPT
          !.edits = @ \o [i \in DOMAIN chain |-> <<chain[i], None>>],
          !.toRemove = @ \cup Range(chain),
          !.originalData = [i \in DOMAIN original |-> [original[i] EXCEPT ![1] = Shorten(@)]]]

RECURSIVE TraversePrim(_, _, _, _, _)
TraversePrim(s, p, given, data, identityOnly) ==
    LET children == Sorted(Composed(s, p), Before)
        isXform == p # Root /\ Get(s, p, "type") = "Xform"
        removable == CanRemove(s, p, data, identityOnly)
        own == IF given = None /\ isXform THEN p ELSE given
        target == IF removable THEN own ELSE None
        passed == IF removable THEN own ELSE p
        childTarget == IF Len(children) > 1 \/ passed = Root THEN None ELSE passed
        Visit(d, c) == IF Get(s, c, "spec") # "def" \/ c \in d.references THEN d
                       ELSE TraversePrim(s, c, childTarget, d, identityOnly)
        visited == FoldLeft(Visit, data, children)
    IN IF isXform /\ target \notin {None, p} /\ p \notin visited.toRemove
       THEN Reparent(s, p, target, visited) ELSE visited

\* SdfLayer::Apply: all of the edits, or None.
Edit(prims, edit) ==
    LET from == edit[1]
        to == edit[2]
        inside == { p \in DOMAIN prims : HasPrefix(p, from) }
        Moved(p) == ReplacePrefix(p, to, from)
    IN IF prims = None \/ from \notin DOMAIN prims THEN None
       ELSE IF to = None THEN Without(prims, {from})
       ELSE IF to \in DOMAIN prims THEN None
       ELSE [p \in (DOMAIN prims \ inside) \cup { ReplacePrefix(q, from, to) : q \in inside } |->
                IF p \in DOMAIN prims \ inside THEN prims[p] ELSE prims[Moved(p)]]

FixOriginalData(s, data) ==
    LET Place(t, p, offset) ==
            IF offset = 0 THEN t
            ELSE SetFieldOn(t, {p}, "xf",
                            offset + IF Get(t, p, "xf") = None THEN 0 ELSE Get(t, p, "xf"))
        Show(t, p, visibility) ==
            IF Visibility(t, p) = visibility THEN t ELSE SetFieldOn(t, {p}, "vis", visibility)
        Fix(t, original) ==
            LET p == original[1]
            IN IF ~Exists(t, p) THEN t
               ELSE Show(Place(t, p, original[2] - World(t, p)), p, original[3])
    IN FoldLeft(Fix, s, Reverse(data.originalData))

FixOriginalMaterials(s, before, data) ==
    LET rebound == { p \in data.boundPrims :
                        LET m == Get(before, p, "bind")
                        IN m \in DOMAIN data.newPath /\ data.newPath[m] # m }
        Rebind(t, p) == SetFieldOn(t, {data.newPath[p]}, "bind", data.newPath[Get(before, p, "bind")])
    IN FoldLeft(Rebind, s, Listed(rebound))

Applied(s, prims, data) ==
    IF prims = None THEN s
    ELSE FixOriginalMaterials(FixOriginalData(Edited(s, prims), data), s, data)
ApplyEdits(s, data) == Applied(s, FoldLeft(Edit, s.prims, data.edits), data)

FlattenHierarchy(identityOnly) ==
    stage' = ApplyEdits(stage, TraversePrim(stage, Root, Root, FindReferences(stage), identityOnly))
=============================================================================
