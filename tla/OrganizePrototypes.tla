------------------------- MODULE OrganizePrototypes -------------------------
(***************************************************************************)
(* organizePrototypes: copies every concrete prim that an instanceable prim*)
(* references under a class prim, points the references at the copies, and *)
(* leaves an instance of the copy in the place of the original.            *)
(***************************************************************************)
EXTENDS Stage

\* _isDefined: not below a class, an over or nothing.
IsConcrete(s, p) == Exists(s, p) /\ \A q \in Ancestors(p) : Get(s, q, "spec") = "def"
ReferenceTargets(s, p) == { t \in DirectTargets(s, p, MaxArcs) : IsConcrete(s, t) }
Prototypes(s) ==
    UNION { ReferenceTargets(s, p) : p \in { q \in PrimRange(s, Root) : Get(s, q, "inst") = TRUE } }
References(s) == { p \in PrimRange(s, Root) : ReferenceTargets(s, p) # {} }

GetUniquePath(s, p) == FreePath(Composed(s, Parent(p)), p, "")

\* UsdStage::CreateClassPrim, which fails where there is a prim that is no class.
CreateClassPrim(s, p) == SetFieldOn(s, {p}, "spec", "class")
NoClass(s, p) == Exists(s, p) /\ Get(s, p, "spec") = "def"

DefineXform(s, p) == SetFieldOn(SetFieldOn(s, {p}, "spec", "def"), {p}, "type", "Xform")

\* _getProtoDestinationPrim: a place for the copy, below classes named after
\* as many of the prototype's ancestors (the root prim excepted).
DestinationPath(root, proto, levels) ==
    LET first == IF Len(proto) - levels > 2 THEN Len(proto) - levels ELSE 2
    IN root \o SubSeq(proto, first, Len(proto) - 1)
Taken(s, parent) == { p \in Ancestors(parent) : NoClass(s, p) }
WithClasses(s, root, parent) ==
    FoldSet(LAMBDA p, t : CreateClassPrim(t, p), s,
            { p \in Ancestors(parent) \ Ancestors(root) : Ancestors(p) \cap Taken(s, parent) = {} })
PlacedAt(d, s, proto, path) == [s |-> DefineXform(s, path), copy |-> d.copy @@ (proto :> path)]
PlaceBelow(d, s, proto, parent) ==
    IF Taken(d.s, parent) # {} THEN [d EXCEPT !.s = s]
    ELSE PlacedAt(d, s, proto, GetUniquePath(s, Append(parent, Last(proto))))
PlacePrototype(d, root, proto, parent) == PlaceBelow(d, WithClasses(d.s, root, parent), proto, parent)

Retarget(target, copy) ==
    LET holding == { p \in DOMAIN copy : HasPrefix(target, p) }
    IN IF holding = {} THEN target
       ELSE ReplacePrefix(target, Closest(holding), copy[Closest(holding)])

\* A prim has one reference here, and what it leads to is moved with it.
UpdateReference(s, p, copy) ==
    LET known == DirectTargets(s, p, MaxArcs) \cap DOMAIN copy
    IN IF known = {} THEN s
       ELSE SetFieldOn(s, {p}, "ref", copy[CHOOSE t \in known : TRUE])

\* The prims that are defined where the targets will be are left out: the copies
\* written next replace them, as every prototype is local (Organize in Scene).
UpdateRelationships(s, copy) ==
    LET outside == { p \in PrimRange(s, Root) : Ancestors(p) \cap DOMAIN copy = {} }
        Update(t, p, f) ==
            LET target == Get(t, p, f)
            IN IF target = None \/ Retarget(target, copy) = target THEN t
               ELSE SetFieldOn(t, {p}, f, Retarget(target, copy))
    IN FoldSet(LAMBDA p, t : Update(Update(t, p, "bind"), p, "rel"), s, outside)

ConvertProtoToInstance(s, proto, path) ==
    LET bare == DeletePrims(s, AllChildren(s, proto), TRUE, FALSE)
    IN SetFieldOn(SetFieldOn(bare, {proto}, "ref", path), {proto}, "inst", TRUE)

\* A prototype that only an instance composes has no spec to copy.
MovePrototype(s, proto, path) ==
    IF ~Local(s, proto) THEN s
    ELSE ConvertProtoToInstance(Edited(s, CopySpec(s.prims, proto, path)), proto, path)

PlacePrototypes(s, protos, root, levels) ==
    FoldLeft(LAMBDA d, p : PlacePrototype(d, root, p, DestinationPath(root, p, levels)),
             [s |-> IF Exists(s, root) THEN s ELSE CreateClassPrim(s, root), copy |-> << >>], protos)
UpdateReferences(s, P, copy) == FoldSet(LAMBDA p, t : UpdateReference(t, p, copy), s, P)
MovePrototypes(s, protos, copy) ==
    FoldLeft(LAMBDA t, p : MovePrototype(t, p, copy[p]), s,
             Reverse(SelectSeq(protos, LAMBDA p : p \in DOMAIN copy)))
ProcessPlaced(s, protos, placed) ==
    MovePrototypes(UpdateRelationships(UpdateReferences(placed.s, References(s), placed.copy),
                                       placed.copy), protos, placed.copy)
ProcessSceneGraphInstances(s, protos, root, levels) ==
    ProcessPlaced(s, protos, PlacePrototypes(s, protos, root, levels))

\* A concrete prim in the namespace is an error, and nothing is changed.
OrganizePrototypes(root, levels) ==
    stage' = IF Prototypes(stage) = {} \/ NoClass(stage, root)
             THEN stage
             ELSE ProcessSceneGraphInstances(stage, Sorted(Prototypes(stage), Before), root, levels)
=============================================================================
