------------------------- MODULE OptimizeMaterials -------------------------
(***************************************************************************)
(* optimizeMaterials, on all materials of the stage: keeps one of each     *)
(* class of equal materials; makes one material, which reads what differs  *)
(* from a primvar, of those that differ in values only; replaces materials *)
(* by display colors; or removes the ones nothing is bound to.  A material *)
(* is its network and the value of one input, and the primvar that takes   *)
(* the value's place has one name.                                         *)
(***************************************************************************)
EXTENDS Stage

IsMaterial(s, p) == Get(s, p, "type") = "Material"
Network(s, m) == Get(s, m, "geo")[1]
Value(s, m) == Get(s, m, "geo")[2]

\* The prims a traversal of the stage visits that does not enter materials.
Visited(s) == { p \in AllPrims(s) : \A q \in Ancestors(p) \ {p} : ~IsMaterial(s, q) }
Materials(s) == { p \in Visited(s) : IsMaterial(s, p) }
Bindable(s) == Visited(s) \ Materials(s)

\* The targets of p's arcs, of the specializes arcs or of the others.
RECURSIVE ArcTargets(_, _, _, _)
ArcTargets(s, p, specializes, n) ==
    UNION { (IF (s.prims[q].tag = "specializes") = specializes THEN {Target(s, p, q)} ELSE {})
            \cup (IF n = 0 THEN {} ELSE ArcTargets(s, Target(s, p, q), specializes, n - 1))
              : q \in Arcs(s, p) }
ReferenceArcs(s, p) == { t \in ArcTargets(s, p, FALSE, MaxArcs) : Exists(s, t) }
SpecializesArcs(s, p) == ArcTargets(s, p, TRUE, MaxArcs)
FindSpecializeTargets(s) == UNION { SpecializesArcs(s, m) : m \in Materials(s) }

DirectBinding(s, p) == IF IsMaterial(s, Get(s, p, "bind")) THEN Get(s, p, "bind") ELSE None
DirectlyBound(s, m) == { p \in Bindable(s) : DirectBinding(s, p) = m }

-----------------------------------------------------------------------------
(* What goes away *)

DeleteMaterials(s, P) ==
    LET rest == DeletePrims(s, P, FALSE, FALSE)
    IN DeletePrims(rest, { p \in P : Exists(rest, p) }, TRUE, FALSE)

\* Mutant: only the bindings of all purposes count.
M_ExcludeBoundMaterials(s, P) ==
    LET targets == { Get(s, p, "bind") : p \in AllPrims(s) } \ {None}
    IN P \ (targets \cup UNION { ReferenceArcs(s, t) : t \in { u \in targets : IsMaterial(s, u) } })
\* _excludeBoundMaterials: bindings of any purpose, and the sources of what they bind.
ExcludeBoundMaterials(s, P) ==
    LET targets == { Get(s, p, f) : p \in AllPrims(s), f \in {"bind", "rel"} } \ {None}
    IN P \ (targets \cup UNION { ReferenceArcs(s, t) : t \in { u \in targets : IsMaterial(s, u) } })

\* removeUnboundMaterials: those that reference nothing, less the ones that are
\* bound, for which a prim of an instance counts as well, and their sources.
UnboundMaterials(s) ==
    LET base == { m \in Subtree(s, Root) \ {Root} :
                    IsMaterial(s, m) /\ Default(s, m) /\ ~IsProxy(s, m) /\ ReferenceArcs(s, m) = {} }
        prims == { p \in Subtree(s, Root) \ {Root} : \A q \in Ancestors(p) : ~IsMaterial(s, q) }
        bound == { Material(s, p) : p \in prims } \ {None}
        used == bound \cup UNION { ReferenceArcs(s, m) : m \in bound }
    IN ExcludeBoundMaterials(s, base \ used)

-----------------------------------------------------------------------------
(* Classes of materials.  A material is hashed after those it references,  *)
(* and together with the closest prim that instances share.                *)

FindInstancedPrims(s) ==
    LET shared == UNION { Composed(s, p) : p \in { q \in DOMAIN s.composed : IsInstance(s, q) } }
    IN { Parent(t) : t \in UNION { ReferenceArcs(s, c) : c \in shared } }
Boundary(instanced, m) ==
    LET around == Ancestors(m) \cap instanced IN IF around = {} THEN Root ELSE Closest(around)

RECURSIVE HashMaterial(_, _, _)
HashMaterial(s, hashed, m) ==
    IF m \in Range(hashed) \/ SpecializesArcs(s, m) # {} THEN hashed
    ELSE Append(FoldLeft(LAMBDA done, t : HashMaterial(s, done, t), hashed,
                         Sorted(ReferenceArcs(s, m) \ {m}, Before)), m)
Hashed(s) == FoldLeft(LAMBDA done, m : HashMaterial(s, done, m), << >>, Sorted(Materials(s), Before))

\* The materials of order of the same content, in order, for each content.
Grouped(s, order, instanced, Content(_)) ==
    LET hash == Fun([m \in Range(order) |-> <<Content(m), Boundary(instanced, m)>>])
    IN { SelectSeq(order, LAMBDA m : hash[m] = h) : h \in Range(hash) }

EqualMaterials(s) ==
    Grouped(s, SelectSeq(Hashed(s), LAMBDA m : m \notin FindSpecializeTargets(s)),
            FindInstancedPrims(s), LAMBDA m : Get(s, m, "geo"))

\* The duplicates, each with the material that was found first.
RebindMap(groups) ==
    [m \in UNION { Range(Tail(g)) : g \in groups } |->
        Head(CHOOSE g \in groups : m \in Range(g))]

\* Mutant: a binding of another purpose keeps its target.
M_Retarget(s, p, rebind) ==
    IF Get(s, p, "bind") \in DOMAIN rebind
    THEN SetFieldOn(s, {p}, "bind", rebind[Get(s, p, "bind")]) ELSE s
Retarget1(s, p, f, rebind) ==
    IF Get(s, p, f) \in DOMAIN rebind THEN SetFieldOn(s, {p}, f, rebind[Get(s, p, f)]) ELSE s
RetargetBindings(s, p, rebind) == Retarget1(Retarget1(s, p, "bind", rebind), p, "rel", rebind)

DeduplicateMaterials(s, rebind) ==
    DeleteMaterials(FoldSet(LAMBDA p, t : RetargetBindings(t, p, rebind), s, Bindable(s)),
                    DOMAIN rebind)

-----------------------------------------------------------------------------
(* By primvars *)

ReaderGroups(s) ==
    { g \in Grouped(s, Hashed(s), FindInstancedPrims(s), LAMBDA m : Network(s, m)) : Len(g) > 1 }
CanDedupe(s, groups) ==
    UNION { Range(g) : g \in { h \in groups : Range(h) \cap FindSpecializeTargets(s) = {} } }

\* _processSubsets: the values of a mesh's faces, of one subset or of no subset.
SubsetsOf(s, mesh) ==
    { c \in AllChildren(s, mesh) : Get(s, c, "type") = "GeomSubset" /\ DirectBinding(s, c) # None }
DefaultValue(s, mesh) ==
    LET m == Material(s, mesh)
    IN IF IsMaterial(s, m) /\ Value(s, m) # Reader THEN Value(s, m) ELSE "zero"
\* Mutant: faces of no subset have the sensible default.
M_FaceValues(s, mesh, able) ==
    LET ready == { c \in SubsetsOf(s, mesh) : Material(s, c) \in able }
    IN ("rest" :> "zero") @@ [name \in { Last(c) : c \in ready } |->
                                             Value(s, Material(s, Append(mesh, name)))]
FaceValues(s, mesh, able) ==
    LET ready == { c \in SubsetsOf(s, mesh) : Material(s, c) \in able }
    IN ("rest" :> DefaultValue(s, mesh)) @@ [name \in { Last(c) : c \in ready } |->
                                             Value(s, Material(s, Append(mesh, name)))]
ProcessSubsets(s, able) ==
    LET Ready(mesh) == \E c \in SubsetsOf(s, mesh) : Material(s, c) \in able
    IN FoldSet(LAMBDA mesh, t : SetFieldOn(t, {mesh}, "pv", FaceValues(s, mesh, able)), s,
               { p \in Bindable(s) : Ready(p) })

CreateNewMaterial(t, m, location) ==
    LET looks == IF Exists(t, location) THEN t.prims
                 ELSE [q \in { r \in Ancestors(location) : ~Exists(t, r) } |-> Def("Xform")] @@ t.prims
        wanted == Append(location, Last(m) \o "_pv")
        path == FreePath({ p \in DOMAIN t.composed : Exists(t, p) }, wanted, "")
    IN [path |-> path, stage |-> Edited(t, CopySpec(looks, m, path))]

\* Mutant: a primvar is also authored on a mesh whose subsets have values.
M_AuthorValue(s, t, m) ==
    SetFieldOn(t, { p \in DirectlyBound(s, m) : Material(s, p) = m
                   /\ Get(s, p, "type") # "GeomSubset" },
               "pv", "rest" :> Value(s, m))
AuthorValue(s, t, m) ==
    IF Value(s, m) = Reader THEN t
    ELSE SetFieldOn(t, { p \in DirectlyBound(s, m) : Material(s, p) = m
                            /\ Get(s, p, "type") # "GeomSubset" /\ SubsetsOf(s, p) = {} },
                    "pv", "rest" :> Value(s, m))
ConvertGroup(s, group, created) ==
    LET reading == SetFieldOn(created.stage, {created.path}, "geo", <<Network(s, Head(group)), Reader>>)
        Convert(t, m) == SetFieldOn(AuthorValue(s, t, m), DirectlyBound(s, m), "bind", created.path)
    IN FoldLeft(Convert, reading, group)
\* Only the first of a group, which is copied, is looked at.
Convertible(s, groups) ==
    { g \in groups : Head(g) \notin FindSpecializeTargets(s) /\ Local(s, Head(g)) }
ConvertToPrimvars(s, groups, ready, location) ==
    LET converted == FoldSet(LAMBDA g, t : ConvertGroup(s, g, CreateNewMaterial(t, Head(g), location)),
                             ProcessSubsets(s, CanDedupe(s, groups)), ready)
    IN DeleteMaterials(converted, ExcludeBoundMaterials(converted, UNION { Range(g) : g \in ready }))

-----------------------------------------------------------------------------
(* By display colors *)

Colors(s) == { m \in Materials(s) : Value(s, m) # Reader }
HasColor(s, p) == Get(s, p, "color") \notin {None, Blocked}
Below(s, p) == { q \in PrimRange(s, p) \ {p} :
                    \A r \in Ancestors(q) \ Ancestors(p) : ~IsMaterial(s, r) }
Paint(s, p, color) ==
    LET painted == SetFieldOn(SetFieldOn(s, {p}, "color", color), {p}, "bind", None)
    IN SetFieldOn(painted, { q \in Below(painted, p) : HasColor(painted, q) }, "color", Blocked)
ConvertToColor(s) ==
    LET PaintBound(t, m) == FoldLeft(LAMBDA u, p : Paint(u, p, Value(s, m)), t,
                                     Sorted(DirectlyBound(s, m), Before))
        painted == FoldLeft(PaintBound, s, Sorted(Colors(s), Before))
    IN DeleteMaterials(painted, ExcludeBoundMaterials(painted, Colors(s)))
=============================================================================
