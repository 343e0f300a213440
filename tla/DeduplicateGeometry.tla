------------------------- MODULE DeduplicateGeometry -------------------------
(***************************************************************************)
(* deduplicateGeometry: finds meshes with equal geometry and keeps one of  *)
(* each class, either as the prototype the others reference or as the one  *)
(* a point instancer repeats.  Geometry is a token, so the deep transform  *)
(* between two equal meshes is the identity, and every placement is one a  *)
(* point instancer can hold.  A token has no time samples either, which    *)
(* would take a mesh out of the search.                                    *)
(***************************************************************************)
EXTENDS Stage

IsPrototype(s, p) == Len(p) > 1 /\ Get(s, Parent(p), "type") = "PointInstancer"
IsSupportedPrim(s, p, method) ==
    /\ Get(s, p, "type") = "Mesh" /\ IsActive(s, p)
    /\ ~IsProxy(s, p)
    /\ AllChildren(s, p) = {}
    /\ IF method = "pointInstancer" THEN ~IsPrototype(s, p)
       ELSE Len(p) > 1 => Get(s, Parent(p), "op") = None

\* Mutant: meshes of different materials make one point instancer.
M_IdenticalAnyMaterial(s, p, q, method) ==
    /\ \A f \in {"geo", "pv", "color"} : Get(s, p, f) = Get(s, q, f)
    /\ Visible(s, p) = Visible(s, q)
\* _findIdenticalMeshes: a material is inherited through a reference, but a
\* point instancer has one for all of its instances.
Identical(s, p, q, method) ==
    /\ \A f \in {"geo", "pv", "color"} : Get(s, p, f) = Get(s, q, f)
    /\ Visible(s, p) = Visible(s, q)
    /\ method = "pointInstancer" => Material(s, p) = Material(s, q)
FindIdenticalMeshes(s, method) ==
    LET supported == { p \in Subtree(s, Root) \ {Root} : IsSupportedPrim(s, p, method) }
        Class(p) == { q \in supported : Identical(s, p, q, method) }
    IN { Class(p) : p \in { q \in supported : Cardinality(Class(q)) > 1 } }

-----------------------------------------------------------------------------
(* By reference: the arc is on an Xform in the place of the mesh, so that  *)
(* the mesh itself is composed, and an instance proxy when instanceable.   *)

Geometry(p) == Append(p, "Geometry")
Xform(s, p) == [Def("Xform") EXCEPT !.xf = Get(s, p, "xf"), !.bind = Get(s, p, "bind"),
                                    !.op = Get(s, p, "op")]
SplitIntoXformAndChild(s, p) ==
    LET mesh == [f \in DOMAIN Over |->
                   IF f \in {"xf", "bind", "op", "ref"} THEN None
                   ELSE IF f = "spec" THEN "def" ELSE Get(s, p, f)]
    IN Edited(s, (p :> Xform(s, p)) @@ (Geometry(p) :> mesh) @@ Without(s.prims, {p}))
ReferTo(s, p, prototype, instanceable) ==
    LET reference == [Xform(s, p) EXCEPT !.xf = LocalXform(s, p), !.op = TRUE,
                                            !.ref = prototype, !.inst = instanceable]
    IN Edited(s, (p :> reference) @@ Without(s.prims, {p}))

ConformUsingComposition(s, set, prototype, instanceable) ==
    FoldSet(LAMBDA p, t : ReferTo(t, p, prototype, instanceable),
            SplitIntoXformAndChild(s, prototype), set \ {prototype})

-----------------------------------------------------------------------------
(* By point instancer: below the common root of the set or a given prim.   *)

CommonRoot(P) ==
    LET common == { q \in UNION { Ancestors(Parent(p)) : p \in P } :
                      \A p \in P : HasPrefix(Parent(p), q) }
    IN IF common = {} THEN Root ELSE Closest(common)
SafeCreatePrim(s, p) ==
    LET missing == { q \in Ancestors(p) : ~Exists(s, q) }
    IN Edited(s, [q \in missing |-> Def("Xform")] @@ s.prims)

CreatePointInstancer(s, set, source, location) ==
    LET parent == IF location = None THEN CommonRoot(set) ELSE location
        ready == SafeCreatePrim(s, parent)
        placed == Sorted(set, Before)
        instancer == FreePath(Composed(ready, parent),
                              Append(parent, Last(source) \o "_Instancer"), "_")
        prototype == Append(instancer, Last(source))
        created == [Def("PointInstancer") EXCEPT
                      !.pos = [i \in DOMAIN placed |-> World(s, placed[i]) - World(s, parent)]]
        copied == CopySpec((instancer :> created) @@ ready.prims, source, prototype)
        \* _rebindResolvedMaterials: for full renders only where another is bound.
        full == FullMaterial(s, source)
        bound == [p \in DOMAIN copied |->
                    IF p # prototype THEN copied[p]
                    ELSE [copied[p] EXCEPT !.xf = None, !.op = None, !.bind = Material(s, source),
                                           !.rel = IF full = Material(s, source) THEN @ ELSE full]]
    IN DeletePrims(Edited(ready, bound), set, TRUE, FALSE)

-----------------------------------------------------------------------------
\* Which member of a set the bucketer puts last, or first, is its hashing's.
Deduplicate(s, sets, prototype, method, location, minimumDuplicates) ==
    FoldSet(LAMBDA set, t :
              IF method = "pointInstancer"
              THEN IF Cardinality(set) < minimumDuplicates THEN t
                   ELSE CreatePointInstancer(t, set, prototype[set], location)
              ELSE ConformUsingComposition(t, set, prototype[set], method = "instanceable"),
            s, sets)

DeduplicateGeometry(method, location, minimumDuplicates) ==
    LET sets == FindIdenticalMeshes(stage, method)
    IN \E prototype \in [sets -> UNION sets] :
          /\ \A set \in sets : prototype[set] \in set
          /\ stage' = Deduplicate(stage, sets, prototype, method, location, minimumDuplicates)
=============================================================================
