------------------------------- MODULE Meshes -------------------------------
(***************************************************************************)
(* Meshes merged, split and clustered, and their primvars rewritten, one   *)
(* operation after another.  None of them is meant to change the surface   *)
(* that the stage shows.                                                   *)
(***************************************************************************)
EXTENDS SplitMeshes, RemoveUnusedUVs

CONSTANTS
    InitialStages,  \* the stages a sequence of operations starts from
    MergeOptions,   \* what merge is configured with
    SplitOptions,   \* what splitMeshes is configured with
    PrimvarOptions, \* what optimizePrimvars is configured with
    UVPaths,        \* the prims removeUnusedUVs is given
    MaxSteps        \* bound: the operations run on a stage

VARIABLES steps, done
vars == <<stage, steps, done>>

Init == stage \in InitialStages /\ steps = 0 /\ done = [operation |-> None]
Step == steps < MaxSteps /\ steps' = steps + 1

MergeMeshes ==
    \E o \in MergeOptions :
        /\ Merge(o.paths, o, o.method)
        /\ done' = [operation |-> "merge", with |-> o, was |-> stage]

Split ==
    \E o \in SplitOptions :
        /\ SplitMeshes(o.paths, o.splitOn, o.splitCollocatedPoints, o, o.method)
        /\ done' = [operation |-> "splitMeshes", with |-> o, was |-> stage]

\* Guard: an indexed string primvar is not reduced, unless it is written anyway.
IndexedStrings(s, tasks) ==
    { t \in tasks : LET pv == Get(s, t[1], "geo").pv[t[2]] IN pv.role = "string" /\ pv.indices # << >> }
Primvars ==
    \E o \in PrimvarOptions :
        /\ (o.simplify /\ o.mode \notin {"flatten", "forced"})
             => IndexedStrings(stage, Tasks(stage, o)) = {}
        /\ OptimizePrimvars(o)
        /\ done' = [operation |-> "optimizePrimvars", with |-> o, was |-> stage]

\* The coordinates a material reads: a texture may read any.
ReadBy(s, m) == IF MightUseUVs(s, m) THEN UVNames ELSE Readers(s, m)

\* Guard: what is removed is not read through a subset, or by a prim that composes the mesh.
ReadElsewhere(s, p, name) ==
    \/ \E sub \in Get(s, p, "geo").subsets : name \in ReadBy(s, SubsetMaterial(s, p, sub.bind))
    \/ \E q \in DOMAIN s.composed : p \in Leads(s, q, MaxArcs)
        /\ name \in ReadBy(s, BoundMaterial(s, q))
OwnUVs(s, paths) == { t \in ToRemove(s, paths) : ReadElsewhere(s, t[1], t[2]) } = {}
UVs ==
    \E paths \in UVPaths, mode \in {"remove", "block"} :
        /\ OwnUVs(stage, paths)
        /\ RemoveUnusedUVs(paths, mode)
        /\ done' = [operation |-> "removeUnusedUVs", was |-> stage]

Checkers ==
    /\ IndexedPrimvarChecker \/ (OwnUVs(stage, << >>) /\ UnusedUVsChecker)
    /\ done' = [operation |-> "checker", was |-> stage]

Next == Step /\ (MergeMeshes \/ Split \/ Primvars \/ UVs \/ Checkers)
Spec == Init /\ [][Next]_vars

-----------------------------------------------------------------------------
\* A face as it is seen: where its corners are, the values its primvars have
\* there, of the texture coordinates those that its material reads, the
\* material, and what else decides how it is rendered.
FaceMaterial(s, p, geo, f) ==
    LET over == { sub \in geo.subsets : f \in sub.faces /\ sub.bind # None }
    IN IF over = {} THEN Material(s, p) ELSE (CHOOSE sub \in over : TRUE).bind
ValueOf(pv, f, point, corner) ==
    LET values == Flattened(pv)
    IN CASE pv.interp = "constant" -> values[1] [] pv.interp = "uniform" -> values[f]
         [] pv.interp \in ByPoint -> values[point] [] OTHER -> values[corner]
Cornered(pv, f, corners, own, by) ==
    LET Value(c) == ValueOf(pv, f, corners[c].point, c)
    IN Tuple([i \in DOMAIN own |-> IF pv.role = "point" THEN Value(own[i]) + by ELSE Value(own[i])])
FaceLook(s, p, geo, f, by, m, ignored) ==
    LET corners == Corners(geo.faces)
        own == Ascending({ c \in DOMAIN corners : corners[c].face = f })
        read == DOMAIN geo.pv \ (ignored \cup (UVNames \ ReadBy(s, Usable(s, m))))
    IN [points |-> Tuple([i \in DOMAIN own |-> geo.points[corners[own[i]].point] + by]),
        values |-> Fun([name \in read |-> Cornered(geo.pv[name], f, corners, own, by)]),
        material |-> Shading(s, p, m),
        hole |-> f \in geo.holes, style |-> geo.style, animated |-> geo.animated]
FaceLooks(s, p, x, ignored) ==
    LET geo == Get(s, p, "geo")
        by == World(s, p) + x
    IN Tuple([f \in DOMAIN geo.faces |-> FaceLook(s, p, geo, f, by,
                                                  FaceMaterial(s, p, geo, f), ignored)])
CreaseLooks(s, p, x) ==
    LET geo == Get(s, p, "geo")
    IN Tuple([c \in DOMAIN geo.creases |-> Shift(Pick(geo.points, geo.creases[c]), World(s, p) + x)])
AllLooks(s, Looks(_, _, _)) ==
    FoldSet(LAMBDA d, looks : looks (+) ToBag(Looks(s, d[1], d[2])), EmptyBag, Drawn(s))
Faces(s, ignored) == AllLooks(s, LAMBDA t, p, x : FaceLooks(t, p, x, ignored))

\* The primvars that optimizePrimvars was asked to remove.
Ignored(o) == IF o.operation = "optimizePrimvars"
    THEN (IF o.with.mode = "remove" THEN o.with.primvars ELSE {}) ELSE {}

\* Every face is shown where it was, as it was and as often, but for primvars that
\* were to be removed; so is every crease.
SurfaceKept ==
    [][/\ Faces(stage', Ignored(done')) = Faces(stage, Ignored(done'))
       /\ AllLooks(stage', CreaseLooks) = AllLooks(stage, CreaseLooks)]_vars

\* The parts of a geometry fit together: indices lead to points and values,
\* there is a value per face, point or corner, subsets do not overlap.
FitsGeometry(pv, geo) ==
    /\ pv.indices # << >> => Range(pv.indices) \subseteq DOMAIN pv.values
    /\ Len(Flattened(pv)) =
          CASE pv.interp = "constant" -> 1 [] pv.interp = "uniform" -> Len(geo.faces)
            [] pv.interp \in ByPoint -> Len(geo.points) [] OTHER -> Len(Corners(geo.faces))
Sound(geo) ==
    /\ ValidateMeshTopology(geo)
    /\ geo.holes \subseteq DOMAIN geo.faces
    /\ \A crease \in Range(geo.creases) : Len(crease) > 1 /\ Range(crease) \subseteq DOMAIN geo.points
    /\ \A sub \in geo.subsets : sub.faces \subseteq DOMAIN geo.faces
    /\ \A a, b \in geo.subsets : a # b => a.faces \cap b.faces = {}
    /\ \A name \in DOMAIN geo.pv : FitsGeometry(geo.pv[name], geo)
Meshes(s) == { p \in DOMAIN s.prims : s.prims[p].type = "Mesh" /\ s.prims[p].geo # None }
GeometrySound == \A p \in Meshes(stage) : Sound(stage.prims[p].geo)

OnlySplit == done.operation = "splitMeshes" /\ done.with.mode = "none" /\ done.with.splitOn = "vertices"

\* Some points of a geometry are whole faces, and the others are elsewhere.
Separable(geo, splitCollocatedPoints) ==
    \E part \in SUBSET DOMAIN geo.points \ {{}, DOMAIN geo.points} :
        /\ \A face \in Range(geo.faces) : Range(face) \subseteq part \/ Range(face) \cap part = {}
        /\ ~splitCollocatedPoints =>
              \A i \in part, j \in DOMAIN geo.points \ part : geo.points[i] # geo.points[j]

\* After a split none of the meshes asked for would come apart any further.
PiecesWhole ==
    OnlySplit => \A p \in Range(FindStaticMeshes(stage, done.with.paths)) :
        ~Separable(Get(stage, p, "geo"), done.with.splitCollocatedPoints)
=============================================================================
