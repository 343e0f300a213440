---------------------------- MODULE VirtualMesh ----------------------------
(***************************************************************************)
(* The virtual mesh of the geometry library: a mesh taken from a prim,     *)
(* sliced to some of its faces or merged with others, and written back.    *)
(* The "geo" of a mesh prim is a record: points (along one line), faces    *)
(* and creases as sequences of indices of points, holes as a set of faces, *)
(* the material subsets, the primvars by name, the other schema attributes *)
(* as one token, and whether the geometry is animated.  A transform is a   *)
(* translation, so it moves points and leaves normals alone.               *)
(***************************************************************************)
EXTENDS Stage

CONSTANT PrimvarDefaults  \* the primvars merged where only some meshes have them

\* A sequence of the members of a set of numbers, in ascending order.
Ascending(S) == Sorted(S, <)
Position(x, seq) == CHOOSE i \in DOMAIN seq : seq[i] = x
Pick(seq, indices) == Tuple([i \in DOMAIN indices |-> seq[indices[i]]])
Shift(seq, n) == Tuple([i \in DOMAIN seq |-> seq[i] + n])

-----------------------------------------------------------------------------
(* Primvars *)

ByPoint == {"vertex", "varying"}

\* A value that an index misses is the first one.
Flattened(pv) ==
    IF pv.indices = << >> THEN pv.values
    ELSE Tuple([i \in DOMAIN pv.indices |-> IF pv.indices[i] \in DOMAIN pv.values
                THEN pv.values[pv.indices[i]] ELSE pv.values[1]])
ValueAt(values, i, default) == IF i \in DOMAIN values THEN values[i] ELSE default

\* Mutant: the values are made unique, and the indices stay what they were.
M_ReindexedOldIndices(pv, interp, flat) == [pv EXCEPT !.interp = interp, !.values = flat]

\* The values without repetition and where each is found.
Reindexed(pv, interp, flat) ==
    LET values == FoldLeft(LAMBDA known, v : IF Contains(known, v) THEN known ELSE Append(known, v),
                           << >>, flat)
    IN [pv EXCEPT !.interp = interp, !.values = values,
                  !.indices = Tuple([i \in DOMAIN flat |-> Position(flat[i], values)])]

TransformSpatialValues(pv, by) ==
    IF pv.role = "point" THEN [pv EXCEPT !.values = Shift(@, by)] ELSE pv

\* The corners of the faces, each with its face and its point.
Corners(faces) ==
    FlattenSeq(Tuple([f \in DOMAIN faces |->
                      Tuple([i \in DOMAIN faces[f] |-> [face |-> f, point |-> faces[f][i]]])]))

\* The interpolation that can hold every primvar of the list.
Weight(interp) ==
    CASE interp = "constant" -> 0 [] interp = "uniform" -> 1
      [] interp = "faceVarying" -> 3 [] OTHER -> -1
Widen(interp, next, sameValue) ==
    CASE interp = next -> IF interp = "constant" /\ ~sameValue THEN "uniform" ELSE interp
      [] interp \in ByPoint /\ interp # next -> "faceVarying"
      [] OTHER -> IF Weight(next) = -1 THEN "faceVarying"
                  ELSE IF Weight(next) > Weight(interp) THEN next ELSE interp
MergedInterpolation(pvs) ==
    LET first == Flattened(pvs[1])[1]
    IN FoldLeft(LAMBDA interp, pv : Widen(interp, pv.interp, Flattened(pv)[1] = first),
                pvs[1].interp, pvs)

\* One value per face, point or corner of a mesh.
Expanded(pv, mesh, interp, default) ==
    LET values == Flattened(pv)
        Of(face, point, corner) ==
            CASE pv.interp = "constant" -> ValueAt(values, 1, default)
              [] pv.interp = "uniform" -> ValueAt(values, face, default)
              [] pv.interp \in ByPoint -> ValueAt(values, point, default)
              [] OTHER -> ValueAt(values, corner, default)
        corners == Corners(mesh.faces)
    IN CASE interp = "uniform" -> Tuple([f \in DOMAIN mesh.faces |-> Of(f, 0, 0)])
         [] interp \in ByPoint -> Tuple([i \in DOMAIN mesh.points |-> Of(0, i, 0)])
         [] OTHER -> Tuple([c \in DOMAIN corners |-> Of(corners[c].face, corners[c].point, c)])

MergePrimvars(pvs, meshes, default) ==
    LET interp == MergedInterpolation(pvs)
    IN IF interp = "constant"
       THEN [pvs[1] EXCEPT !.values = <<Flattened(pvs[1])[1]>>, !.indices = << >>]
       ELSE Reindexed(pvs[1], interp,
                FlattenSeq(Tuple([i \in DOMAIN pvs |-> Expanded(pvs[i], meshes[i], interp, default)])))

SlicePrimvar(pv, mesh, faces, points) ==
    LET values == Flattened(pv)
        corners == Corners(mesh.faces)
        kept == FlattenSeq(Tuple([i \in DOMAIN faces |->
                                  Ascending({ c \in DOMAIN corners : corners[c].face = faces[i] })]))
    IN CASE pv.interp = "constant" -> pv
         [] pv.interp = "uniform" -> Reindexed(pv, "uniform", Pick(values, faces))
         [] pv.interp \in ByPoint -> Reindexed(pv, pv.interp, Pick(values, points))
         [] OTHER -> Reindexed(pv, "faceVarying", Pick(values, kept))

-----------------------------------------------------------------------------
(* A virtual mesh derived from a prim: its geometry with the material each *)
(* face has, in subsets, when the prim has any.                            *)

\* ComputeBoundMaterial of a prim, and of a subset that binds sub.
Usable(s, m) == IF m # None /\ Get(s, m, "type") = "Material" THEN m ELSE None
BoundMaterial(s, p) == Usable(s, Material(s, p))
SubsetMaterial(s, p, sub) == IF sub # None THEN Usable(s, sub) ELSE BoundMaterial(s, p)

MaterialSubsets(s, p, geo) ==
    LET Bound(m) == UNION { sub.faces : sub \in { t \in geo.subsets : SubsetMaterial(s,
                                                                                     p, t.bind) = m } }
        unassigned == DOMAIN geo.faces \ UNION { sub.faces : sub \in geo.subsets }
        own == BoundMaterial(s, p)
        assigned == { SubsetMaterial(s, p, sub.bind) : sub \in geo.subsets }
        materials == assigned \cup IF unassigned = {} THEN {} ELSE {own}
    IN IF geo.subsets = {} THEN [materials |-> << >>, unassigned |-> None]
       ELSE [materials |->
                Fun([m \in materials |-> Ascending(Bound(m)) \o IF m = own
                     THEN Ascending(unassigned) ELSE << >>]),
             unassigned |-> IF unassigned = {} THEN None ELSE own]

DerivedMesh(s, p) ==
    LET geo == Get(s, p, "geo")
        subsets == MaterialSubsets(s, p, geo)
    IN [source |-> p, derived |-> TRUE, geo |-> geo, world |-> World(s, p),
        material |-> BoundMaterial(s, p), rel |-> Get(s, p, "rel"), vis |-> Get(s, p, "vis"),
        subsets |-> subsets.materials, unassigned |-> subsets.unassigned]

\* Whether there is geometry to work on, and an extent to cluster by.
HasGeometry(geo) == geo.faces # << >> /\ geo.points # << >>
ValidateAndComputeExtent(mesh) == HasGeometry(mesh.geo) /\ ~mesh.geo.animated

-----------------------------------------------------------------------------
(* A subset: some faces of a mesh, in the given order. *)

ComputeSubsetGeometry(geo, faces) ==
    LET used == Ascending(UNION { Range(geo.faces[f]) : f \in Range(faces) })
        Mapped(indices) == Tuple([i \in DOMAIN indices |-> Position(indices[i], used)])
        Cut(crease) == Mapped(SelectSeq(crease, LAMBDA i : Contains(used, i)))
        cut == Tuple([c \in DOMAIN geo.creases |-> Cut(geo.creases[c])])
    IN [geo EXCEPT
          !.points = Pick(@, used),
          !.faces = Tuple([i \in DOMAIN faces |-> Mapped(geo.faces[faces[i]])]),
          !.holes = { i \in DOMAIN faces : faces[i] \in geo.holes },
          !.creases = SelectSeq(cut, LAMBDA c : c # << >>),
          !.subsets = {},
          !.pv = Fun([name \in DOMAIN @ |-> SlicePrimvar(geo.pv[name], geo, faces, used)])]

\* No faces, or as many as there are, is the mesh itself.
NewSubset(mesh, faces) ==
    IF Len(faces) \in {0, Len(mesh.geo.faces)} THEN mesh
    ELSE [mesh EXCEPT !.derived = FALSE, !.geo = ComputeSubsetGeometry(@, faces), !.subsets = << >>]

BindMaterial(mesh, material) == [mesh EXCEPT !.material = material]

-----------------------------------------------------------------------------
(* A superset: several meshes as one, in the frame of the prim it is for.  *)

\* A mesh with material subsets counts as one child per material.
SupersetChildren(mesh) ==
    LET materials == Sorted(DOMAIN mesh.subsets \ {None}, Before)
        ordered == IF None \in DOMAIN mesh.subsets THEN <<None>> \o materials ELSE materials
    IN IF mesh.subsets = << >> THEN <<mesh>>
       ELSE Tuple([i \in DOMAIN ordered |->
                   BindMaterial(NewSubset(mesh, mesh.subsets[ordered[i]]), ordered[i])])

\* The material of the faces in no subset, while the children agree on one.
Unassigned(meshes) ==
    LET subsetted == SelectSeq(meshes, LAMBDA mesh : mesh.subsets # << >>)
        Agree(state, mesh) ==
            IF state.material = None /\ mesh.unassigned # None
            THEN [has |-> TRUE, material |-> mesh.unassigned]
            ELSE IF state.material # mesh.unassigned THEN [state EXCEPT !.has = FALSE] ELSE state
    IN FoldLeft(Agree, [has |-> FALSE, material |-> None], subsetted)

Having(children, name) == { child \in Range(children) : name \in DOMAIN child.geo.pv }
\* The primvars that can be merged: all children have them, or a default stands in.
Mergeable(children) ==
    LET Roles(name) == { child.geo.pv[name].role : child \in Having(children, name) }
    IN { name \in UNION { DOMAIN children[i].geo.pv : i \in DOMAIN children } :
           \/ name \in DOMAIN PrimvarDefaults
           \/ Having(children, name) = Range(children) /\ Cardinality(Roles(name)) = 1 }
MergedPrimvar(children, root, name) ==
    LET having == SelectSeq(children, LAMBDA child : name \in DOMAIN child.geo.pv)
        Moved(i) == TransformSpatialValues(having[i].geo.pv[name], having[i].world - root)
    IN MergePrimvars(Tuple([i \in DOMAIN having |-> Moved(i)]),
                     Tuple([i \in DOMAIN having |-> having[i].geo]),
                     IF name \in DOMAIN PrimvarDefaults THEN PrimvarDefaults[name] ELSE 0)

\* The faces and points of the n-th child follow those of the ones before it.
FaceOffset(children, n) == MapThenSumSet(LAMBDA k : Len(children[k].geo.faces), 1..(n - 1))
VertexOffset(children, n) == MapThenSumSet(LAMBDA k : Len(children[k].geo.points), 1..(n - 1))
MergedIndices(children, f) ==
    FlattenSeq(Tuple([n \in DOMAIN children |->
                      Tuple([i \in DOMAIN children[n].geo[f] |->
                             Shift(children[n].geo[f][i], VertexOffset(children, n))])]))
MergedHoles(children) ==
    UNION { { hole + FaceOffset(children,
                                n) : hole \in children[n].geo.holes } : n \in DOMAIN children }
MergedPoints(children, root) ==
    FlattenSeq(Tuple([n \in DOMAIN children |-> Shift(children[n].geo.points,
                                                      children[n].world - root)]))

\* Where the materials differ the faces are recorded by the material they have,
\* other than those of the material that is left unassigned.
RecordAsSubset(children, unassigned, n) ==
    /\ \E i \in DOMAIN children : children[i].material # children[1].material
    /\ children[n].material # None
    /\ unassigned.has => children[n].material # unassigned.material
MergedSubsets(children, unassigned) ==
    LET recorded == { n \in DOMAIN children : RecordAsSubset(children, unassigned, n) }
        Faces(n) == { f + FaceOffset(children, n) : f \in DOMAIN children[n].geo.faces }
        Bound(m) == UNION { Faces(n) : n \in { r \in recorded : children[r].material = m } }
    IN { [bind |-> m, faces |-> Bound(m)] : m \in { children[n].material : n \in recorded } }

\* What the first child that has any has.
FirstOf(children, f) ==
    LET some == SelectSeq(children, LAMBDA child : child[f] # None)
    IN IF some = << >> THEN None ELSE some[1][f]
SupersetMaterial(children, unassigned, subsets) ==
    IF subsets = {} THEN FirstOf(children, "material")
    ELSE IF unassigned.has THEN unassigned.material ELSE None

MergedGeometry(children, root, subsets) ==
    [points |-> MergedPoints(children, root),
     faces |-> MergedIndices(children, "faces"),
     creases |-> MergedIndices(children, "creases"),
     holes |-> MergedHoles(children),
     subsets |-> subsets,
     pv |-> Fun([name \in Mergeable(children) |-> MergedPrimvar(children, root, name)]),
     style |-> children[1].geo.style,
     animated |-> FALSE]
MergedMesh(children, root, unassigned, subsets) ==
    [children[1] EXCEPT
       !.geo = MergedGeometry(children, root, subsets),
       !.world = root,
       !.derived = FALSE,
       !.rel = FirstOf(children, "rel"),
       !.vis = FirstOf(children, "vis"),
       !.material = SupersetMaterial(children, unassigned, subsets)]
MergeChildren(children, root, unassigned) ==
    MergedMesh(children, root, unassigned, MergedSubsets(children, unassigned))
ComputeSupersetGeometry(meshes, root) ==
    MergeChildren(FlattenSeq([i \in DOMAIN meshes |-> SupersetChildren(meshes[i])]), root,
                  Unassigned(meshes))

-----------------------------------------------------------------------------
(* Writing a virtual mesh at a path, below ancestors that may be missing.  *)

MissingParents(s, path) == { q \in Ancestors(path) \ {path} : ~Exists(s, q) }
MeshSpec(mesh, xf) ==
    [Def("Mesh") EXCEPT !.geo = mesh.geo, !.bind = mesh.material, !.rel = mesh.rel,
                        !.vis = mesh.vis, !.xf = xf]
CreateInLayer(s, mesh, path, xf) ==
    LET prims == WithSpec(s.prims, path)
        Xform(spec) == [spec EXCEPT !.type = "Xform", !.spec = "def"]
        parents == Fun([q \in MissingParents(s, path) |-> Xform(prims[q])])
    IN Edited(s, (path :> MeshSpec(mesh, xf)) @@ parents @@ prims)
=============================================================================
