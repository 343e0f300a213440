---------------------------- MODULE SplitMeshes ----------------------------
(***************************************************************************)
(* The splitMeshes operation: meshes made of pieces that share no vertex,  *)
(* or with subsets of faces, are replaced by a mesh per piece or subset,   *)
(* which may then be clustered.                                            *)
(***************************************************************************)
EXTENDS Clustering

\* The meshes below a prim, not looking into what is not defined, below
\* materials and physics bodies, into instances, or below a mesh.
StaticMeshesBelow(s, start) ==
    LET Entered(p) == \A q \in Ancestors(p) :
            HasPrefix(q, start) /\ q # Root =>
                /\ Get(s, q, "spec") = "def" /\ IsActive(s, q)
                /\ Type(s, q) # "Material" /\ Tag(s, q) # "body"
        Passed(q) == ~IsInstance(s, q) /\ Type(s, q) # "Mesh"
    IN { p \in Subtree(s, start) \ {Root} :
            /\ Type(s, p) = "Mesh" /\ Entered(p)
            /\ \A q \in Ancestors(p) \ {p} : HasPrefix(q, start) => Passed(q) }
FindStaticMeshes(s, paths) ==
    LET starts == IF paths = << >> THEN {Root} ELSE { p \in Range(paths) : Exists(s, p) }
    IN InOrder(UNION { StaticMeshesBelow(s, p) : p \in starts })

ValidateMeshTopology(geo) ==
    \A f \in DOMAIN geo.faces : Range(geo.faces[f]) \subseteq DOMAIN geo.points

-----------------------------------------------------------------------------
(* The pieces of a mesh *)

\* Mutant: the last point of a face is taken to be connected to the first of the next one.
M_FindDisjointMeshesAcrossFaces(geo, splitCollocatedPoints) ==
    LET all == FlattenSeq(geo.faces)
    IN DisjointSets(DOMAIN geo.points, { {all[i], all[i + 1]} : i \in 1..(Len(all) - 1) })

\* Points that one face has are together and, where collocated points do not
\* split, so are a point of a face other than its last and the first such one
\* that is at the same place.
FindDisjointMeshes(geo, splitCollocatedPoints) ==
    LET Edges(face) == { {face[i], face[i + 1]} : i \in 1..(Len(face) - 1) }
        faces == Range(geo.faces) \ {<< >>}
        inFaces == UNION { Edges(face) : face \in faces }
        seen == UNION { Range(Front(face)) : face \in faces }
        collocated == { { i \in seen : geo.points[i] = x } : x \in Range(geo.points) } \ {{}}
    IN DisjointSets(DOMAIN geo.points, inFaces \cup IF splitCollocatedPoints THEN {} ELSE collocated)

\* The material of the first face of a piece that a subset binds.
PieceMaterial(geo, faces) ==
    LET Binding(f) == { sub.bind : sub \in { t \in geo.subsets : f \in t.faces /\ t.bind # None } }
        bound == SelectSeq(faces, LAMBDA f : Binding(f) # {})
    IN IF bound = << >> THEN None ELSE CHOOSE m \in Binding(bound[1]) : TRUE

Piece(mesh, faces, material) ==
    IF material = None THEN NewSubset(mesh, faces)
    ELSE BindMaterial(NewSubset(mesh, faces), material)

CollectDisjointMeshes(mesh, splitCollocatedPoints) ==
    LET geo == mesh.geo
        FacesOf(piece) ==
            Ascending({ f \in DOMAIN geo.faces : geo.faces[f] # << >> /\ Head(geo.faces[f]) \in piece })
        pieces == { FacesOf(piece) : piece \in FindDisjointMeshes(geo, splitCollocatedPoints) }
                  \ {<< >>}
        ordered == Sorted(pieces, LAMBDA p, q : p[1] < q[1])
    IN Tuple([i \in DOMAIN ordered |-> Piece(mesh, ordered[i], PieceMaterial(geo, ordered[i]))])

\* A piece per subset of faces, after one of the faces that are in none.
CollectGeomSubsets(mesh) ==
    LET subsets == Sorted({ sub \in mesh.geo.subsets : sub.faces # {} },
                                LAMBDA a, b : Min(a.faces) < Min(b.faces))
        remaining == DOMAIN mesh.geo.faces \ UNION { sub.faces : sub \in mesh.geo.subsets }
        faces == IF remaining = {} THEN subsets
                 ELSE <<[bind |-> None, faces |-> remaining]>> \o subsets
    IN IF subsets = << >> THEN << >>
       ELSE Tuple([i \in DOMAIN faces |-> Piece(mesh, Ascending(faces[i].faces), faces[i].bind)])

SubsetMeshes(mesh, splitOn, splitCollocatedPoints) ==
    IF ~ValidateMeshTopology(mesh.geo) THEN << >>
    ELSE IF splitOn = "vertices" THEN CollectDisjointMeshes(mesh, splitCollocatedPoints)
    ELSE CollectGeomSubsets(mesh)

-----------------------------------------------------------------------------
(* Writing the pieces *)

\* Of the meshes, each a sequence of pieces, those that have several.
CreateMeshesFromDisjointMeshes(s, split, method) ==
    LET several == SelectSeq(split, LAMBDA pieces : Len(pieces) > 1)
    IN RemoveBy(CreateParts(s, FlattenSeq(several)),
                { several[i][1].source : i \in DOMAIN several }, method)

PiecesOf(meshes, splitOn, splitCollocatedPoints) ==
    Tuple([i \in DOMAIN meshes |-> SubsetMeshes(meshes[i], splitOn, splitCollocatedPoints)])

\* Pieces of meshes with a merge boundary are clustered where that is asked for.
WritePieces(s, lookup, pieces, opt, method) ==
    LET split == SelectSeq(pieces, LAMBDA p : p # << >> /\ p[1].source \notin DOMAIN lookup)
        toCluster == SelectSeq(FlattenSeq(pieces), LAMBDA p : p.source \in DOMAIN lookup)
    IN CreateMeshesFromDisjointMeshes(ClusterMeshes(s, lookup, toCluster, opt, method), split, method)

SplitMeshes(paths, splitOn, splitCollocatedPoints, opt, method) ==
    stage' = WritePieces(stage,
                 IF opt.mode = "none" THEN << >>
                 ELSE DiscoverMergeBoundaries(stage, paths, opt.mergePoint),
                 PiecesOf(DerivedMeshes(stage, FindStaticMeshes(stage, paths)),
                          splitOn, splitCollocatedPoints), opt, method)
=============================================================================
