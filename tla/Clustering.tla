----------------------------- MODULE Clustering -----------------------------
(***************************************************************************)
(* SpatialClustering and the bucketer: which meshes are found and where    *)
(* they may be merged (the merge boundaries), which of them lie together,  *)
(* which of those look alike enough for one mesh, and the writing of it.   *)
(***************************************************************************)
EXTENDS VirtualMesh

CONSTANT MaxDataVolume  \* the points an output mesh may hold, unless one child has more

InOrder(P) == Sorted(P, Before)
Type(s, p) == Get(s, p, "type")
Tag(s, p) == Get(s, p, "tag")

-----------------------------------------------------------------------------
(* Merge boundaries *)

\* What instances take their children from, and the prototypes of instancers.
InstancedPrims(s) ==
    LET instances == { p \in Subtree(s, Root) \ {Root} : IsInstance(s, p) /\ Default(s, p) }
        children == UNION { { c \in Composed(s, p) : Get(s, c, "spec") = "def" } : p \in instances }
        targets == UNION { Leads(s, c, MaxArcs) : c \in children }
        instancers == { p \in Subtree(s, Root) : Type(s, p) = "PointInstancer" /\ ~IsProxy(s, p) }
    IN { Parent(t) : t \in { u \in targets : Exists(s, u) } }
       \cup UNION { AllChildren(s, p) : p \in instancers }

\* Mutant: what instances share is no boundary.
M_IsMergeBoundaryNotInstanced(s, p, instanced, mergePoint) ==
    \/ p = Root
    \/ mergePoint \in {"parent", "original"}
    \/ Get(s, p, "spec") # "def"
    \/ mergePoint = "xform" /\ Type(s, p) = "Xform"
    \/ mergePoint = "root" /\ Len(p) = 1
    \/ mergePoint = "component" /\ Tag(s, p) \in {"component", "group"}
    \/ mergePoint = "group" /\ Tag(s, p) = "group"
    \/ Tag(s, p) \in {"resets", "varying"}

IsMergeBoundary(s, p, instanced, mergePoint) ==
    \/ p = Root
    \/ mergePoint \in {"parent", "original"}
    \/ Get(s, p, "spec") # "def"
    \/ p \in instanced
    \/ mergePoint = "xform" /\ Type(s, p) = "Xform"
    \/ mergePoint = "root" /\ Len(p) = 1
    \/ mergePoint = "component" /\ Tag(s, p) \in {"component", "group"}
    \/ mergePoint = "group" /\ Tag(s, p) = "group"
    \/ Tag(s, p) \in {"resets", "varying"}

HasUnmergeableChildren(s, p) == GetChildren(s, p) # {}

\* A mesh that can be taken away from where it is.
IsMergeable(s, p, instanced) ==
    /\ p \notin instanced
    /\ ~HasUnmergeableChildren(s, p)
    /\ Tag(s, p) \notin {"resets", "varying"}

\* The meshes found from start on, each with the boundary it was found from:
\* opt holds the instanced prims, the merge point and skipInvisible.
RECURSIVE FindMeshes(_, _, _, _, _), Visit(_, _, _, _, _)
FindMeshes(s, start, root, opt, found) ==
    IF root # Root /\ Type(s, root) = "Mesh"
    THEN IF opt.mergePoint = "original" /\ Tag(s, start) # "body"
         THEN (root :> root) @@ found ELSE found
    ELSE Visit(s, start, root, opt, found)

Visit(s, p, root, opt, found) ==
    LET Child(sofar, q) == Visit(s, q, root, opt, sofar)
        Anew(sofar, q) == FindMeshes(s, q, q, opt, sofar)
        children == { c \in AllChildren(s, p) : IsActive(s, c) }
    IN CASE p = Root -> FoldLeft(Child, found, InOrder(children))
         [] p # Root /\ (Get(s, p, "spec") # "def" \/ Tag(s, p) = "body") -> found
         [] Type(s, p) = "Mesh" ->
              IF IsMergeable(s, p, opt.instanced) /\ p \notin DOMAIN found
              THEN found @@ (p :> IF opt.mergePoint = "original" THEN p ELSE root)
              ELSE found
         [] Type(s, p) = "Material" -> found
         [] opt.skipInvisible /\ Get(s, p, "vis") = "invisible" -> found
         [] IsInstance(s, p) ->
              LET source == First(DirectTargets(s, p, 0))
              IN IF Exists(s, source) THEN Anew(found, source) ELSE found
         [] Type(s, p) = "PointInstancer" -> FoldLeft(Anew, found, InOrder(Composed(s, p)))
         [] p # root /\ IsMergeBoundary(s, p, opt.instanced, opt.mergePoint) -> Anew(found, p)
         [] OTHER -> FoldLeft(Child, found, InOrder(children))

\* From the given paths, or from the root where none is given; what is
\* invisible is passed by unless it was asked for.
DiscoverMergeBoundaries(s, paths, mergePoint) ==
    LET instanced == InstancedPrims(s)
        Boundary(p) == Closest({ q \in Ancestors(p) \cup {Root} :
                                    IsMergeBoundary(s, q, instanced, mergePoint) })
        From(found, p) ==
            FindMeshes(s, p, Boundary(p),
                       [instanced |-> instanced, mergePoint |-> mergePoint,
                        skipInvisible |-> p = Root \/ Visible(s, p)], found)
    IN FoldLeft(From, << >>, IF paths = << >> THEN <<Root>>
                                ELSE SelectSeq(paths, LAMBDA p : Exists(s, p)))

-----------------------------------------------------------------------------
(* Spatial clusters: a sequence of sets of indices of a sequence of meshes. *)
(* A mesh that is not valid has no bound, no vertices and a center that is *)
(* never set: the parameter unset stands for what is found there.          *)

WorldPoints(mesh) == Shift(mesh.geo.points, mesh.world)
Bound(mesh) == [min |-> Min(Range(WorldPoints(mesh))), max |-> Max(Range(WorldPoints(mesh)))]
Combine(a, b) == [min |-> Min({a.min, b.min}), max |-> Max({a.max, b.max})]
Size(bound) == bound.max - bound.min
Vertices(mesh) ==
    IF ValidateAndComputeExtent(mesh) THEN Len(FlattenSeq(mesh.geo.faces)) ELSE 0
Twice(mesh, unset) ==
    IF ValidateAndComputeExtent(mesh) THEN Bound(mesh).min + Bound(mesh).max ELSE unset

\* The leaves of the hierarchy of bounds, from left to right.
MeshLeaves(meshes, unset) ==
    LET center == Tuple([i \in DOMAIN meshes |-> Twice(meshes[i], unset)])
    IN Sorted(DOMAIN meshes, LAMBDA i, j :
          center[i] < center[j] \/ (center[i] = center[j] /\ i < j))

RECURSIVE ByVertexCount(_, _, _)
ByVertexCount(meshes, leaves, max) ==
    LET middle == (Len(leaves) + 1) \div 2
    IN IF MapThenSumSet(LAMBDA i : Vertices(meshes[i]), Range(leaves)) <= max THEN <<Range(leaves)>>
       ELSE IF Len(leaves) = 1 THEN << >>
       ELSE ByVertexCount(meshes, SubSeq(leaves, 1, middle), max)
            \o ByVertexCount(meshes, SubSeq(leaves, middle + 1, Len(leaves)), max)
ClusterByVertexCount(meshes, max, unset) == ByVertexCount(meshes, MeshLeaves(meshes, unset), max)

Neighbors(meshes, leaves, i, distance) ==
    SelectSeq(leaves, LAMBDA j :
        /\ j # i /\ ValidateAndComputeExtent(meshes[i]) /\ ValidateAndComputeExtent(meshes[j])
        /\ Bound(meshes[j]).min <= Bound(meshes[i]).max + distance
        /\ Bound(meshes[i]).min <= Bound(meshes[j]).max + distance)

\* From a seed over neighbors of neighbors, the last one first, while the
\* bound of what was taken stays within the size.
RECURSIVE Grow(_, _, _, _, _)
Grow(meshes, neighbors, taken, size, c) ==
    IF c.queue = << >> THEN c.members
    ELSE LET top == Last(c.queue)
             n == Last(top)
             rest == Append(Front(c.queue), Front(top))
             bound == Combine(c.bound, Bound(meshes[n]))
         IN IF top = << >> THEN Grow(meshes, neighbors, taken, size, [c EXCEPT !.queue = Front(@)])
            ELSE IF n \in taken \/ n \in c.members \/ Size(bound) > size
            THEN Grow(meshes, neighbors, taken, size, [c EXCEPT !.queue = rest])
            ELSE Grow(meshes, neighbors, taken, size,
                      [seed |-> c.seed, members |-> c.members \cup {c.seed, n}, bound |-> bound,
                       queue |-> Append(rest, neighbors[n])])
Seeded(meshes, neighbors, clusters, taken, size, i) ==
    IF i \in taken \/ neighbors[i] = << >> THEN clusters
    ELSE Append(clusters, Grow(meshes, neighbors, taken, size,
                   [seed |-> i, members |-> {}, bound |-> Bound(meshes[i]),
                    queue |-> <<neighbors[i]>>]))
GrownClusters(meshes, neighbors, size) ==
    SelectSeq(FoldLeftDomain(LAMBDA clusters, i :
                  Seeded(meshes, neighbors, clusters, UNION Range(clusters), size, i), << >>, meshes),
              LAMBDA c : c # {})
AllNeighbors(meshes, leaves, distance) ==
    Tuple([i \in DOMAIN meshes |-> Neighbors(meshes, leaves, i, distance)])
SpatiallyClusterMeshes(meshes, distance, size, unset) ==
    GrownClusters(meshes, AllNeighbors(meshes, MeshLeaves(meshes, unset), distance), size)

\* DisjointSet: the elements, together wherever a pair connects them.
DisjointSets(elements, pairs) ==
    LET Union(pair, sets) ==
            LET touched == { c \in sets : c \cap pair # {} }
            IN (sets \ touched) \cup {UNION touched}
    IN FoldSet(Union, { {e} : e \in elements }, { pair \in pairs : pair \subseteq elements })

\* The points on an edge that only one face has.
BoundaryPoints(mesh) ==
    LET edges == FlattenSeq(Tuple([f \in DOMAIN mesh.geo.faces |-> LET face == mesh.geo.faces[f]
                    IN Tuple([i \in DOMAIN face |-> {face[i], face[(i % Len(face)) + 1]}])]))
        Faces(edge) == Cardinality({ i \in DOMAIN edges : edges[i] = edge })
        points == UNION { e \in Range(edges) : Cardinality(e) = 2 /\ Faces(e) = 1 }
    IN Pick(WorldPoints(mesh), Ascending(points))

\* Each point stands for the first one met that is near enough.
CanonicalId(known, x, tolerance) ==
    LET near == { y \in known : y - x \in -tolerance..tolerance }
    IN IF near = {} THEN x ELSE Min(near)
CanonicalIds(meshes, tolerance) ==
    LET Add(state, x) ==
            LET id == CanonicalId(state.known, x, tolerance)
            IN [known |-> state.known \cup {id}, ids |-> state.ids \cup {id}]
        OfMesh(state, i) ==
            LET next == IF ValidateAndComputeExtent(meshes[i])
                        THEN FoldLeft(Add, [state.last EXCEPT !.ids = {}], BoundaryPoints(meshes[i]))
                        ELSE [state.last EXCEPT !.ids = {}]
            IN [last |-> next, ids |-> Append(state.ids, next.ids)]
    IN FoldLeftDomain(OfMesh, [last |-> [known |-> {}, ids |-> {}], ids |-> << >>], meshes).ids

SharingPairs(ids, minShared) ==
    { {i, j} : <<i, j>> \in { pair \in (DOMAIN ids) \X (DOMAIN ids) :
        pair[1] < pair[2] /\ Cardinality(ids[pair[1]] \cap ids[pair[2]]) >= Max({minShared, 1}) } }
ClusterByCoincidentBoundary(meshes, tolerance, minShared) ==
    Sorted({ c \in DisjointSets(DOMAIN meshes,
                                SharingPairs(CanonicalIds(meshes, tolerance), minShared)) :
               Cardinality(c) > 1 }, LAMBDA c, d : Min(c) < Min(d))

SpatialClusters(meshes, opt) ==
    CASE opt.mode = "bounds" -> SpatiallyClusterMeshes(meshes, opt.threshold, opt.size, opt.unset)
      [] opt.mode = "vertices" -> ClusterByVertexCount(meshes, opt.size, opt.unset)
      [] opt.mode = "boundary" -> ClusterByCoincidentBoundary(meshes, opt.threshold, opt.size)

-----------------------------------------------------------------------------
(* Buckets: meshes that are alike enough for one mesh. *)

\* The meshes that discovery found, with the prim they may be merged under.
PreBuckets(lookup, meshes, opt) ==
    LET found == SelectSeq(meshes, LAMBDA mesh : mesh.source \in DOMAIN lookup)
        boundaries == InOrder({ lookup[found[i].source] : i \in DOMAIN found })
        Group(b) == SelectSeq(found, LAMBDA mesh : lookup[mesh.source] = b)
        Under(group, b) == Tuple([i \in DOMAIN group |->
                                  [mesh |-> group[i], parent |-> b \o Front(opt.rootPath)]])
    IN FlattenSeq(Tuple([k \in DOMAIN boundaries |-> Under(Group(boundaries[k]), boundaries[k])]))

\* What cannot be merged across meshes: an invisibility that the common
\* ancestor with the output does not have, the attributes, which primvars
\* there are, the material: the one bound to a piece, or else that of its prim, which
\* DerivedMesh binds.  No other field tells two invalid meshes apart.
Invalid == [parent |-> None, invisible |-> None, style |-> None, authored |-> None, material |-> None]
BucketKey(s, b, opt) ==
    LET mesh == b.mesh
        below == { q \in Ancestors(mesh.source) : ~HasPrefix(b.parent, q) }
    IN IF ~(IsActive(s, mesh.source) /\ ValidateAndComputeExtent(mesh)) THEN Invalid
       ELSE [parent |-> b.parent,
             invisible |-> \E q \in below : Get(s, q, "vis") = "invisible",
             style |-> mesh.geo.style,
             authored |-> DOMAIN mesh.geo.pv \cap DOMAIN PrimvarDefaults,
             material |-> IF opt.considerMaterials THEN mesh.material ELSE None]

\* The clusters of some of the meshes, as sets of their indices.
Named(clusters, peers) == Tuple([c \in DOMAIN clusters |-> { peers[k] : k \in clusters[c] }])
ClustersOf(buckets, peers, opt) ==
    Named(SpatialClusters(Tuple([k \in DOMAIN peers |-> buckets[peers[k]].mesh]), opt), peers)
IdsIn(buckets, clusters) ==
    LET In(i, own) == { c \in DOMAIN own : i \in own[c] }
        Id(in) == IF in = {} THEN 0 ELSE CHOOSE c \in in : TRUE
    IN Tuple([i \in DOMAIN buckets |-> Id(In(i, clusters[buckets[i].parent]))])

\* The cluster each mesh is in, of those under its parent, 0 where in none.
ClusterIds(buckets, opt) ==
    LET Under(p) == { i \in DOMAIN buckets : buckets[i].parent = p }
        parents == { buckets[i].parent : i \in DOMAIN buckets }
    IN IF opt.mode = "none" THEN [i \in DOMAIN buckets |-> 0]
       ELSE IdsIn(buckets, Fun([p \in parents |-> ClustersOf(buckets, Ascending(Under(p)), opt)]))

\* A hash that is not valid becomes one with the id of a cluster.
Hashes(s, buckets, ids, opt) ==
    LET Hash(key, id) ==
            IF (IF opt.mode = "none" THEN key = Invalid ELSE id = 0) THEN None
            ELSE [key |-> key, cluster |-> id]
    IN Tuple([i \in DOMAIN buckets |-> Hash(BucketKey(s, buckets[i], opt), ids[i])])

\* The output meshes with their children, in the order they are begun; one
\* that would hold too many points is followed by another of the same hash.
Outputs(hashes, buckets, opt) ==
    LET Alone(i) == \A j \in DOMAIN hashes \ {i} : hashes[j] # hashes[i]
        Volume(out) == MapThenSumSet(LAMBDA k : Len(out.children[k].geo.points), DOMAIN out.children)
        Add(outputs, i) ==
            LET same == { k \in DOMAIN outputs : outputs[k].hash = hashes[i] }
                mesh == buckets[i].mesh
            IN IF hashes[i] = None \/ (~opt.allowSingle /\ Alone(i)) THEN outputs
               ELSE IF same = {} \/ Volume(outputs[Max(same)]) + Len(mesh.geo.points) > MaxDataVolume
               THEN Append(outputs,
                           [hash |-> hashes[i], parent |-> buckets[i].parent, children |-> <<mesh>>])
               ELSE [outputs EXCEPT ![Max(same)].children = Append(@, mesh)]
    IN FoldLeftDomain(Add, << >>, buckets)
CreateVirtualMeshBuckets(s, buckets, opt) ==
    Outputs(Hashes(s, buckets, ClusterIds(buckets, opt), opt), buckets, opt)

-----------------------------------------------------------------------------
(* Writing the output meshes *)

\* Where a superset belongs, and the frame its points are in: that of the
\* prim it was bucketed under, or of the nearest one there is.  The code looks for
\* free names before it writes any, for all of one parent together: those for others
\* start with other names.
Placed(s, s0, out, opt) ==
    LET base == IF opt.mergePoint = "original"
                THEN Append(Parent(out.parent), Last(out.parent) \o "_" \o Last(opt.rootPath))
                ELSE Append(out.parent, Last(opt.rootPath))
        existing == {Root} \cup { q \in Ancestors(out.parent) : Exists(s0, q) }
    IN [path |-> FreePath(Composed(s, Parent(base)), base, "_"), root |-> World(s0, Closest(existing))]

\* Those of one parent after those of another.
Grouped(outputs) ==
    LET parents == InOrder({ outputs[k].parent : k \in DOMAIN outputs })
    IN FlattenSeq([g \in DOMAIN parents |-> SelectSeq(outputs, LAMBDA out : out.parent = parents[g])])
CreateSuperset(sofar, out, at) ==
    CreateInLayer(sofar, ComputeSupersetGeometry(out.children, at.root), at.path, None)
CreateSupersets(s, outputs, opt) ==
    FoldLeft(LAMBDA sofar, out : CreateSuperset(sofar, out, Placed(sofar, s, out, opt)),
             s, Grouped(outputs))

CreateParts(s, meshes) ==
    LET Part(sofar, mesh) ==
            LET base == Append(Parent(mesh.source), Last(mesh.source) \o "_part")
            IN CreateInLayer(sofar, mesh, FreePath(Composed(sofar, Parent(base)), base, "_"),
                             Get(s, mesh.source, "xf"))
    IN FoldLeft(Part, s, meshes)

\* The supersets of each parent in turn, the parts of a split mesh that are
\* in none beside it, and then the originals are removed.  The pivots that supersets
\* are given are left out: without rotation or scale they move nothing.
Write(s, outputs, mergeable, opt, method) ==
    LET clustered == UNION { Range(outputs[k].children) : k \in DOMAIN outputs }
        unclustered == SelectSeq(mergeable, LAMBDA mesh : ~mesh.derived /\ mesh \notin clustered)
    IN RemoveBy(CreateParts(CreateSupersets(s, outputs, opt), unclustered),
                { mesh.source : mesh \in clustered \cup Range(unclustered) }, method)

ClusterMeshes(s, lookup, meshes, opt, method) ==
    LET buckets == PreBuckets(lookup, meshes, opt)
    IN Write(s, CreateVirtualMeshBuckets(s, buckets, opt),
             Tuple([i \in DOMAIN buckets |-> buckets[i].mesh]), opt, method)

-----------------------------------------------------------------------------
(* The merge operation *)

DerivedMeshes(s, paths) == Tuple([i \in DOMAIN paths |-> DerivedMesh(s, paths[i])])
MergeFound(s, lookup, opt, method) ==
    ClusterMeshes(s, lookup, DerivedMeshes(s, Reverse(InOrder(DOMAIN lookup))), opt, method)
Merge(paths, opt, method) ==
    stage' = MergeFound(stage, DiscoverMergeBoundaries(stage, paths, opt.mergePoint), opt, method)
=============================================================================
