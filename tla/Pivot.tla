------------------------------- MODULE Pivot -------------------------------
(***************************************************************************)
(* Pivot, which rewrites the transform of meshes, and maybe of Xforms, so  *)
(* that it turns about the centre of the geometry, and the computing of    *)
(* extents, which it ends with.                                            *)
(***************************************************************************)
EXTENDS Attributes

Points == <<"points">>
Extent == <<"extent">>
Translate == XformOp("translate", "")
TranslatePivot == XformOp("translate", "pivot")

-----------------------------------------------------------------------------
(* _computeExtents: a box of the points at each of their times *)

BoxOf(points) ==
    << [j \in 1..3 |-> Min({ points[i][j] : i \in DOMAIN points })],
       [j \in 1..3 |-> Max({ points[i][j] : i \in DOMAIN points })] >>
BoxAt(prim, t) == LET v == Get(prim, Points, t) IN IF v \in {None, << >>} THEN None ELSE BoxOf(v)
\* Of points with widths, the times of both count.
ExtentTimes(prim) ==
    TimesOf(prim, {Points} \cup IF prim.type = "Points" THEN {<<"widths">>} ELSE {})
ComputedExtent(prim) ==
    LET times == ExtentTimes(prim)
        bounded == { t \in times : BoxAt(prim, t) # None }
    IN [type |-> "float3[]", default |-> IF times = {} THEN BoxAt(prim, None) ELSE None,
        samples |-> [t \in bounded |-> BoxAt(prim, t)]]
HasExtents(prim) == prim.type \in {"Mesh", "Points"}
WithExtent(prim) == IF HasExtents(prim) THEN SetAttr(prim, Extent, ComputedExtent(prim)) ELSE prim
WithExtents(prims, P) ==
    [p \in DOMAIN prims |-> IF p \in P THEN WithExtent(prims[p]) ELSE prims[p]]
ComputeExtents == stage' = [stage EXCEPT !.prims = WithExtents(@, Resolved(stage))]
\* _findPrimsMissingExtents.
MissingExtents(s) ==
    { p \in Resolved(s) : HasExtents(s.prims[p]) /\ ~HasAuthoredValue(s.prims[p], Extent) }

-----------------------------------------------------------------------------
(* The centre of a prim, or None *)

_computeCentroid(points) ==
    LET sum == FoldLeft(LAMBDA c, q : Plus(c, Minus(q, points[1])), Zero, points)
    IN Plus(Over(sum, 1, Len(points)), points[1])
Midpoint(box) == Over(Plus(box[1], box[2]), 1, 2)

\* The transform from a prim to one above it.
RelativeTransform(s, p, ancestor) ==
    FoldLeft(LAMBDA m, i : Below(m, s.prims[SubSeq(p, 1, i)], None), Identity,
             [k \in 1..(Len(p) - Len(ancestor)) |-> Len(ancestor) + k])
MeshesBelow(s, p) ==
    { q \in Resolved(s) : IsStrictPrefix(p, q) /\ s.prims[q].type = "Mesh" }
\* What a mesh counts for: weighted, its points, and otherwise its bounds, for
\* which the cache goes by the extent that is authored, whatever the points
\* have become since, and by the points if there is none.
Shape(prim, method) ==
    Get(prim, IF method = "weighted" \/ Get(prim, Extent, None) = None THEN Points ELSE Extent, None)
ShapeBelow(s, p, q, method) ==
    LET m == RelativeTransform(s, q, p)
        v == Shape(s.prims[q], method)
    IN [i \in DOMAIN v |-> TransformPoint(v[i], m)]
WithShape(s, P, method) ==
    SetToSeq({ q \in P : Shape(s.prims[q], method) \notin {None, << >>} })
\* Weighted, a mesh counts for its centroid; otherwise their boxes are
\* combined, which quarter turns keep along the axes.
CentreOf(shapes, method) ==
    IF method = "weighted"
    THEN _computeCentroid([i \in DOMAIN shapes |-> _computeCentroid(shapes[i])])
    ELSE Midpoint(BoxOf(FlattenSeq(shapes)))
\* The box of no meshes below a prim is about the origin.
Centre(s, p, method) ==
    LET isMesh == s.prims[p].type = "Mesh"
        meshes == WithShape(s, IF isMesh THEN {p} ELSE MeshesBelow(s, p), method)
    IN IF meshes # << >>
       THEN CentreOf([i \in DOMAIN meshes |-> ShapeBelow(s, p, meshes[i], method)], method)
       ELSE IF isMesh \/ method = "weighted" \/ MeshesBelow(s, p) = {} THEN None ELSE Zero

-----------------------------------------------------------------------------
(* The new transform *)

_containsOrderedXformOpsSuffix(prim, suffix) ==
    \E i \in DOMAIN prim.order : prim.order[i].op[3] = suffix
\* More than one sample makes a value vary.
_mightBeTimeVarying(prim) ==
    \E n \in DOMAIN prim.attrs : Cardinality(DOMAIN prim.attrs[n].samples) > 1

\* UsdGeomXformCommonAPI::GetXformVectorsByAccumulation: the parts of the
\* local matrix, with the pivot and the order of the angles when the ops are
\* those of the interface, in its order.
Place(e) ==
    IF IsTranslate(e.op) /\ ~e.inverted THEN IF e.op[3] = "" THEN 1 ELSE 2
    ELSE IF IsRotate(e.op) THEN 3 ELSE IF IsScale(e.op) THEN 4 ELSE IF IsTranslate(e.op) THEN 5 ELSE 0
InOrder(places) == \A i, j \in DOMAIN places : i < j => places[i] < places[j]
Common(order) ==
    LET places == [i \in DOMAIN order |-> Place(order[i])]
    IN /\ InOrder(places) /\ 0 \notin Range(places) /\ 2 \in Range(places) <=> 5 \in Range(places)
       /\ \A e \in Range(order) : e.op[3] \in {"", "pivot"}
PivotOf(prim) ==
    LET v == Get(prim, TranslatePivot, None)
    IN IF Common(prim.order) /\ Entry(TranslatePivot) \in Range(prim.order) /\ v # None
        THEN v[1] ELSE Zero
RotationOrder(prim) ==
    LET turns == { e.op[2] : e \in Range(prim.order) } \cap DOMAIN AxisOrders
    IN IF Common(prim.order) /\ turns # {} THEN CHOOSE kind \in turns : TRUE ELSE "rotateXYZ"
Lengths3(m) == [i \in 1..3 |-> Max({ m[i][j] : j \in 1..3 } \cup { 0 - m[i][j] : j \in 1..3 })]
Unscaled(m) == [i \in 1..3 |-> [j \in 1..3 |-> (Unit * m[i][j]) \div Lengths3(m)[i]]]
Moved(m, p) == Minus(TransformPoint(p, m), p)
XformVectors(kind, m, pivot) ==
    [translation |-> Plus(m[4], Moved(Append(SubSeq(m, 1, 3), Zero), pivot)),
     rotation |-> Decomposed[kind][Unscaled(m)], scale |-> Lengths3(m)]

\* Mutant: the pivot is written, and the translation left as it was.
M_ReadTranslation(prim, read, m, pivot, centre) == read
\* A pivot that is there already is taken out first.
CorrectedTranslation(prim, read, m, pivot, centre) ==
    LET translation ==
            IF _containsOrderedXformOpsSuffix(prim, "pivot")
            THEN Over(Plus(Plus(read, TransformPoint(Minus(Zero, pivot), m)), pivot), 1, 2) ELSE read
    IN Minus(Minus(Over(translation, 2, 1), TransformPoint(Minus(Zero, centre), m)), centre)

Written(prim, name, row) ==
    SetAttr(prim, name, IF Has(prim, name) THEN [prim.attrs[name] EXCEPT !.default = <<row>>]
                        ELSE Attr("double3", <<row>>))
WithPivot(prim, kind, m, pivot, centre) ==
    LET vectors == XformVectors(kind, m, pivot)
        rotate == XformOp(kind, "")
        translation == CorrectedTranslation(prim, vectors.translation, m, pivot, centre)
        moved == Written(Written(prim, Translate, translation), TranslatePivot, centre)
    IN [Written(Written(moved, rotate, vectors.rotation), XformOp("scale", ""), vectors.scale) EXCEPT
          !.order = <<Entry(Translate), Entry(TranslatePivot), Entry(rotate),
                      Entry(XformOp("scale", "")), [op |-> TranslatePivot, inverted |-> TRUE]>>]

Pivotable(s, p, overwrite, applyTo) ==
    /\ s.prims[p].type = "Mesh" \/ (applyTo = "meshesAndXforms" /\ s.prims[p].type = "Xform")
    /\ overwrite \/ ~_containsOrderedXformOpsSuffix(s.prims[p], "pivot")
    /\ ~_mightBeTimeVarying(s.prims[p])
PivotedPrim(s, p, overwrite, applyTo, method) ==
    LET centre == Centre(s, p, method)
    IN IF Pivotable(s, p, overwrite, applyTo) /\ centre # None
       THEN WithPivot(s.prims[p], RotationOrder(s.prims[p]), LocalTransformation(s.prims[p], None),
                      PivotOf(s.prims[p]), centre)
       ELSE s.prims[p]
\* All of them are read before one is written, then the extents of meshes.
PivotPrims(overwrite, applyTo, method) ==
    LET resolved == Resolved(stage)
        pivoted == [p \in DOMAIN stage.prims |->
                      IF p \in resolved THEN PivotedPrim(stage, p, overwrite, applyTo, method)
                      ELSE stage.prims[p]]
    IN stage' = [stage EXCEPT !.prims =
                   WithExtents(pivoted, { p \in resolved : applyTo = "meshesAndXforms"
                                         \/ stage.prims[p].type = "Mesh" })]
=============================================================================
