------------------------------- MODULE Values -------------------------------
(***************************************************************************)
(* Operations that rewrite values run one after another on a stage, as a   *)
(* configuration lists them.  The stage may change its units and its axes, *)
(* but what it shows stays where it is, as large as it is.                 *)
(***************************************************************************)
EXTENDS StageMetrics, TimeSamples, Pivot

CONSTANTS
    InitialStages,  \* the stages a sequence of operations starts from
    MaxSteps        \* bound: the operations run on a stage

VARIABLES
    steps,
    last,       \* the operation run last
    shown       \* what the stage showed at first
vars == <<stage, steps, last, shown>>

\* What a layer stores: finitely many prims, below prims, with finitely many
\* attributes and samples, at times, and the limits of joints by the names of
\* their axes.
StoredAttr(attr) ==
    /\ {"type", "default", "samples"} \subseteq DOMAIN attr
    /\ IsFiniteSet(DOMAIN attr.samples) /\ DOMAIN attr.samples \subseteq Int
NamesTell(names) ==
    \A n \in names : n[1] = "limit" => n[2] \in DOMAIN Flipped /\ n = LimitName(n[2], n[3])
StoredPrim(prim) ==
    /\ {"type", "spec", "apis", "attrs", "reset", "order"} \subseteq DOMAIN prim
    /\ IsFiniteSet(DOMAIN prim.attrs) /\ NamesTell(DOMAIN prim.attrs)
    /\ \A n \in DOMAIN prim.attrs : StoredAttr(prim.attrs[n])
Rooted(P) == \A p \in P : p \in Seq(STRING) /\ \A i \in 1..Len(p) : SubSeq(p, 1, i) \in P
Stored(s) ==
    /\ {"metersPerUnit", "upAxis", "prims"} \subseteq DOMAIN s
    /\ IsFiniteSet(DOMAIN s.prims) /\ Rooted(DOMAIN s.prims)
    /\ \A p \in DOMAIN s.prims : StoredPrim(s.prims[p])

ASSUME InitialStagesAssumption == \A s \in InitialStages : Stored(s)

-----------------------------------------------------------------------------
(* What a stage shows, in metres and with Y up *)

\* A length that nobody authored is the one the schema tells.
Length(prim, name, t) ==
    IF Get(prim, <<name>>, t) # None THEN Get(prim, <<name>>, t)[1][1]
    ELSE IF Has(prim, <<name>>) THEN 0 ELSE Lengths(prim.type)[name].default[1][1]
Around(x) == { Axis(i, y) : i \in 1..3, y \in {x, 0 - x} }
Rows(prim, name, t) == LET v == Get(prim, <<name>>, t) IN IF v = None THEN {} ELSE Range(v)
LocalPoints(prim, t) ==
    CASE prim.type \in {"Mesh", "Points"} -> Rows(prim, "points", t)
      [] prim.type = "BasisCurves" -> Rows(prim, "points", t)
          \cup UNION { Around(w[1]) : w \in Rows(prim, "widths", t) }
      [] prim.type = "PointInstancer" -> Rows(prim, "positions", t)
      [] prim.type = "SkelAnimation" -> Rows(prim, "translations", t)
      [] prim.type = "Cube" -> Around(Length(prim, "size", t))
      [] prim.type \in {"Sphere", "SphereLight"} -> Around(Length(prim, "radius", t))
      [] prim.type \in {"Cone", "Cylinder", "Capsule"} ->
            {Axis(3, Length(prim, "height", t)), Axis(1, Length(prim, "radius", t))}
      [] prim.type = "RectLight" -> {Axis(1, Length(prim, "width", t)),
                                     Axis(2, Length(prim, "height", t))}
      [] prim.type = "Camera" ->
            { Axis(3, 0 - x) : x \in Range((Get(prim, <<"clippingRange">>, t))[1]) }
            \cup Rows(prim, "centerOfInterest", t)
      [] OTHER -> {Zero}

\* Into the frame with Y up.
Upright(s) == IF s.upAxis = "Z" THEN Rotation(1, -1) ELSE Linear1
Metres(s, v) == Over(RowTimes(v, Upright(s)), s.metersPerUnit, 1)
Places(s, p, m, t) == { Metres(s, TransformPoint(v, m)) : v \in LocalPoints(s.prims[p], t) }
\* Directions: without the place, and those that are no lengths as they are.
Directions(s, p, m, t) ==
    LET linear == SubSeq(m, 1, 3)
    IN <<{ RowTimes(RowTimes(v, linear), Upright(s)) : v \in Rows(s.prims[p], "normals", t) },
         { Metres(s, RowTimes(v, linear)) : v \in Rows(s.prims[p], "velocities", t) },
         { Metres(s, v) : v \in Rows(s.prims[p], "velocity", t) },
         { RowTimes(v, Upright(s)) : v \in Rows(s.prims[p], "angularVelocity", t) }>>
\* How an instance is turned: from the upright frame and into it again.
Turns(s, p, m, t) ==
    LET v == Get(s.prims[p], <<"orientations">>, t)
        Turn(q) == MatrixTimes(MatrixTimes(MatrixTimes(Transposed(Upright(s)), q), SubSeq(m, 1, 3)),
                               Upright(s))
    IN IF v = None THEN {} ELSE { Turn(SubSeq(v, 3 * i - 2, 3 * i)) : i \in 1..(Len(v) \div 3) }
\* The range that a joint leaves about an axis, the axes told as upright.
Upward(s, axis) ==
    IF s.upAxis = "Y" THEN axis ELSE Flipped[axis]
LimitAt(s, prim, axis, t) ==
    [e \in Ends |-> LET v == Get(prim, LimitName(axis, e), t)
                    IN IF v = None THEN None
                        ELSE v[1][1] * (IF axis \in TransAxes THEN s.metersPerUnit ELSE 1)]
Limits(s, prim, t) ==
    { <<Upward(s, axis), LimitAt(s, prim, axis, t)>> :
        axis \in Limited(prim, TransAxes \cup {"rotX", "rotY", "rotZ"}) }
Mass(prim, t) ==
    IF "MassAPI" \notin prim.apis \/ Get(prim, Density, t) = None THEN 0
    ELSE Get(prim, Density, t)[1][1] * Length(prim, "size", t) ^ 3

ShownPrim(s, p, m, t) ==
    <<Places(s, p, m, t), Directions(s, p, m, t), Turns(s, p, m, t),
      Limits(s, s.prims[p], t), Mass(s.prims[p], t)>>
Drawn(s) == { p \in DOMAIN s.prims : s.prims[p].spec = "def" /\ p \notin KitCameras }
Shown(s) == [p \in Drawn(s) |-> [t \in Times |-> ShownPrim(s, p, World(s, p, t), t)]]

-----------------------------------------------------------------------------
Init == stage \in InitialStages /\ steps = 0 /\ last = "none" /\ shown = Shown(stage)
Step(operation) ==
    /\ steps < MaxSteps
    /\ steps' = steps + 1 /\ last' = operation /\ UNCHANGED shown

\* Collapsing forgets that a prim resets the transform stack.  A rotation about one axis that
\* is blocked is read as a number, unchecked, when it is turned to another axis.
Unblocked(attr) == attr.default # Block /\ \A t \in DOMAIN attr.samples : attr.samples[t] # Block
ChangeUnits ==
    /\ Step("editStageMetrics")
    /\ \A p \in DOMAIN stage.prims : \A op \in Remapped(stage.prims[p]) : Unblocked(stage.prims[p].attrs[op])
    /\ \E metersPerUnit \in 0..2, upAxis \in {None, "Y", "Z"}, collapse,
        ignoreKitCameras, stop \in BOOLEAN :
          /\ collapse => \A p \in DOMAIN stage.prims : ~stage.prims[p].reset
          /\ EditStageMetrics(metersPerUnit, upAxis, collapse, ignoreKitCameras, stop)
\* A type that USD interpolates although the operation takes it for held, as
\* those with a role, has no value that is held before it changes: of two
\* equal samples the second would go, and the change begin at the first.
HoldsStay(attr) ==
    isHeldType(attr.type) /\ Interpolated(attr.type)
        => \A u \in filterTimeSamples(attr, FALSE), v \in DOMAIN attr.samples :
              v > u => attr.samples[v] = attr.samples[u]
Removable(attr) == HoldsStay(attr) /\ Readable(attr)
AllRemovable ==
    \A p \in Resolved(stage) : \A n \in DOMAIN stage.prims[p].attrs : Removable(stage.prims[p].attrs[n])
RemoveDuplicates == Step("duplicates") /\ AllRemovable /\ OptimizeTimeSamples(FALSE)
RemoveInterpolated == Step("interpolated") /\ AllRemovable /\ OptimizeTimeSamples(TRUE)
\* The default that a pivot writes is hidden by a sample, if there is one.
CentrePivots ==
    /\ Step("pivot")
    /\ \A p \in DOMAIN stage.prims : \A n \in DOMAIN stage.prims[p].attrs :
          Cardinality(DOMAIN stage.prims[p].attrs[n].samples) # 1
    /\ \E overwrite \in BOOLEAN, applyTo \in {"meshes", "meshesAndXforms"},
        method \in {"weighted", "center"} :
          PivotPrims(overwrite, applyTo, method)
BoundMeshes == Step("computeExtents") /\ ComputeExtents
Next == ChangeUnits \/ RemoveDuplicates \/ RemoveInterpolated \/ CentrePivots \/ BoundMeshes
Spec == Init /\ [][Next]_vars

-----------------------------------------------------------------------------
\* Whatever units and axes a stage has, and however its values are written,
\* every point, size, direction, limit and mass is where and what it was at
\* every time: each value is rewritten once, and by what its kind calls for.
ShownKept == Shown(stage) = shown

\* The extent of a mesh bounds its points at every time, whichever of both
\* was rewritten, and none is missing once extents have been computed.
InBox(box, v) == \A j \in 1..3 : box[1][j] <= v[j] /\ v[j] <= box[2][j]
Bounded(prim, t) ==
    Get(prim, Extent, t) # None => \A v \in Rows(prim, "points", t) : InBox(Get(prim, Extent, t), v)
ExtentsBound ==
    /\ \A p \in DOMAIN stage.prims : \A t \in Times :
          HasExtents(stage.prims[p]) => Bounded(stage.prims[p], t)
    /\ last = "computeExtents"
          => \A p \in MissingExtents(stage) : ~HasAuthoredValue(stage.prims[p], Points)

\* Once samples have been removed, there is none after the first that the
\* others tell, and a value that no longer changes has no samples.
Missing(attr, t) == [attr EXCEPT !.samples = [u \in DOMAIN @ \ {t} |-> @[u]]]
Needed(attr, t) == ValueAt(Missing(attr, t), t) # ValueAt(attr, t)
SamplesNeeded ==
    \A p \in Resolved(stage) : \A n \in DOMAIN stage.prims[p].attrs :
        LET attr == stage.prims[p].attrs[n]
        IN /\ last = "interpolated" /\ attr.type \in LinearTypes \ QuatTypes
              => \A t \in DOMAIN attr.samples : Needed(attr, t) \/ t = Min(DOMAIN attr.samples)
           /\ last \in {"duplicates", "interpolated"} => Cardinality(DOMAIN attr.samples) # 1

\* As many samples go as an analysis of the stage tells.
SamplesOf(prim) == SumFunction([n \in DOMAIN prim.attrs |-> Cardinality(DOMAIN prim.attrs[n].samples)])
Samples(s) == SumFunction([p \in DOMAIN s.prims |-> SamplesOf(s.prims[p])])
AnalysisTells ==
    [][/\ last' = "duplicates" => Samples(stage) - Samples(stage') = Analysis(stage, FALSE)
       /\ last' = "interpolated" => Samples(stage) - Samples(stage') = Analysis(stage, TRUE)]_vars
=============================================================================
