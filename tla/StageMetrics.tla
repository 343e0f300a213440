---------------------------- MODULE StageMetrics ----------------------------
(***************************************************************************)
(* EditStageMetrics: sets the metersPerUnit and the upAxis of a stage, and *)
(* rewrites the values that are lengths or directions so that they stay    *)
(* what they were.  Every prim is read first, and its transformers are     *)
(* then applied one after another; they touch no other prim.               *)
(***************************************************************************)
EXTENDS Attributes

\* A scale is a fraction, a basis the rotation of directions into the new
\* frame, its inverse and its angle about X; both are None without a change.
Basis(quarters) ==
    [rotation |-> Rotation(1, quarters), inverse |-> Rotation(1, 0 - quarters), angle |-> quarters]
YtoZ == Basis(1)
ZtoY == Basis(-1)
Power(scale, n) ==
    IF n = 1 THEN scale ELSE [num |-> scale.den ^ (0 - n), den |-> scale.num ^ (0 - n)]

-----------------------------------------------------------------------------
(* AttributeTransformer: the values of one attribute *)

\* Lengths are scaled, of a matrix only the translation.
Matrices == {"matrix4d", "matrix4d[]"}
Scalable == Matrices \cup {"float", "float[]", "float2", "double3", "float3", "float3[]",
                           "point3f", "point3f[]", "vector3f", "vector3f[]", "normal3f[]"}
ScaledValue(type, v, scale) ==
    [i \in DOMAIN v |->
        IF type \in Scalable /\ (type \in Matrices => i % 4 = 0)
        THEN Over(v[i], scale.num, scale.den) ELSE v[i]]

\* A transformation of the frame: out of the new one, and into it again.
Conjugated(m, basis) ==
    MatrixTimes(MatrixTimes(basis.inverse, m), basis.rotation)
    \o IF Len(m) = 4 THEN <<RowTimes(m[4], basis.rotation)>> ELSE << >>
ConjugatedAll(v, n, basis) ==
    FlattenSeq([g \in 1..(Len(v) \div n) |-> Conjugated(SubSeq(v, n * (g - 1) + 1, n * g), basis)])

\* Angles about three axes: of the transformed rotation.
ChangedEuler(kind, angles, basis) ==
    Decomposed[kind][Conjugated(Composed(angles, AxisOrders[kind]), basis)]

\* A scale that is not uniform: what GfMatrix4d::Factor makes of the
\* transformed matrix, lengths with the sign of the determinant.
Sign(x) == IF x < 0 THEN -1 ELSE 1
Abs(x) == Sign(x) * x
Factored(m) ==
    LET sign == Sign(m[1][1]) * Sign(m[2][2]) * Sign(m[3][3])
    IN [i \in 1..3 |-> sign * Abs(m[i][i])]
ChangedScale(v, basis) ==
    IF v[1] = v[2] /\ v[2] = v[3] THEN v ELSE Factored(Conjugated(Scaling(v), basis))

\* The corners of a box, ordered again.
\* Mutant: the turned corners are taken for the lowest and the highest.
M_RotatedCorners(v, basis) == [i \in DOMAIN v |-> RowTimes(v[i], basis.rotation)]
Bounds(P) == << [j \in 1..3 |-> Min({ q[j] : q \in P })], [j \in 1..3 |-> Max({ q[j] : q \in P })] >>
RotatedBox(v, basis) == Bounds({ RowTimes(v[i], basis.rotation) : i \in DOMAIN v })

Vectors == {"point3f", "point3f[]", "vector3f", "vector3f[]", "normal3f[]",
            "float3", "float3[]", "double3"}
ChangedByType(type, v, basis) ==
    IF type \in Vectors THEN [i \in DOMAIN v |-> RowTimes(v[i], basis.rotation)]
    ELSE IF type \in {"quatf", "quatf[]", "matrix3d"} THEN ConjugatedAll(v, 3, basis)
    ELSE IF type \in Matrices THEN ConjugatedAll(v, 4, basis)
    ELSE v
ChangedValue(name, type, v, basis) ==
    IF IsRotate(name)
    THEN IF name[2] \in DOMAIN AxisOrders THEN <<ChangedEuler(name[2], v[1], basis)>> ELSE v
    ELSE IF IsScale(name) THEN <<ChangedScale(v[1], basis)>>
    ELSE IF IsExtent(name) THEN RotatedBox(v, basis)
    ELSE ChangedByType(type, v, basis)

TransformedValue(name, type, v, scale, basis) ==
    LET scaled == IF scale = None THEN v ELSE ScaledValue(type, v, scale)
    IN IF basis = None THEN scaled ELSE ChangedValue(name, type, scaled, basis)

\* Mutant: time samples keep the old units.
M_TransformedDefault(name, attr, scale, basis) ==
    [attr EXCEPT !.default = IF @ \in {None, Block} THEN @
                             ELSE TransformedValue(name, attr.type, @, scale, basis)]
\* Blocked values are set aside meanwhile.
Transformed(name, attr, scale, basis) ==
    LET Value(v) == IF v \in {None, Block} THEN v
                    ELSE TransformedValue(name, attr.type, v, scale, basis)
    IN [attr EXCEPT !.default = Value(@), !.samples = [t \in DOMAIN @ |-> Value(@[t])]]

-----------------------------------------------------------------------------
(* Schema attributes *)

\* The lengths among the attributes of a type, with their values where
\* nothing is authored, and the types that only their transform can turn.
F(x) == Attr("float", <<<<x>>>>)
Box(half) == Attr("float3[]", <<Minus(Zero, half), half>>)
NoExtent == Attr("float3[]", None)
NoLimit == Attr("float", None)  \* infinite, at any scale
Lengths(type) ==
    CASE type \in {"Cone", "Cylinder"} -> [height |-> F(2 * Unit), radius |-> F(Unit)]
      [] type = "Capsule" -> [height |-> F(Unit), radius |-> F(Unit \div 2)]
      [] type = "Cube" -> [size |-> F(2 * Unit)]
      [] type = "Plane" -> [width |-> F(2 * Unit), length |-> F(2 * Unit)]
      [] type = "Sphere" -> [radius |-> F(Unit)]
      [] type = "RectLight" -> [width |-> F(Unit), height |-> F(Unit)]
      [] type \in {"SphereLight", "DiskLight"} -> [radius |-> F(Unit \div 2)]
      [] type = "CylinderLight" -> [length |-> F(Unit), radius |-> F(Unit \div 2)]
      [] type = "DomeLight" -> [guideRadius |-> F(100000 * Unit)]
      [] type = "Camera" -> [clippingRange |-> Attr("float2", <<<<Unit, 1000000 * Unit>>>>)]
      [] type = "BasisCurves" -> [widths |-> Attr("float[]", None)]
      [] OTHER -> << >>
LengthNames(type) == { <<name>> : name \in DOMAIN Lengths(type) }
Turned == {"Camera", "CylinderLight", "DiskLight", "DomeLight", "RectLight",
           "DistantLight", "Capsule", "Cone",
           "Cylinder", "Plane"}
HalfExtents ==
    LET cube == <<Unit, Unit, Unit>>
    IN [Cone |-> cube, Cylinder |-> cube, Cube |-> cube, Sphere |-> cube,
        Capsule |-> <<Unit \div 2, Unit \div 2, Unit>>, Plane |-> <<Unit, Unit, 0>>]
FallbackExtent(type) ==
    IF type \in DOMAIN HalfExtents THEN Box(HalfExtents[type]) ELSE NoExtent

\* The limits of a joint about an axis.
Limited(prim, L) == { axis \in L : axis \in prim.apis }
TransAxes == {"transX", "transY", "transZ"}
LimitName(axis, end) == <<"limit", axis, end>>
Ends == {"high", "low"}

\* The schema attributes with their fallbacks: those only scaled, and those
\* whose basis changes too.
Scaled(prim) ==
    { LimitName(axis, end) : axis \in Limited(prim, TransAxes), end \in Ends }
    \cup LengthNames(prim.type)
Based(prim) ==
    (IF IsBoundable(prim) THEN {<<"extent">>} ELSE {})
    \cup (IF "GeomModelAPI" \in prim.apis THEN {<<"extentsHint">>} ELSE {})
    \cup (IF prim.type = "SkelAnimation" THEN {<<"translations">>} ELSE {})
Density == <<"density">>
\* A density that is not zero gets smaller as volumes grow.
Dense(prim) ==
    IF "MassAPI" \in prim.apis /\ Get(prim, Density, None) \notin {None, <<<<0>>>>}
        THEN {Density} ELSE {}
Fallback(prim, name) ==
    IF name = <<"extent">> THEN FallbackExtent(prim.type)
    ELSE IF name = <<"extentsHint">> THEN NoExtent
    ELSE IF name = <<"translations">> THEN Attr("float3[]", None)
    ELSE IF name \in LengthNames(prim.type) THEN Lengths(prim.type)[name[1]] ELSE NoLimit
\* Prims defined in the layer get the attributes that nobody authored.
Create(prim, names) ==
    IF prim.spec # "def" THEN prim
    ELSE [prim EXCEPT !.attrs =
            [n \in DOMAIN @ \cup names |-> IF n \in DOMAIN @ THEN @[n] ELSE Fallback(prim, n)]]
TransformAll(prim, names, scale, basis) ==
    [prim EXCEPT !.attrs =
        [n \in DOMAIN @ |-> IF n \in names THEN Transformed(n, @[n], scale, basis) ELSE @[n]]]
\* Without a change of scale, only the attributes of a basis are processed.
SchemaAttributes(prim, scale, basis) ==
    LET scaled == IF scale = None THEN {} ELSE Scaled(prim)
        created == Create(prim, scaled \cup Based(prim))
        lengths == IF scale = None THEN created
                   ELSE TransformAll(TransformAll(created, scaled, scale, None),
                                     Dense(prim), Power(scale, -3), None)
    IN TransformAll(lengths, Based(prim), scale, basis)

-----------------------------------------------------------------------------
(* The transformers of whole prims *)

\* FlipPhysicsLimitTransformer: limits of Y become those of Z.
Flipped ==
    [axis \in {"transX", "transY", "transZ", "rotX", "rotY", "rotZ", "distance",
               "MassAPI", "GeomModelAPI"} |->
        CASE axis = "transY" -> "transZ" [] axis = "transZ" -> "transY"
          [] axis = "rotY" -> "rotZ" [] axis = "rotZ" -> "rotY" [] OTHER -> axis]
FlippedName(name) == IF name[1] = "limit" THEN LimitName(Flipped[name[2]], name[3]) ELSE name
FlipLimits(prim) ==
    [prim EXCEPT !.apis = { Flipped[api] : api \in @ },
                 !.attrs = [n \in { FlippedName(m) : m \in DOMAIN @ } |-> @[FlippedName(n)]]]

\* SingleAxisRotateTransformer: a rotation about an axis becomes one about
\* the axis it is turned to, maybe the other way round.
RotatedAxis(basis, axis) == RowTimes(Axis(axis, Unit), basis.rotation)
NewAxis(basis, axis) == CHOOSE i \in 1..3 : RotatedAxis(basis, axis)[i] # 0
NewName(basis, op) ==
    XformOp(CHOOSE kind \in DOMAIN SingleAxis : SingleAxis[kind] = NewAxis(basis, SingleAxis[op[2]]),
            op[3])
TurnedAttr(basis, op, attr) ==
    LET axis == SingleAxis[op[2]]
        sign == RotatedAxis(basis, axis)[NewAxis(basis, axis)] \div Unit
        Value(v) == IF v = None THEN v ELSE <<<<sign * v[1][1]>>>>
    IN [attr EXCEPT !.default = Value(@), !.samples = [t \in DOMAIN @ |-> Value(@[t])]]
\* The ops by their names, those of inverted entries being none.
Remapped(prim) ==
    { op \in DOMAIN prim.attrs : IsXformOp(op) /\ op[2] \in DOMAIN SingleAxis
        /\ \E i \in DOMAIN prim.order : prim.order[i] = Entry(op) }
\* What is not written stays with an attribute that had the new name before.
Merged(old, new) ==
    [new EXCEPT !.default = IF @ = None THEN old.default ELSE @,
                !.samples = IF @ = << >> THEN old.samples ELSE @]
TurnSingleAxes(prim, basis) ==
    LET ops == Remapped(prim)
        names == { NewName(basis, op) : op \in ops }
        From(name) == CHOOSE op \in ops : NewName(basis, op) = name
        New(name) == TurnedAttr(basis, From(name), prim.attrs[From(name)])
        Entries(e) == IF ~e.inverted /\ e.op \in ops THEN <<Entry(NewName(basis, e.op))>>
                      ELSE IF ~e.inverted /\ e.op \in names THEN << >> ELSE <<e>>
    IN [prim EXCEPT
          !.attrs = [n \in (DOMAIN @ \ ops) \cup names |->
                       IF n \notin names THEN @[n]
                       ELSE IF Has(prim, n) THEN Merged(@[n], New(n)) ELSE New(n)],
          !.order = FlattenSeq([i \in DOMAIN @ |-> Entries(@[i])])]

\* CollapsedXformTransformer: one matrix for the ops of the order, at the
\* default and at every time that one of them has a sample.
Transform == XformOp("transform", "")
CollapsedValue(m, scale, basis, turned) ==
    LET changed == TransformedValue(Transform, "matrix4d", m, scale, basis)
    IN IF turned THEN AffineTimes(Append(basis.rotation, Zero), changed) ELSE changed
Ops(prim) == { prim.order[i].op : i \in DOMAIN prim.order }
Collapsible(prim) == Ops(prim) \cap DOMAIN prim.attrs # {}
Collapse(prim, original, scale, basis, turned) ==
    LET ops == Ops(original) \cap DOMAIN original.attrs
        Value(t) == CollapsedValue(LocalTransformation(original, t), scale, basis, turned)
        Default == IF \E op \in ops : HasDefault(original.attrs[op]) THEN Value(None)
                   ELSE IF turned THEN CollapsedValue(Identity, scale, basis, turned) ELSE None
        attr == [type |-> "matrix4d", default |-> Default,
                 samples |-> [t \in TimesOf(original, ops) |-> Value(t)]]
        bare == RemoveAttrs(prim, { n \in DOMAIN prim.attrs : IsXformOp(n) })
    IN [SetAttr(bare, Transform, attr) EXCEPT !.order = <<Entry(Transform)>>, !.reset = FALSE]

\* UpAxisCorrectionTransformer: the innermost op turns the prim.
CorrectUpAxis(prim, name, basis) ==
    [SetAttr(prim, name, Attr("float", <<<<basis.angle>>>>)) EXCEPT !.order = Append(@, Entry(name))]

\* SkeletonRootTransformer: the outermost ops scale and turn the hierarchy.
Correction == "skeletonMetricsCorrection"
CorrectSkeleton(prim, scale, basis) ==
    LET scaleOp == UniqueOp(prim, "scale", Correction)
        rotateOp == UniqueOp(prim, "rotateX", Correction)
        Value == LET x == (Unit * scale.num) \div scale.den IN <<<<x, x, x>>>>
        scaled == IF scale = None THEN prim ELSE SetAttr(prim, scaleOp, Attr("double3", Value))
        turned == IF basis = None THEN scaled
                  ELSE SetAttr(scaled, rotateOp, Attr("float", <<<<basis.angle>>>>))
    IN [turned EXCEPT !.order = (IF scale = None THEN << >> ELSE <<Entry(scaleOp)>>)
                                \o (IF basis = None THEN << >> ELSE <<Entry(rotateOp)>>) \o @]

-----------------------------------------------------------------------------
(* LayerTraversalFunctor: what is done of all that for a prim *)

\* The other attributes: translations, and those of a type that is scaled or
\* whose basis changes, unless processed before or known to be neither.
ScaledTypes == {"matrix4d", "matrix4d[]", "point3f", "point3f[]", "vector3f", "vector3f[]"}
BasedTypes == ScaledTypes \cup {"matrix3d", "quatf", "quatf[]", "normal3f[]"}
OtherAttributes(prim, original, collapsed, singles, scale, basis) ==
    LET names == { n \in DOMAIN original.attrs : ~(collapsed /\ IsXformOp(n)) }
        Scales(n) == /\ scale # None
                     /\ n \notin Scaled(original) \cup Based(original) \cup Dense(original)
                     /\ n # <<"angularVelocity">>
                     /\ IsTranslate(n) \/ original.attrs[n].type \in ScaledTypes
        Bases(n) == /\ basis # None
                    /\ n \notin Based(original) \cup singles
                    /\ n # <<"centerOfInterest">>
                    /\ IsXformOp(n) \/ original.attrs[n].type \in BasedTypes
        Other(n, attr) == Transformed(n, attr, IF Scales(n) THEN scale ELSE None,
                                               IF Bases(n) THEN basis ELSE None)
    IN [prim EXCEPT !.attrs = [n \in DOMAIN @ |-> IF n \in names THEN Other(n, @[n]) ELSE @[n]]]

HasFlippedLimits(prim) == Limited(prim, {"transY", "transZ", "rotY", "rotZ"}) # {}
ProcessPrim(prim, scale, basis, collapseXforms) ==
    LET turned == basis # None /\ prim.type \in Turned
        collapsed == basis # None /\ collapseXforms /\ IsXformable(prim) /\ Collapsible(prim)
        singles == IF basis = None \/ collapseXforms THEN {} ELSE Remapped(prim)
        schema == SchemaAttributes(prim, scale, basis)
        flipped == IF basis # None /\ HasFlippedLimits(prim) THEN FlipLimits(schema) ELSE schema
        single == IF singles = {} THEN flipped ELSE TurnSingleAxes(flipped, basis)
        corrected == IF collapsed \/ (collapseXforms /\ turned)
                     THEN Collapse(single, prim, scale, basis, turned)
                     ELSE IF turned /\ prim.spec = "def"
                          THEN CorrectUpAxis(single,
                                             UniqueOp(prim, "rotateX", "upAxisCorrection"), basis)
                          ELSE single
    IN OtherAttributes(corrected, prim, collapsed, singles, scale, basis)

\* findSkeletons: the roots, and what is below them.
Skeletons(s) == { p \in DOMAIN s.prims : s.prims[p].type = "SkelRoot" }
InSkeleton(s, p) == \E r \in Skeletons(s) : IsStrictPrefix(r, p)

Traversed(s, p, scale, basis, collapseXforms, ignoreKitCameras, stopAtSkeletonRoot) ==
    IF ignoreKitCameras /\ p \in KitCameras THEN s.prims[p]
    ELSE IF stopAtSkeletonRoot /\ InSkeleton(s, p) THEN s.prims[p]
    ELSE IF stopAtSkeletonRoot /\ p \in Skeletons(s)
         THEN IF s.prims[p].spec = "def" THEN CorrectSkeleton(s.prims[p], scale, basis) ELSE s.prims[p]
    ELSE ProcessPrim(s.prims[p], scale, basis, collapseXforms)

\* No metersPerUnit is 0, no upAxis None.
EditStageMetrics(metersPerUnit, upAxis, collapseXforms, ignoreKitCameras, stopAtSkeletonRoot) ==
    LET scale == IF metersPerUnit \in {0, stage.metersPerUnit} THEN None
                 ELSE [num |-> stage.metersPerUnit, den |-> metersPerUnit]
        basis == IF upAxis \in {None, stage.upAxis} THEN None ELSE IF upAxis = "Z" THEN YtoZ ELSE ZtoY
    IN stage' = [metersPerUnit |-> IF metersPerUnit = 0 THEN stage.metersPerUnit ELSE metersPerUnit,
                 upAxis |-> IF upAxis = None THEN stage.upAxis ELSE upAxis,
                 prims |-> IF scale = None /\ basis = None THEN stage.prims
                           ELSE [p \in DOMAIN stage.prims |->
                                    Traversed(stage, p, scale, basis, collapseXforms,
                                              ignoreKitCameras, stopAtSkeletonRoot)]]
=============================================================================
