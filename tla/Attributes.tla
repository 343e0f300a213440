----------------------------- MODULE Attributes -----------------------------
(***************************************************************************)
(* The attributes of a stage of one layer, as far as the operations that   *)
(* rewrite their values tell stages apart: prims by path with their type,  *)
(* applied schemas, transform order and attributes, each with a type, a    *)
(* default and time samples.  The stage belongs to the USD library, so     *)
(* what is said here of value resolution and of transforms is how src/     *)
(* relies on it.  A value is a sequence of rows: a number is one row of    *)
(* one, a vector one row of three, an array has a row per element, a       *)
(* quaternion is the three rows of its rotation, a matrix has a fourth row *)
(* for its translation (points are row vectors, p * M).  Numbers are       *)
(* counted in 1 / Unit, angles in quarter turns, and halves, floats and    *)
(* doubles are not told apart.                                             *)
(***************************************************************************)
EXTENDS Integers, Sequences, FiniteSets, SequencesExt

CONSTANTS
    None,       \* no value
    Block,      \* a blocked value
    Unit,       \* bound: the precision of numbers
    Times       \* bound: the times a stage is looked at

ASSUME AttributesAssumption ==
    /\ Unit \in Nat \ {0} /\ Times \subseteq Int
    /\ None # Block /\ {None, Block} \cap (Int \cup Seq(Seq(Int))) = {}

VARIABLE stage

-----------------------------------------------------------------------------
(* Rows and matrices *)

Product(a, b) == (a * b) \div Unit
Plus(u, v) == [i \in DOMAIN u |-> u[i] + v[i]]
Minus(u, v) == [i \in DOMAIN u |-> u[i] - v[i]]
Over(u, num, den) == [i \in DOMAIN u |-> (u[i] * num) \div den]
RowTimes(v, m) ==
    <<Product(v[1], m[1][1]) + Product(v[2], m[2][1]) + Product(v[3], m[3][1]),
      Product(v[1], m[1][2]) + Product(v[2], m[2][2]) + Product(v[3], m[3][2]),
      Product(v[1], m[1][3]) + Product(v[2], m[2][3]) + Product(v[3], m[3][3])>>
TransformPoint(p, m) == Plus(RowTimes(p, m), m[4])
MatrixTimes(a, b) == <<RowTimes(a[1], b), RowTimes(a[2], b), RowTimes(a[3], b)>>
AffineTimes(a, b) ==
    <<RowTimes(a[1], b), RowTimes(a[2], b), RowTimes(a[3], b), TransformPoint(a[4], b)>>

Zero == <<0, 0, 0>>
Axis(i, x) == [j \in 1..3 |-> IF i = j THEN x ELSE 0]
Scaling(v) == <<Axis(1, v[1]), Axis(2, v[2]), Axis(3, v[3])>>
Linear1 == Scaling(<<Unit, Unit, Unit>>)
Identity == Append(Linear1, Zero)

\* The rotation about an axis by some quarter turns.
Cosine(q) == <<Unit, 0, 0 - Unit, 0>>[(q % 4) + 1]
Sine(q) == <<0, Unit, 0, 0 - Unit>>[(q % 4) + 1]
Rotation(axis, q) ==
    LET next == (axis % 3) + 1
        last == (next % 3) + 1
    IN [i \in 1..3 |-> IF i = axis THEN Axis(axis, Unit)
                       ELSE IF i = next THEN Plus(Axis(next, Cosine(q)), Axis(last, Sine(q)))
                       ELSE Plus(Axis(next, 0 - Sine(q)), Axis(last, Cosine(q)))]

\* The orders of rotations about three axes that a transform op may have.
AxisOrders == [rotateXYZ |-> <<1, 2, 3>>, rotateXZY |-> <<1, 3, 2>>, rotateYXZ |-> <<2, 1, 3>>,
               rotateYZX |-> <<2, 3, 1>>, rotateZXY |-> <<3, 1, 2>>, rotateZYX |-> <<3, 2, 1>>]
SingleAxis == [rotateX |-> 1, rotateY |-> 2, rotateZ |-> 3]
Composed(angles, order) ==
    MatrixTimes(MatrixTimes(Rotation(order[1], angles[order[1]]), Rotation(order[2], angles[order[2]])),
                Rotation(order[3], angles[order[3]]))
Angles == (0..3) \X (0..3) \X (0..3)
Rotations == { Composed(a, <<1, 2, 3>>) : a \in Angles }
\* GfRotation::Decompose: some angles of the rotation, for every order.
Decomposed ==
    [op \in DOMAIN AxisOrders |->
        [m \in Rotations |-> CHOOSE a \in Angles : Composed(a, AxisOrders[op]) = m]]

-----------------------------------------------------------------------------
(* Prims and their attributes *)

Attr(type, default) == [type |-> type, default |-> default, samples |-> << >>]
Sampled(type, samples) == [type |-> type, default |-> None, samples |-> samples]
XformOp(kind, suffix) == <<"xformOp", kind, suffix>>
IsXformOp(name) == name[1] = "xformOp"
IsTranslate(name) == IsXformOp(name) /\ name[2] = "translate"
IsScale(name) == IsXformOp(name) /\ name[2] = "scale"
IsRotate(name) == IsXformOp(name) /\ name[2] \in DOMAIN AxisOrders \cup DOMAIN SingleAxis
IsExtent(name) == name \in {<<"extent">>, <<"extentsHint">>}
Entry(name) == [op |-> name, inverted |-> FALSE]

Types ==
    [geometry |-> {"Mesh", "Points", "BasisCurves", "Cone", "Cylinder", "Capsule", "Plane", "Cube",
                   "Sphere", "PointInstancer", "SkelRoot"},
     area |-> {"RectLight", "SphereLight", "DiskLight", "CylinderLight"},
     light |-> {"DomeLight", "DistantLight"},
     other |-> {"Xform", "Camera"}]
IsLight(prim) == prim.type \in Types.area \cup Types.light
IsBoundable(prim) == prim.type \in Types.geometry \cup Types.area
IsXformable(prim) == IsBoundable(prim) \/ prim.type \in Types.light \cup Types.other

Has(prim, name) == name \in DOMAIN prim.attrs
SetAttr(prim, name, attr) ==
    [prim EXCEPT !.attrs = [n \in DOMAIN @ \cup {name} |-> IF n = name THEN attr ELSE @[n]]]
RemoveAttrs(prim, names) == [prim EXCEPT !.attrs = [n \in DOMAIN @ \ names |-> @[n]]]
\* A block is a default of the layer, but no value.
HasDefault(attr) == attr.default # None
HasAuthoredValue(prim, name) ==
    Has(prim, name) /\ (prim.attrs[name].default \notin {None, Block}
                          \/ DOMAIN prim.attrs[name].samples # {})

\* A name for an op that the prim has no attribute of.
UniqueOp(prim, kind, suffix) ==
    LET Numbered(k) == XformOp(kind, IF k = 0 THEN suffix ELSE suffix \o ToString(k))
    IN Numbered(CHOOSE k \in 0..Cardinality(DOMAIN prim.attrs) :
          ~Has(prim, Numbered(k)) /\ \A j \in 0..(k - 1) : Has(prim, Numbered(j)))

\* _resolveExpressionsToPrims without paths: the prims defined, but no camera,
\* light or prim of the application, nor what is below one.
Ancestry(s, p) == [i \in 1..Len(p) |-> s.prims[SubSeq(p, 1, i)]]
KitCameras == {<<"OmniverseKit_Persp">>, <<"OmniverseKit_Front">>,
               <<"OmniverseKit_Top">>, <<"OmniverseKit_Right">>}
Passed(prim) == prim.spec = "def" /\ prim.type # "Camera" /\ ~IsLight(prim)
Resolved(s) ==
    { p \in DOMAIN s.prims : SubSeq(p, 1, 1) \notin KitCameras
        /\ \A i \in DOMAIN p : Passed(s.prims[SubSeq(p, 1, i)]) }

-----------------------------------------------------------------------------
(* Value resolution: time samples before the default, interpolated when    *)
(* the values of the type can be.  No time asks for the default.           *)

Interpolated(type) == type \notin {"int", "int[]", "token"}
Between(a, b, num, den) == [i \in DOMAIN a |-> Plus(a[i], Over(Minus(b[i], a[i]), num, den))]
Within(samples, type, lo, hi, t) ==
    IF samples[lo] = Block THEN None
    ELSE IF Interpolated(type) /\ samples[hi] # Block /\ lo # hi
         THEN Between(samples[lo], samples[hi], t - lo, hi - lo) ELSE samples[lo]
ValueAt(attr, t) ==
    IF t = None \/ attr.samples = << >>
    THEN IF attr.default = Block THEN None ELSE attr.default
    ELSE LET before == { u \in DOMAIN attr.samples : u <= t }
             after == { u \in DOMAIN attr.samples : u >= t }
             lo == IF before = {} THEN Min(after) ELSE Max(before)
         IN Within(attr.samples, attr.type, lo, IF after = {} THEN lo ELSE Min(after), t)
Get(prim, name, t) == IF Has(prim, name) THEN ValueAt(prim.attrs[name], t) ELSE None
TimesOf(prim, names) == UNION { DOMAIN prim.attrs[n].samples : n \in names \cap DOMAIN prim.attrs }

-----------------------------------------------------------------------------
(* Transforms *)

OpMatrix(kind, v) ==
    IF kind = "translate" THEN Append(Linear1, v[1])
    ELSE IF kind = "scale" THEN Append(Scaling(v[1]), Zero)
    ELSE IF kind \in DOMAIN SingleAxis THEN Append(Rotation(SingleAxis[kind], v[1][1]), Zero)
    ELSE IF kind \in DOMAIN AxisOrders THEN Append(Composed(v[1], AxisOrders[kind]), Zero)
    ELSE IF kind = "orient" THEN Append(v, Zero)
    ELSE v
Transposed(m) == [i \in 1..3 |-> [j \in 1..3 |-> m[j][i]]]
\* The inverse of an op that moves or turns.
Inverted(m) == LET t == Transposed(m) IN Append(t, RowTimes(Minus(Zero, m[4]), t))
EntryMatrix(prim, e, t) ==
    LET v == Get(prim, e.op, t)
    IN IF v = None THEN Identity
       ELSE IF e.inverted THEN Inverted(OpMatrix(e.op[2], v)) ELSE OpMatrix(e.op[2], v)
\* The first op of the order is the outermost.
LocalTransformation(prim, t) ==
    IF IsXformable(prim)
    THEN FoldLeft(LAMBDA m, e : AffineTimes(EntryMatrix(prim, e, t), m), Identity, prim.order)
    ELSE Identity
Below(m, prim, t) ==
    AffineTimes(LocalTransformation(prim, t), IF prim.reset THEN Identity ELSE m)
World(s, p, t) == FoldLeft(LAMBDA m, prim : Below(m, prim, t), Identity, Ancestry(s, p))
=============================================================================
