------------------------------ MODULE MCValues ------------------------------
(* Small stages, each with the cases of some of the operations. *)
EXTENDS Values

u == Unit
V(x, y, z) == <<u * x, u * y, u * z>>
Prim(type, attrs, order) ==
    [type |-> type, spec |-> "def", apis |-> {}, attrs |-> attrs, reset |-> FALSE,
     order |-> [i \in DOMAIN order |-> Entry(order[i])]]
Layer(metersPerUnit, upAxis, prims) ==
    [metersPerUnit |-> metersPerUnit, upAxis |-> upAxis, prims |-> prims]
translate == XformOp("translate", "")
rotateX == XformOp("rotateX", "")
rotateY == XformOp("rotateY", "")
rotateZ == XformOp("rotateZ", "tilt")
rotateXYZ == XformOp("rotateXYZ", "")
rotateZYX == XformOp("rotateZYX", "")
scale == XformOp("scale", "")
orient == XformOp("orient", "")
transform == XformOp("transform", "")
pivot == XformOp("translate", "pivot")
At(x, y, z) == Attr("double3", <<V(x, y, z)>>)
Angle(q) == Attr("float", <<<<q>>>>)
PointsAt(v) == <<"points">> :> Attr("point3f[]", v)
Moving(t0, a, t1, b, t2, c) == Sampled("double3", (t0 :> <<a>>) @@ (t1 :> <<b>>) @@ (t2 :> <<c>>))

\* Every kind of transform op, a pivot, an extent, lengths nobody authored.
Transforms == Layer(1, "Y",
    (<<"W">> :> Prim("Xform", (translate :> At(2, 4, 6)) @@ (rotateY :> Angle(1))
                     @@ (rotateZ :> Angle(3)),
                     <<translate, rotateY, rotateZ>>))
    @@ (<<"W", "M">> :>
          [Prim("Mesh", (translate :> At(0, 2, 0)) @@ (pivot :> At(4, 2, 0))
                        @@ (rotateZYX :> Attr("float3", <<<<1, 0, 3>>>>))
                            @@ (scale :> Attr("float3", <<V(1, 3, 2)>>))
                        @@ (<<"extent">> :> Attr("float3[]", <<V(-2, 0, 2), V(2, 4, 4)>>))
                        @@ (<<"normals">> :> Attr("normal3f[]", <<V(0, 1, 0), V(0, 0, 1)>>))
                        @@ PointsAt(<<V(-2, 4, 2), V(2, 0, 4)>>),
                <<translate, pivot, rotateZYX, scale>>)
            EXCEPT !.order = Append(@, [op |-> pivot, inverted |-> TRUE])])
    @@ (<<"W", "X">> :> Prim("Xform", (orient :> Attr("quatf", Composed(<<1, 1, 0>>, <<1, 2, 3>>)))
                             @@ (scale :> At(2, 2, 2)), <<orient, scale>>))
    @@ (<<"W", "X", "C">> :> Prim("Cone", (rotateX :> Angle(1)), <<rotateX>>))
    @@ (<<"W", "X", "K">> :> [Prim("Cube", <<"density">> :> Attr("float", <<<<8 * u>>>>),
                                   << >>) EXCEPT !.apis = {"MassAPI", "GeomModelAPI"}]))

\* Animations: with samples that the others tell, held values, blocks.
Animated == Layer(2, "Z",
    (<<"W">> :> Prim("Xform", (translate :> Moving(0, V(0, 0, 0), 1, V(2, 2, 0), 2, V(4, 4, 0)))
                              @@ (transform :> Attr("matrix4d", Append(Rotation(3, 1), V(2, 0, 4)))),
                     <<translate, transform>>))
    @@ (<<"W", "M">> :>
          Prim("Mesh", (translate :> Moving(0, V(2, 0, 0), 1, V(2, 0, 0), 3, V(2, 0, 0)))
                       @@ (<<"points">> :> Sampled("point3f[]", (0 :> <<V(0, 0, 0), V(2, 4, 2)>>)
                                                   @@ (2 :> <<V(2, 0, 0), V(4, 4, 2)>>)
                                                   @@ (3 :> <<V(2, 0, 0), V(4, 4, 2)>>)))
                       @@ (<<"extent">> :> Sampled("float3[]", (0 :> <<V(0, 0, 0), V(2, 4, 2)>>)
                                                   @@ (1 :> <<V(1, 0, 0), V(3, 4, 2)>>)
                                                              @@ (2 :> <<V(2, 0, 0), V(4, 4, 2)>>)))
                       @@ (<<"visibility">> :> Sampled("token", (0 :> <<<<0>>>>)
                                                       @@ (1 :> <<<<0>>>>) @@ (2 :> <<<<1>>>>)))
                       @@ (<<"holeIndices">> :> Sampled("int[]", (0 :> Block) @@ (1 :> Block)
                                                        @@ (2 :> <<<<1>>, <<2>>>>) @@ (3 :> Block)))
                       @@ (<<"cornerIndices">> :> Sampled("int[]", (1 :> Block) @@ (3 :> Block)))
                       @@ (<<"creaseIndices">> :> Sampled("int[]", (2 :> Block))),
               <<translate>>))
    @@ (<<"W", "N">> :>
          Prim("Mesh", (translate :> Moving(0, V(0, 2, 0), 1, V(0, 4, 0), 3, V(0, 6, 0)))
               @@ PointsAt(<<V(0, 0, 2), V(2, 0, 2)>>),
               <<translate>>))
    @@ (<<"W", "O">> :>
          Prim("Mesh", (rotateX :> Sampled("float", (1 :> <<<<1>>>>)))
               @@ PointsAt(<<V(0, 0, 2), V(2, 0, 2)>>), <<rotateX>>))
    @@ (<<"W", "V">> :>
          Prim("Camera",
               (translate :> [Moving(0, V(2, 0, 0), 1, V(2, 2, 0), 2, V(2, 4, 0))
                                EXCEPT !.samples = (3 :> Block) @@ @])
                         @@ (scale :> Attr("double3", Block))
                         @@ (<<"clippingRange">> :> Attr("float2", <<<<2 * u, 8 * u>>>>))
                         @@ (<<"centerOfInterest">> :> Attr("vector3f", <<V(0, 0, -4)>>)),
               <<translate, scale>>)))

\* Instances, limits of a joint, lights, curves, a camera of the application.
Physics == Layer(1, "Z",
    (<<"W">> :> Prim("Xform", (rotateXYZ :> Attr("double3", <<<<1, 2, 3>>>>)), <<rotateXYZ>>))
    @@ (<<"W", "I">> :>
          Prim("PointInstancer",
               (<<"positions">> :> Attr("point3f[]", <<V(2, 0, 4), V(0, 2, 0)>>))
               @@ (<<"orientations">> :> Attr("quatf[]", Rotation(2, 1) \o Rotation(1, 3)))
               @@ (<<"velocities">> :> Attr("vector3f[]", <<V(0, 0, 2), V(4, 0, 0)>>))
               @@ (translate :> At(2, 2, 2)), <<translate>>))
    @@ (<<"W", "J">> :>
          [Prim("Joint", (<<"limit", "transY", "low">> :> Attr("float", <<<<-2 * u>>>>))
                @@ (<<"limit", "transY", "high">> :> Attr("float", <<<<2 * u>>>>))
                         @@ (<<"limit", "transZ", "high">> :> Attr("float", <<<<4 * u>>>>))
                         @@ (<<"limit", "rotZ", "low">> :> Attr("float", <<<<-1>>>>))
                         @@ (<<"limit", "transX", "high">> :> Attr("float", <<<<6 * u>>>>)), << >>)
             EXCEPT !.apis = {"transX", "transY", "transZ", "rotZ"}])
    @@ (<<"W", "R">> :> Prim("RectLight", (rotateXYZ :> Attr("float3", <<<<0, 1, 0>>>>)),
                             <<rotateXYZ>>))
    @@ (<<"W", "S">> :> Prim("SphereLight", << >>, << >>))
    @@ (<<"W", "B">> :>
          Prim("BasisCurves", PointsAt(<<V(0, 2, 0), V(2, 0, 0)>>)
               @@ (<<"widths">> :> Attr("float[]", <<<<2 * u>>, <<4 * u>>>>)), << >>))
    @@ (<<"W", "D">> :>
          Prim("Cube", (<<"velocity">> :> Attr("vector3f", <<V(2, 0, 4)>>))
               @@ (<<"angularVelocity">> :> Attr("vector3f", <<V(0, 2, 4)>>)), << >>))
    @@ (<<"OmniverseKit_Persp">> :>
          Prim("Camera", (translate :> At(2, 2, 2))
               @@ (<<"clippingRange">> :> Attr("float2", <<<<u, 8 * u>>>>)), <<translate>>)))

\* Skeletons, one inside another, corrected before, and one that resets the
\* transform stack.
Skinned == Layer(1, "Y",
    (<<"W">> :> Prim("Xform", (translate :> At(0, 2, 2)), <<translate>>))
    @@ (<<"W", "S">> :> Prim("SkelRoot", (translate :> At(2, 0, 4))
                                         @@ (XformOp("scale", Correction) :> At(1, 1, 1)),
                             <<XformOp("scale", Correction), translate>>))
    @@ (<<"W", "S", "A">> :> Prim("SkelAnimation",
                                  <<"translations">> :> Attr("float3[]", <<V(0, 2, 0), V(2, 0, 0)>>),
                                  << >>))
    @@ (<<"W", "S", "N">> :>
          [Prim("SkelRoot", (rotateX :> Angle(1)), <<rotateX>>) EXCEPT !.reset = TRUE])
    @@ (<<"W", "S", "M">> :> Prim("Mesh", PointsAt(<<V(0, 2, 4)>>)
                                  @@ (translate :> At(4, 0, 0)), <<translate>>))
    @@ (<<"W", "T">> :> [Prim("SkelRoot", (translate :> At(0, 0, 4)),
                              <<translate>>) EXCEPT !.reset = TRUE])
    @@ (<<"W", "T", "M">> :> Prim("Mesh", PointsAt(<<V(2, 0, 4)>>), << >>)))

MCStages == {Transforms, Animated, Physics, Skinned}
=============================================================================
