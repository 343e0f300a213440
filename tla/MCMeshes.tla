------------------------------ MODULE MCMeshes ------------------------------
(* Small stages of meshes with the cases of merging and splitting. *)
EXTENDS Meshes

MCNames == <<"W", "A", "B", "C", "D", "I", "L", "Geo", "m", "n", "o", "p", "M", "M_part",
             "M_part_1", "M_part_2", "N", "N_part", "N_part_1", "N_part_2", "O", "O_part",
             "O_part_1", "O_part_2", "M_part_part", "M_part_part_1", "M_part_1_part",
             "M_part_1_part_1", "merged", "merged_1", "merged_2", "merged_3", "merged_4",
             "merged_5", "merged_part", "merged_part_1", "merged_part_2", "merged_part_3",
             "merged_1_part", "merged_1_part_1", "merged_1_part_2", "merged_1_part_3",
             "merged_2_part", "merged_2_part_1", "merged_2_part_2", "merged_2_part_3",
             "merged_3_part", "merged_3_part_1", "merged_3_part_2", "merged_3_part_3",
             "clustered_part", "clustered_part_1", "clustered_part_2", "clustered_part_3",
             "clustered_1_part", "clustered_1_part_1", "clustered_1_part_2",
             "clustered_1_part_3", "clustered_2_part", "clustered_2_part_1",
             "clustered_2_part_2", "clustered_2_part_3", "clustered_3_part",
             "clustered_3_part_1", "clustered_3_part_2", "clustered_3_part_3", "clustered",
             "clustered_1", "clustered_2", "clustered_3", "clustered_4">>
MCDefaults == ("st" :> 0) @@ ("color" :> 7)

Xf(x) == [Def("Xform") EXCEPT !.xf = x]
Mat(g) == [Def("Material") EXCEPT !.geo = g]
On(prims) == Stage((<<"W">> :> Xf(1)) @@ (<<"W", "L">> :> Def("Scope"))
                        @@ (<<"W", "L", "m">> :> Mat(<<"net", "r">>))
                            @@ (<<"W", "L", "n">> :> Mat(<<"net", "b">>)) @@ prims,
                   <<"W">>)
P(name) == <<"W", name>>
P2(a, b) == <<"W", a, b>>
red == P2("L", "m")
blue == P2("L", "n")

Geo(points, faces) == [points |-> points, faces |-> faces, holes |-> {}, creases |-> << >>,
                       subsets |-> {}, pv |-> << >>, style |-> "s", animated |-> FALSE]
Pv(interp, values, indices) == [interp |-> interp, role |-> "color",
                                values |-> values, indices |-> indices]
Mesh(geo, x, m) == [Def("Mesh") EXCEPT !.geo = geo, !.xf = x, !.bind = m]
Tri == Geo(<<0, 1, 2>>, << <<1, 2, 3>> >>)

\* Two pieces, a primvar of each interpolation, a hole, a crease.
Pieces == [Geo(<<0, 1, 2, 5, 6, 7>>, << <<1, 2, 3>>, <<4, 5, 6>>, <<1, 3, 2>> >>) EXCEPT
             !.holes = {2}, !.creases = << <<1, 2>>, <<4, 5, 6>> >>,
             !.pv = ("st" :> Pv("faceVarying", <<1, 2, 3>>, <<1, 2, 3, 3, 2, 1, 1, 1, 2>>))
                    @@ ("color" :> Pv("vertex", <<1, 2, 3, 4, 5, 6>>, << >>))
                    @@ ("ref" :> [Pv("varying", <<0, 1, 2, 5, 6, 7>>, << >>) EXCEPT !.role = "point"])]
Simple == [Tri EXCEPT !.pv = ("st" :> Pv("uniform", <<4>>, << >>))
                             @@ ("color" :> Pv("constant", <<9>>, << >>))
                             @@ ("ref" :> [Pv("varying", <<3, 3, 4>>, << >>) EXCEPT !.role = "point"])]

\* Meshes with primvars and material subsets.
Sliced == On((P("M") :> Mesh(Pieces, 3, red)) @@ (P("N") :> Mesh(Simple, 10, blue))
               @@ (P("O") :> Mesh([Pieces EXCEPT
                      !.subsets = {[bind |-> blue, faces |-> {1, 3}],
                                   [bind |-> None, faces |-> {2}]}], -10, red)))

\* Assemblies, with what is hidden, animated in place, or of another style.
Groups == On((P("A") :> [Xf(2) EXCEPT !.tag = "component"]) @@ (P2("A", "M") :> Mesh(Tri, 1, red))
             @@ (P2("A", "N") :> Mesh(Tri, 2, red))
             @@ (P("B") :> [Xf(7) EXCEPT !.vis = "invisible"]) @@ (P2("B", "M") :> Mesh(Tri, 1, red))
             @@ (P("C") :> [Xf(5) EXCEPT !.tag = "varying"]) @@ (P2("C", "M") :> Mesh(Tri, 1, None))
             @@ (P("M") :> Mesh([Tri EXCEPT !.style = "t"], None, blue))
             @@ (P("N") :> [Mesh(Tri, 4, red) EXCEPT !.vis = "invisible"])
             @@ (P("O") :> Mesh([Tri EXCEPT !.style = "t"], 8, red)))

\* What instances and an instancer show.
Shared == On((P("A") :> Xf(2)) @@ (P2("A", "M") :> Mesh(Tri, 1, red))
             @@ (P2("A", "N") :> Mesh(Tri, 4, red))
             @@ (P("B") :> [Xf(9) EXCEPT !.inst = TRUE, !.ref = P("A")])
             @@ (P("I") :> [Def("PointInstancer") EXCEPT !.pos = <<0, 20, 40>>])
             @@ (P2("I", "C") :> Xf(3)) @@ (P2("I", "C") \o <<"M">> :> Mesh(Tri, 1, blue))
             @@ (P2("I", "C") \o <<"N">> :> Mesh(Tri, 2, blue))
             @@ (P("M") :> Mesh(Tri, 1, red)) @@ (P("O") :> Mesh(Tri, 6, None)))

\* Meshes in a row, some that touch.
Row == On((P("A") :> Xf(0)) @@ (P2("A", "M") :> Mesh(Geo(<<0, 1, 2>>, << <<1, 2, 3>> >>), None, red))
          @@ (P2("A", "N") :> Mesh(Geo(<<2, 1, 3>>, << <<1, 2, 3>> >>), None, red))
          @@ (P2("A", "O") :> Mesh(Geo(<<0, 4, 9, 8>>, << <<1, 2, 3, 4>> >>), 12, red))
          @@ (P("M") :> Mesh(Geo(<<0, 1, 1, 2, 2, 3, 8, 9>>,
                                 << <<1, 2, 4>>, <<3, 5, 6>>, <<7, 8, 7>> >>), 30, blue))
          @@ (P("N") :> Mesh(Tri, 33, red)))

\* Primvars of several types and interpolations, and materials that read them or do not.
Flat2(name, values) == name :> Pv("faceVarying", values, << >>)
Indexed2(name, role, values, indices) == name :> [Pv("uniform", values, indices) EXCEPT !.role = role]
Typed == [Geo(<<0, 1, 2, 3>>, << <<1, 2, 3>>, <<1, 3, 4>> >>) EXCEPT
            !.pv = Flat2("st", <<1, 1, 1, 2, 2, 2>>) @@ Flat2("st1", <<1, 1, 2, 2, 2, 2>>)
                   @@ Indexed2("color", "color", <<5, 6>>, <<1, 1>>)
                   @@ Indexed2("label", "string", <<"a", "b">>, <<2, 2>>)
                   @@ Indexed2("count", "int", <<3, 3>>, << >>)
                   @@ ("mass" :> [Pv("vertex", <<4, 4, 2, 4>>, << >>) EXCEPT !.role = "double"])]
Textured == On((P2("L", "p") :> Mat(<<"reads st1", "g">>)) @@ (P2("L", "o") :> Mat(<<"plain", "g">>))
               @@ (P("M") :> Mesh(Typed, 3, red)) @@ (P("N") :> Mesh(Typed, 10, P2("L", "p")))
               @@ (P("O") :> Mesh([Typed EXCEPT !.subsets = {[bind |-> P2("L", "p"),
                                                              faces |-> {1, 2}]}], -10, P2("L", "o")))
               @@ (P("C") :> [Xf(20) EXCEPT !.bind = P2("L", "o")])
               @@ (P2("C", "M") :> [Mesh(Typed, 1, None) EXCEPT
                                      !.geo.pv = Flat2("st", <<1, 2, 1, 2, 1, 2>>)])
               @@ (P2("C", "I") :> [Def("Xform") EXCEPT !.ref = P("A"), !.inst = TRUE])
               @@ (P("A") :> Xf(40)) @@ (P2("A", "N") :> Mesh(Typed, None, P2("L", "p"))))

Shader(kind, name) == [kind |-> kind, varname |-> name]
MCNetworks == ("net" :> {Shader("UsdUVTexture", "")}) @@ ("plain" :> {Shader("UsdPreviewSurface", "")})
              @@ ("reads st1" :> {Shader("UsdPreviewSurface", ""),
                                  Shader("UsdPrimvarReader_float2", "st1")})
MCPrimvarOptions ==
    { [mode |-> mode, simplify |-> simplify, removeIfBound |-> FALSE,
       primvars |-> {}, primvarPaths |-> {}]
        : mode \in {"ignore", "index", "forced", "flatten"}, simplify \in BOOLEAN }
    \cup { [mode |-> "remove", simplify |-> FALSE, removeIfBound |-> bound,
            primvars |-> {"st1", "label"}, primvarPaths |-> {}]
             : bound \in BOOLEAN }

MCUVPaths == {<< >>, <<P("M"), P("N"), P2("C", "M")>>}

MCStages == {Sliced, Groups, Shared, Row, Textured}

Options == [paths |-> << >>, mergePoint |-> "stage", rootPath |-> <<"merged">>,
            considerMaterials |-> TRUE,
            allowSingle |-> FALSE, mode |-> "none", threshold |-> 0,
                size |-> 0, unset |-> 0, method |-> "delete"]
MCMergeOptions ==
    { Options, [Options EXCEPT !.considerMaterials = FALSE, !.method = "deactivate"],
      [Options EXCEPT !.mergePoint = "xform", !.rootPath = <<"Geo", "merged">>,
       !.considerMaterials = FALSE],
      [Options EXCEPT !.mergePoint = "component", !.allowSingle = TRUE, !.method = "hide"],
      [Options EXCEPT !.paths = <<P("A"), P("I"), P("N")>>, !.mergePoint = "parent"],
      [Options EXCEPT !.mode = "bounds", !.threshold = 3, !.size = 12],
      [Options EXCEPT !.mode = "vertices", !.size = 7, !.considerMaterials = FALSE],
      [Options EXCEPT !.mode = "boundary", !.threshold = 1, !.size = 1] }
MCSplitOptions ==
    { o @@ [splitOn |-> on, splitCollocatedPoints |-> collocated] : on \in {"vertices", "subsets"},
        collocated \in BOOLEAN,
            o \in { [Options EXCEPT !.rootPath = <<"clustered">>, !.mode = mode, !.size = 7,
                                    !.threshold = 3] : mode \in {"none", "bounds", "vertices"} } }
=============================================================================
