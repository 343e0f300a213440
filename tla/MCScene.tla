------------------------------ MODULE MCScene ------------------------------
(* Small stages, each with the cases of some of the operations. *)
EXTENDS Scene

MCNames == <<"W", "A", "A_1", "B", "B_1", "C", "D", "E", "H", "I", "I_1", "Geometry", "L", "m", "n",
             "M", "M_1", "M1", "M_Instancer", "M_Instancer_1",
             "N", "N_1", "N1", "N_Instancer", "Geometry_Instancer", "Geometry_Instancer_1",
             "O", "P", "K", "m_pv", "m_pv1", "n_pv", "n_pv1", "A_pv", "A_pv1",
                 "B_pv", "B_pv1", "A1", "B1", "C1", "D1">>

Xf(x) == [Def("Xform") EXCEPT !.xf = x]
Mesh(g, m) == [Def("Mesh") EXCEPT !.geo = g, !.bind = m]
Shader(network, value) == [Def("Material") EXCEPT !.geo = <<network, value>>]
Mat(value) == Shader("plain", value)
Scope == Def("Scope")
On(prims) == Stage((<<"W">> :> Def("Xform")) @@ prims, <<"W">>)
P(name) == <<"W", name>>
P2(a, b) == <<"W", a, b>>
P3(a, b, c) == <<"W", a, b, c>>
red == <<"W", "L", "m">>
blue == <<"W", "L", "n">>

\* A chain of Xforms with a material and an invisible link, and empty groups.
Chain == On((P("A") :> Xf(1)) @@ (P2("A", "B") :> [Xf(2) EXCEPT !.vis = "invisible"])
            @@ (P3("A", "B", "M") :> Mesh("g", red)) @@ (P3("A", "B", "N") :> Mesh("h", None))
            @@ (P("C") :> Xf(1)) @@ (P2("C", "L") :> Xf(3)) @@ (P3("C", "L", "m") :> Mat("r"))
            @@ (P3("C", "L", "M") :> [Mesh("h", P3("C", "L", "m")) EXCEPT !.rel = P2("E", "H")])
            @@ (P("H") :> Xf(0)) @@ (P("L") :> Scope) @@ (red :> Mat("r"))
                @@ (P("E") :> Scope) @@ (P2("E", "H") :> Xf(4))
            @@ (P("D") :> Xf(5)) @@ (P2("D", "I") :> Xf(6)) @@ (P3("D", "I", "M") :> Mesh("f", None))
            @@ (P("B") :> [Xf(2) EXCEPT !.ref = P2("D", "I")]))

\* Two assemblies and a loose mesh that look alike, an empty target.
Alike == On((P("A") :> Xf(1)) @@ (P2("A", "M") :> Mesh("g", red))
            @@ (P("B") :> Xf(2)) @@ (P2("B", "M") :> Mesh("g", red))
            @@ (P("M") :> [Mesh("g", blue) EXCEPT !.xf = 3])
            @@ (P("N") :> [Mesh("g", blue) EXCEPT !.xf = 4])
            @@ (P("L") :> Scope) @@ (red :> Mat("r")) @@ (blue :> Mat("b")))

\* Instances of a prim of the scene that holds a material and an instance.
Instances == On((P("A") :> Xf(1)) @@ (P2("A", "M") :> Mesh("g", P2("A", "m")))
            @@ (P2("A", "m") :> Mat("r"))
            @@ (P2("A", "B") :> [Xf(5) EXCEPT !.inst = TRUE, !.ref = P("D")])
            @@ (P("B") :> [Xf(2) EXCEPT !.inst = TRUE, !.ref = P("A")])
            @@ (P("C") :> Xf(3)) @@ (P2("C", "I") :> [Xf(4) EXCEPT !.inst = TRUE, !.ref = P("A")])
            @@ (P("D") :> Xf(2)) @@ (P2("D", "M") :> Mesh("h", P2("A", "m")))
            @@ (P("N") :> Mesh("h", P2("A", "m"))))

\* Hidden prims, orphaned overs, prims kept by a relationship, a class.
Hidden == On((P("A") :> [Xf(1) EXCEPT !.vis = "invisible"]) @@ (P2("A", "M") :> Mesh("g", None))
            @@ (P("B") :> [Xf(2) EXCEPT !.rel = P("O")]) @@ (P2("B", "N") :> Mesh("g", None))
            @@ (P("O") :> Over) @@ (P("I") :> [Over EXCEPT !.ref = P("H")]) @@ (P("H") :> Over)
            @@ (P("C") :> [Over EXCEPT !.spec = "class", !.type = "Xform"])
            @@ (P2("C", "M") :> Mesh("g", None))
            @@ (P("D") :> [Xf(4) EXCEPT !.inst = TRUE, !.ref = P("C")])
            @@ (P("E") :> [Xf(3) EXCEPT !.active = FALSE]) @@ (P2("E", "M") :> Mesh("g", None)))

\* A prototype inside another.
Nested == On((P("A") :> Xf(1)) @@ (P2("A", "B") :> Xf(2)) @@ (P3("A", "B", "M") :> Mesh("g", None))
               @@ (P("C") :> [Xf(3) EXCEPT !.inst = TRUE, !.ref = P("A")])
               @@ (P("D") :> [Xf(4) EXCEPT !.inst = TRUE, !.ref = P2("A", "B")]))

\* Equal materials, and others that differ in their value only, one of which
\* specializes another; a reader; a mesh with a subset.
Painted == On((P("L") :> Scope) @@ (red :> Mat("r")) @@ (blue :> Mat("r")) @@ (P2("L", "A") :> Mat("b"))
            @@ (P2("L", "B") :> Shader("tex", "g"))
            @@ (P2("L", "C") :> [Shader("tex", "y") EXCEPT !.ref = P2("L", "B"), !.tag = "specializes"])
            @@ (P2("L", "D") :> Shader("read", Reader)) @@ (P2("L", "E") :> Shader("tex", "w"))
            @@ (P("M") :> [Mesh("f", red) EXCEPT !.rel = blue])
                @@ (P("N") :> [Mesh("h", blue) EXCEPT !.rel = P2("L", "A")])
            @@ (P("A") :> [Xf(1) EXCEPT !.bind = P2("L", "A")]) @@ (P2("A", "M") :> Mesh("i", None))
            @@ (P2("A", "N") :> Mesh("j", P2("L", "C")))
            @@ (P("O") :> Mesh("k", red))
                @@ (P2("O", "H") :> [Def("GeomSubset") EXCEPT !.geo = "l", !.bind = P2("L", "A")])
            @@ (P("D") :> [Mesh("m", P2("L", "D")) EXCEPT !.pv = "rest" :> "x"]))

\* Materials bound to groups with colors of their own, and for full renders.
Colored == On((P("L") :> Scope) @@ (red :> Mat("r")) @@ (blue :> Mat("b"))
            @@ (P("A") :> [Xf(1) EXCEPT !.bind = red])
                @@ (P2("A", "M") :> [Mesh("f", None) EXCEPT !.color = "old"])
            @@ (P2("A", "N") :> Mesh("g", blue))
            @@ (P("B") :> [Mesh("h", red) EXCEPT !.rel = blue]))

MCStages == {Painted, Colored, Chain, Nested, Alike, Instances, Hidden}
=============================================================================
