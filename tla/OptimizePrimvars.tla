-------------------------- MODULE OptimizePrimvars --------------------------
(***************************************************************************)
(* The optimizePrimvars operation: primvars of meshes are indexed,         *)
(* flattened, given the simplest interpolation that can hold their values, *)
(* or removed; and the checker that has it index what its analysis finds.  *)
(* The role of a primvar stands for its type as well: "color" and "point"  *)
(* are arrays of three floats, "uv" of two.  Every element size is 1, and   *)
(* different values have different hashes.                                 *)
(***************************************************************************)
EXTENDS Clustering

SimplifiedRoles == {"color", "point", "uv", "string"}
IndexedRoles == SimplifiedRoles \cup {"double"}
ReindexedRoles == SimplifiedRoles \ {"string"}
SimpleTypes == {"int"}

AllEqual(values) == Cardinality(Range(values)) = 1
FirstCorner(faces, f) == 1 + MapThenSumSet(LAMBDA k : Len(faces[k]), 1..(f - 1))
OfFace(values, faces, f) == SubSeq(values, FirstCorner(faces, f), FirstCorner(faces, f + 1) - 1)
Flat(interp, values) == [interp |-> interp, values |-> values]

\* Mutant: the first face is taken for all of them.
M_simplifyFaceVarying(values, faces) ==
    CASE AllEqual(OfFace(values, faces, 1)) -> Flat("constant", <<values[1]>>)
      [] \A f \in DOMAIN faces : AllEqual(OfFace(values, faces, f)) ->
            Flat("uniform", Tuple([f \in DOMAIN faces |-> values[FirstCorner(faces, f)]]))
      [] OTHER -> Flat(None, values)

\* One value for all, or one for each face; too few values are left alone.
simplifyFaceVarying(values, faces) ==
    LET corners == FirstCorner(faces, Len(faces) + 1) - 1
    IN CASE Len(values) < corners -> Flat(None, values)
         [] AllEqual(SubSeq(values, 1, corners)) -> Flat("constant", <<values[1]>>)
         [] \A f \in DOMAIN faces : AllEqual(OfFace(values, faces, f)) ->
               Flat("uniform", Tuple([f \in DOMAIN faces |-> values[FirstCorner(faces, f)]]))
         [] OTHER -> Flat(None, values)

\* The flat values with the interpolation they are reduced to, None if to none.
simplifyPrimvar(pv, faces) ==
    LET values == Flattened(pv)
    IN CASE pv.interp = "constant" \/ faces = << >> \/ pv.role \notin SimplifiedRoles ->
              Flat(None, values)
         [] pv.interp = "faceVarying" -> simplifyFaceVarying(values, faces)
         [] AllEqual(values) -> Flat("constant", <<values[1]>>)
         [] OTHER -> Flat(None, values)

\* The reduced values of a primvar keep it indexed; of strings, it keeps the old ones.
SetFlat(pv, flat) == [pv EXCEPT !.interp = flat.interp, !.values = flat.values, !.indices = << >>]
SetSimplifiedValues(pv, flat) ==
    CASE pv.indices = << >> \/ flat.interp = "constant" -> SetFlat(pv, flat)
      [] pv.role \in ReindexedRoles -> Reindexed(pv, flat.interp, flat.values)
      [] OTHER -> [pv EXCEPT !.interp = flat.interp]

Indexed(pv, flat, interp) ==
    CASE interp = "constant" -> IF flat.interp = None THEN pv ELSE SetSimplifiedValues(pv, flat)
      [] pv.role \in IndexedRoles -> Reindexed(pv, interp, flat.values)
      [] OTHER -> pv

AlreadyIs(pv, mode) ==
    \/ mode = "flatten" /\ pv.indices = << >>
    \/ mode = "index" /\ pv.indices # << >>

Rewritten(pv, opt, flat) ==
    LET interp == IF flat.interp = None THEN pv.interp ELSE flat.interp
    IN CASE flat.values = << >> -> pv
         [] opt.mode = "flatten" /\ pv.indices # << >> -> SetFlat(pv, Flat(interp, flat.values))
         [] opt.mode = "forced" \/ (opt.mode = "index" /\ pv.indices = << >>) ->
              Indexed(pv, flat, interp)
         [] flat.interp # None -> SetSimplifiedValues(pv, flat)
         [] OTHER -> pv

processPrimvar(pv, faces, opt) ==
    IF ~opt.simplify /\ AlreadyIs(pv, opt.mode) THEN pv
    ELSE Rewritten(pv, opt, IF opt.simplify THEN simplifyPrimvar(pv, faces)
                   ELSE Flat(None, Flattened(pv)))

-----------------------------------------------------------------------------
(* The stage *)

MeshGeometry(s, p) == Type(s, p) = "Mesh" /\ Get(s, p, "geo") # None
MeshPrims(s) == { p \in PrimRange(s, Root) : MeshGeometry(s, p) }
PrimvarsOf(s, P) == UNION { { <<p, name>> : name \in DOMAIN Get(s, p, "geo").pv } : p \in P }

\* What is done to some primvars, by path, by name or all, or to none: primvars are on
\* meshes here, and primPaths, which only leaves out other prims, is empty.
Tasks(s, opt) ==
    CASE opt.mode = "ignore" /\ ~opt.simplify -> {}
      [] opt.primvarPaths # {} -> opt.primvarPaths
      [] opt.primvars # {} -> { t \in PrimvarsOf(s, MeshPrims(s)) : t[2] \in opt.primvars }
      [] OTHER -> PrimvarsOf(s, MeshPrims(s))

Removable(s, p, opt) == opt.mode = "remove" /\ (opt.removeIfBound => BoundMaterial(s, p) # None)
OptimizeMesh(s, p, names, opt) ==
    LET geo == Get(s, p, "geo")
        kept == IF Removable(s, p, opt) THEN DOMAIN geo.pv \ names ELSE DOMAIN geo.pv
        pvs == Fun([name \in kept |-> IF name \in names /\ opt.mode # "remove"
                                      THEN processPrimvar(geo.pv[name], geo.faces, opt)
                                          ELSE geo.pv[name]])
    IN IF pvs = geo.pv THEN s ELSE SetFieldOn(s, {p}, "geo", [geo EXCEPT !.pv = pvs])

OptimizeTasks(s, tasks, opt) ==
    FoldLeft(LAMBDA t, p : OptimizeMesh(t, p, { task[2] : task \in { u \in tasks : u[1] = p } }, opt),
             s, InOrder({ task[1] : task \in tasks }))
OptimizePrimvars(opt) == stage' = OptimizeTasks(stage, Tasks(stage, opt), opt)

-----------------------------------------------------------------------------
(* The analysis, and the checker that acts upon it *)

\* Flat primvars that repeat a value.
Indexable(s) ==
    { t \in PrimvarsOf(s, MeshPrims(s)) :
        LET pv == Get(s, t[1], "geo").pv[t[2]]
        IN /\ pv.interp # "constant" /\ pv.role \notin SimpleTypes
           /\ pv.indices = << >> /\ Cardinality(Range(pv.values)) < Len(pv.values) }

\* The suggestion for each of them is carried out, one after another.
IndexPrimvar == [mode |-> "forced", simplify |-> FALSE, removeIfBound |-> FALSE]
IndexedPrimvarChecker ==
    stage' = FoldSet(LAMBDA t, s : OptimizeTasks(s, {t}, IndexPrimvar), stage, Indexable(stage))
=============================================================================
