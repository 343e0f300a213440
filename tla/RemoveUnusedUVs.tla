-------------------------- MODULE RemoveUnusedUVs --------------------------
(***************************************************************************)
(* The removeUnusedUVs operation: texture coordinates that the material of *)
(* their mesh does not seem to read are removed or blocked; and the        *)
(* checker that has it do so for the prims its analysis finds.             *)
(***************************************************************************)
EXTENDS OptimizePrimvars

CONSTANTS
    UVNames,   \* the primvars that are texture coordinates
    Networks   \* the shaders in a network: their kind and the primvar they name

Shaders(s, m) == IF m = None THEN {} ELSE Networks[Get(s, m, "geo")[1]]

\* Whether a material might use texture coordinates, and those its readers name.
MightUseUVs(s, m) == \E shader \in Shaders(s, m) : shader.kind \in {"UsdUVTexture", "asset"}
Readers(s, m) ==
    { shader.varname : shader \in { sh \in Shaders(s, m) : sh.kind = "UsdPrimvarReader_float2" } }

\* Mutant: what the material's readers name is not looked at.
M_UnusedUVsAnyReader(s, p) ==
    LET m == BoundMaterial(s, p)
    IN IF MightUseUVs(s, m) THEN {} ELSE DOMAIN Get(s, p, "geo").pv \cap UVNames

UnusedUVs(s, p) ==
    LET m == BoundMaterial(s, p)
    IN IF MightUseUVs(s, m) THEN {} ELSE (DOMAIN Get(s, p, "geo").pv \cap UVNames) \ Readers(s, m)

\* Of the prims outside of materials that have primvars: meshes, here.
ToRemove(s, paths) ==
    LET InMaterial(p) == \E q \in Ancestors(p) : Type(s, q) = "Material"
        prims == { p \in AllPrims(s) : MeshGeometry(s, p)
                  /\ ~InMaterial(p) /\ (paths = << >> \/ p \in Range(paths)) }
    IN UNION { { <<p, name>> : name \in UnusedUVs(s, p) } : p \in prims }

\* Removing a property leaves what is composed; blocking it does not.
Stripped(geo, names) == [geo EXCEPT !.pv = Fun([name \in DOMAIN @ \ names |-> geo.pv[name]])]
StripUVs(s, prims, p, names, mode) ==
    IF mode = "block" THEN SetField(prims, p, "geo", Stripped(Get(s, p, "geo"), names))
    ELSE IF Local(s, p) /\ prims[p].geo # None
        THEN SetField(prims, p, "geo", Stripped(prims[p].geo, names))
    ELSE prims
NamesOf(uvs, p) == { t[2] : t \in { u \in uvs : u[1] = p } }
WithoutUVs(s, uvs, mode) ==
    IF uvs = {} THEN s
    ELSE Edited(s, FoldSet(LAMBDA p, prims : StripUVs(s, prims, p, NamesOf(uvs, p), mode), s.prims,
                           { t[1] : t \in uvs }))
RemoveUnusedUVs(paths, mode) == stage' = WithoutUVs(stage, ToRemove(stage, paths), mode)

\* For each attribute that is found, the operation is run on its prim.
UnusedUVsChecker ==
    stage' = FoldSet(LAMBDA t, s : WithoutUVs(s, ToRemove(s, <<t[1]>>), "block"),
                     stage, ToRemove(stage, << >>))
=============================================================================
