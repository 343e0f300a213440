----------------------- MODULE DeduplicateHierarchies -----------------------
(***************************************************************************)
(* deduplicateHierarchies: finds subtrees that look alike, level by level  *)
(* below the default prim, and replaces all but the first of each class by *)
(* an instanceable reference to it.  Floating-point values are compared    *)
(* exactly (tolerance 0).                                                  *)
(***************************************************************************)
EXTENDS Stage

\* A name with one of the prefixes of textures is the prefix itself here.
Shaders == {"Material", "Shader", "NodeGraph", "GeomSubset"}
MaterialScopes == {"Looks", "Materials"}
TexturePrefixes == {"Diffuse", "Specular", "Normal", "Roughness", "Metallic",
                    "Emissive", "Opacity", "AO", "Displacement"}
MaterialRelated(s, p) ==
    Get(s, p, "type") \in Shaders \/ Last(p) \in MaterialScopes \cup TexturePrefixes

\* _structuralHash: below p, the relative paths, types and property names.
StructuralHash(s, p) ==
    { <<ReplacePrefix(q, p, Root), Get(s, q, "type"),
        { f \in Properties : Get(s, q, f) # None }>> : q \in PrimRange(s, p) }

\* _subtreeValuesEqual: attributes only, and not the root's transform.
SubtreeValuesEqual(s, p, q) ==
    \A r \in PrimRange(s, p) :
        \A f \in {"geo", "vis", "pos", "pv", "color"} \cup (IF r = p THEN {} ELSE {"xf"}) :
            Get(s, r, f) = Get(s, ReplacePrefix(r, p, q), f)

\* _processLevel: the pairs of a prototype and a duplicate of one level.
Duplicates(s, level) ==
    LET hash == [p \in level |-> StructuralHash(s, p)]
        valid == { p \in level : ~MaterialRelated(s, p) /\ Get(s, p, "ref") = None }
        Class(p) == { q \in valid : hash[q] = hash[p] /\ SubtreeValuesEqual(s, p, q) }
    IN UNION { { <<First(Class(p)), q>> : q \in Class(p) \ {First(Class(p))} } : p \in valid }
NextLevel(s, level, found) ==
    UNION { GetChildren(s, p) :
              p \in { q \in level : ~MaterialRelated(s, q) /\ \A d \in found : d[2] # q } }

RECURSIVE FindDuplicates(_, _)
FindDuplicates(s, level) ==
    IF level = {} THEN {}
    ELSE LET found == Duplicates(s, level)
         IN found \cup FindDuplicates(s, NextLevel(s, level, found))
StartingPrims(s) ==
    IF s.default = None \/ ~Exists(s, s.default) THEN {} ELSE GetChildren(s, s.default)

\* _applyInternalReferences, for one duplicate.
MakeInstance(s, prototype, dup) ==
    LET bare == DeletePrims(s, GetChildren(s, dup), TRUE, FALSE)
    IN SetFieldOn(SetFieldOn(bare, {dup}, "ref", prototype), {dup}, "inst", TRUE)

RECURSIVE ApplyInternalReferences(_, _)
ApplyInternalReferences(s, found) ==
    IF found = {} THEN s
    ELSE LET d == CHOOSE d \in found : \A e \in found \ {d} :
                    Before(d[1], e[1]) \/ (d[1] = e[1] /\ Before(d[2], e[2]))
         IN ApplyInternalReferences(
              IF Exists(s, d[2]) THEN MakeInstance(s, d[1], d[2]) ELSE s, found \ {d})

DeduplicateHierarchies ==
    stage' = ApplyInternalReferences(stage, FindDuplicates(stage, StartingPrims(stage)))
=============================================================================
