------------------------------- MODULE Scene -------------------------------
(***************************************************************************)
(* Scene operations run one after another on a stage, as a configuration   *)
(* lists them.  None of them is meant to change what the stage shows.      *)
(***************************************************************************)
EXTENDS PruneLeaves, FlattenHierarchy, DeduplicateHierarchies, OrganizePrototypes,
        DeduplicateGeometry, RemovePrims, OptimizeMaterials

CONSTANTS
    InitialStages,  \* the stages a sequence of operations starts from
    MaxSteps        \* bound: the operations run on a stage

VARIABLE steps
vars == <<stage, steps>>

Init == stage \in InitialStages /\ steps = 0
Step == steps < MaxSteps /\ steps' = steps + 1

\* The sources that something references, and what is below them.
Sources(s) ==
    { p \in DOMAIN s.prims :
        \E q \in DOMAIN s.prims : s.prims[q].ref # None /\ HasPrefix(p, s.prims[q].ref) }

\* With preserveRelationshipTargets, as by default.
Prune ==
    \E mode \in {"delete", "deactivate", "hide"}, filterInactive \in BOOLEAN :
        PruneLeaves(mode, filterInactive, TRUE)

\* Without classes, which the search for references does not visit, and
\* without colors that an Xform would take away with it.
Flatten ==
    /\ \A p \in DOMAIN stage.prims : Get(stage, p, "type") = "Xform" => Get(stage, p, "color") = None
    /\ \A p \in DOMAIN stage.prims : ~IsAbstract(stage, p)
    /\ \A p \in DOMAIN stage.prims : Get(stage, p, "type") = "Scope"
          => Get(stage, p, "bind") = None /\ Get(stage, p, "rel") = None
    /\ \E identityOnly \in BOOLEAN : FlattenHierarchy(identityOnly)

\* Without references: the comparison does not see what instances hold, and
\* may take a copy for the prototype of its own source.
DedupHierarchies ==
    /\ \A p \in DOMAIN stage.prims : stage.prims[p].ref = None
    /\ DeduplicateHierarchies

\* A prototype inside an instance is not copied, but its references would be
\* moved to the empty place for the copy.
Organize ==
    /\ \A p \in Prototypes(stage) : Local(stage, p)
    /\ \E levels \in 0..1 : OrganizePrototypes(<<"P">>, levels)

\* By reference, either all of a set author a binding or none does: one that
\* does not would find the prototype's.  None of them is composed: a copy may
\* become the prototype of the mesh it is a copy of.
\* A point instancer is not made of the meshes of a source, whose instances
\* would lose them, nor of composed ones, which are not copied, nor of hidden
\* ones or targets of a relationship.
DedupGeometry ==
    /\ \/ /\ \A set \in FindIdenticalMeshes(stage, "reference") :
                /\ set \subseteq DOMAIN stage.prims
                /\ \/ \A p \in set : Get(stage, p, "bind") = None
                   \/ \A p \in set : Get(stage, p, "bind") # None
          /\ \E method \in {"reference", "instanceable"} : DeduplicateGeometry(method, None, 2)
       \/ \E location \in {None, <<"W", "I">>}, minimumDuplicates \in 2..3 :
             /\ \A p \in UNION FindIdenticalMeshes(stage, "pointInstancer") :
                /\ p \in DOMAIN stage.prims
                /\ p \notin Sources(stage) \cup RelationshipTargets(stage)
                /\ Visible(stage, p) /\ ~IsAbstract(stage, p)
             /\ DeduplicateGeometry("pointInstancer", location, minimumDuplicates)

RemoveUnseen ==
    /\ \E invisible \in {"delete", "deactivate"}, orphaned \in {"delete", "deactivate", "hide"} :
          RemovePrims(invisible, orphaned)

\* A material that goes is no source of one that stays: but for bound ones, no
\* method of optimizeMaterials looks.
SourcesStay(gone) ==
    \A m \in Materials(stage) \ gone :
        (ReferenceArcs(stage, m) \cup SpecializesArcs(stage, m)) \cap gone = {}

DedupMaterials ==
    LET rebind == RebindMap(EqualMaterials(stage))
    IN /\ SourcesStay(DOMAIN rebind)
       /\ stage' = DeduplicateMaterials(stage, rebind)

RemoveUnbound ==
    LET gone == UnboundMaterials(stage)
    IN /\ SourcesStay(gone)
       /\ stage' = DeleteMaterials(stage, gone)

\* The value of an input that reads the primvar already is taken for a value of
\* the faces of a subset, and that of the mesh is written over.
ByPrimvars ==
    LET groups == ReaderGroups(stage)
        ready == Convertible(stage, groups)
    IN /\ SourcesStay(UNION { Range(g) : g \in ready })
       /\ \A p \in Bindable(stage) : \A c \in SubsetsOf(stage, p) :
             \A m \in {Material(stage, p), Material(stage, c)} : m # None => Value(stage, m) # Reader
       /\ stage' = ConvertToPrimvars(stage, groups, ready, <<"W", "K">>)

\* Only plain materials look like a color.  A subset has no color of its own,
\* and the color of a prim is lost when a prim above it is painted later.
ByColors ==
    /\ SourcesStay(Colors(stage))
    /\ LET painted == UNION { DirectlyBound(stage, m) : m \in Colors(stage) }
           Of(p) == DirectBinding(stage, p)
       IN /\ \A p \in painted : Network(stage, Of(p)) = "plain" /\ Get(stage, p, "type") # "GeomSubset"
          /\ \A p, q \in painted : IsStrictPrefix(p, q) => ~Before(Of(q), Of(p))
    /\ stage' = ConvertToColor(stage)

Next ==
    /\ Step
    /\ DedupMaterials \/ RemoveUnbound \/ ByPrimvars \/ ByColors \/ Prune
        \/ Flatten \/ DedupHierarchies \/ Organize \/ DedupGeometry \/ RemoveUnseen
Spec == Init /\ [][Next]_vars

-----------------------------------------------------------------------------
\* Whatever was drawn is drawn in the same place with the same geometry and
\* material, and as often: every operation here only reorganizes the stage.
AppearanceKept == [][Appearance(stage') = Appearance(stage)]_vars

\* Every reference leads to a prim, and never back to where it is.
ReferencesSound ==
    /\ Acyclic(stage)
    /\ \A p \in DOMAIN stage.prims : Local(stage, p) /\ stage.prims[p].ref # None
          => Exists(stage, stage.prims[p].ref)

\* No operation leaves a relationship dangling that led somewhere.
Dangling(s) ==
    { p \in PrimRange(s, Root) : \E f \in {"bind", "rel"} :
        Get(s, p, f) # None /\ ~Exists(s, Get(s, p, f)) }
TargetsKept == [][Dangling(stage) = {} => Dangling(stage') = {}]_vars
=============================================================================
