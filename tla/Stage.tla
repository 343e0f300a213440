------------------------------- MODULE Stage -------------------------------
(***************************************************************************)
(* A USD stage of one layer, as far as the scene operations tell stages    *)
(* apart: the prim specs of the layer by path, and the default prim.  The  *)
(* stage belongs to the USD library, so what is said here of composition   *)
(* is how src/ relies on it: a spec may reference another prim of the      *)
(* layer, the prim then composes what it does not author itself (and its   *)
(* children) from the target, a path authored below the target is mapped   *)
(* into the referencing prim, and below an instance local specs are void.  *)
(* Values are tokens: "geo" the geometry (or, of a material, its network   *)
(* and the value of its input), "xf" the local translation, "bind" the     *)
(* bound material, "rel" the target of any other relationship, which, when *)
(* that is a material, is its binding for full renders, "vis" an authored  *)
(* visibility, "op" that the transform holds an op of deduplicateGeometry, *)
(* "pos" the placements of a point instancer, "pv" the primvar materials   *)
(* may read, by subset of faces, "color" the display color, "tag" what else*)
(* sets a prim apart: its kind, that it is a physics body, that its        *)
(* transform is animated or resets the stack, that its arc specializes.    *)
(***************************************************************************)
EXTENDS Integers, Sequences, FiniteSets, SequencesExt

CONSTANTS
    Names,      \* the prim names, in the order siblings are traversed
    None,       \* a field without an opinion
    Blocked,    \* a value that is blocked
    Reader,     \* the input of a material that reads the primvar
    MaxArcs,    \* bound: the longest chain of references followed
    MaxDepth    \* bound: the deepest composed path

ASSUME StageAssumption ==
    /\ MaxArcs \in Nat /\ MaxDepth \in Nat
    /\ \A i, j \in DOMAIN Names : Names[i] = Names[j] => i = j

VARIABLE stage

-----------------------------------------------------------------------------
(* Paths *)

\* The members of a set in some order, and in a given one.
Listed(S) == FoldSet(LAMBDA x, seq : Append(seq, x), << >>, S)
Sorted(S, op(_, _)) == SortSeq(Listed(S), op)

\* A sequence and a function, evaluated as a whole and once.
Tuple(seq) == seq \o << >>
Fun(f) == f @@ << >>

Root == << >>
Parent(p) == Front(p)
Ancestors(p) == { SubSeq(p, 1, i) : i \in 1..Len(p) }
HasPrefix(p, q) == IsPrefix(q, p)
ReplacePrefix(p, from, to) == to \o SubSeq(p, Len(from) + 1, Len(p))
Closest(Q) == CHOOSE q \in Q : \A r \in Q : Len(r) <= Len(q)

Rank(name) == CHOOSE i \in DOMAIN Names : Names[i] = name
Before(p, q) ==
    \/ IsStrictPrefix(p, q)
    \/ \E i \in DOMAIN p \cap DOMAIN q :
          SubSeq(p, 1, i - 1) = SubSeq(q, 1, i - 1) /\ Rank(p[i]) < Rank(q[i])
Suffixed(p, separator, k) ==
    IF k = 0 THEN p ELSE Append(Parent(p), Last(p) \o separator \o ToString(k))
FreePath(taken, p, separator) ==
    Suffixed(p, separator, CHOOSE k \in 0..Cardinality(taken) :
        /\ Suffixed(p, separator, k) \notin taken
        /\ \A j \in 0..(k - 1) : Suffixed(p, separator, j) \in taken)
First(P) == CHOOSE p \in P : \A q \in P \ {p} : Before(p, q)

-----------------------------------------------------------------------------
(* Prim specs *)

Over == [type |-> None, spec |-> None, active |-> None, inst |-> None,
         ref |-> None, geo |-> None, xf |-> None, bind |-> None,
         rel |-> None, vis |-> None, op |-> None, pos |-> None, tag |-> None,
         pv |-> None, color |-> None]
Def(type) == [Over EXCEPT !.type = type, !.spec = "def"]
Properties == {"geo", "xf", "bind", "rel", "vis", "op", "pos", "pv", "color"}

\* The specs with an over for p and for each missing ancestor of p.
WithSpec(prims, p) ==
    [q \in DOMAIN prims \cup Ancestors(p) |->
        IF q \in DOMAIN prims THEN prims[q] ELSE Over]
SetField(prims, p, f, v) == [WithSpec(prims, p) EXCEPT ![p][f] = v]
Without(prims, P) ==
    [q \in { r \in DOMAIN prims : Ancestors(r) \cap P = {} } |-> prims[q]]

-----------------------------------------------------------------------------
(* Composition *)

Local(s, p) ==
    /\ p \in DOMAIN s.prims
    /\ \A q \in Ancestors(p) \ {p} :
          q \in DOMAIN s.prims => ~(s.prims[q].inst = TRUE /\ s.prims[q].ref # None)
Arcs(s, p) == { q \in Ancestors(p) : Local(s, q) /\ s.prims[q].ref # None }
Target(s, p, q) == ReplacePrefix(p, q, s.prims[q].ref)

RECURSIVE Opinion(_, _, _, _)
Opinion(s, p, f, n) ==
    IF Local(s, p) /\ s.prims[p][f] # None THEN s.prims[p][f]
    ELSE IF n = 0 THEN None
    ELSE LET through == [q \in Arcs(s, p) |-> Opinion(s, Target(s, p, q), f, n - 1)]
             some == { q \in Arcs(s, p) : through[q] # None }
             q == Closest(some)
         IN IF some = {} THEN None
            ELSE IF f \in {"bind", "rel"} /\ HasPrefix(through[q], s.prims[q].ref)
                 THEN ReplacePrefix(through[q], s.prims[q].ref, q)
                 ELSE through[q]

RECURSIVE ChildNames(_, _, _)
ChildNames(s, p, n) ==
    { Last(c) : c \in { d \in DOMAIN s.prims : Parent(d) = p /\ Local(s, d) } }
    \cup IF n = 0 THEN {}
         ELSE UNION { ChildNames(s, Target(s, p, q), n - 1) : q \in Arcs(s, p) }
RECURSIVE Reached(_, _)
Reached(s, p) ==
    {p} \cup IF Len(p) = MaxDepth THEN {}
             ELSE UNION { Reached(s, Append(p, name)) : name \in ChildNames(s, p, MaxArcs) }

\* A stage keeps the prims that its layer composes, and every edit of the
\* layer is followed by their being composed again.
Stage(prims, default) ==
    LET layer == [prims |-> prims, default |-> default]
        Resolved(p) == Fun([f \in DOMAIN Over |-> Opinion(layer, p, f, MaxArcs)])
    IN [prims |-> prims, default |-> default,
        composed |-> Fun([p \in Reached(layer, Root) |-> Resolved(p)])]
Edited(s, prims) == Stage(prims, s.default)

Get(s, p, f) == IF p \in DOMAIN s.composed THEN s.composed[p][f] ELSE None
Composed(s, p) ==
    IF Get(s, p, "active") = FALSE THEN {}
    ELSE { c \in DOMAIN s.composed : Len(c) = Len(p) + 1 /\ HasPrefix(c, p) }
Exists(s, p) == \A q \in Ancestors(p) : q \in Composed(s, Parent(q))

RECURSIVE Subtree(_, _)
Subtree(s, p) == {p} \cup UNION { Subtree(s, c) : c \in Composed(s, p) }

IsActive(s, p) == \A q \in Ancestors(p) : Get(s, q, "active") # FALSE
IsDefined(s, p) == \A q \in Ancestors(p) : Get(s, q, "spec") # None
IsAbstract(s, p) == \E q \in Ancestors(p) : Get(s, q, "spec") = "class"
IsInstance(s, p) == p # Root /\ Get(s, p, "inst") = TRUE /\ Get(s, p, "ref") # None
IsProxy(s, p) == \E q \in Ancestors(p) \ {p} : IsInstance(s, q)
Default(s, p) == IsActive(s, p) /\ IsDefined(s, p) /\ ~IsAbstract(s, p)

\* UsdPrim::GetAllChildren, UsdPrim::GetChildren and UsdPrimRange, over all and
\* over the default prims.
AllChildren(s, p) == IF IsInstance(s, p) THEN {} ELSE Composed(s, p)
GetChildren(s, p) == { c \in AllChildren(s, p) : Default(s, c) }
AllPrims(s) == { p \in Subtree(s, Root) \ {Root} : ~IsProxy(s, p) }
PrimRange(s, p) ==
    { q \in Subtree(s, p) \ {Root} : Default(s, q) /\ ~IsProxy(s, q) }

-----------------------------------------------------------------------------
(* What a viewer of the stage sees: each drawn mesh, and each subset of its*)
(* faces, with its geometry, its place and its shading, in previews and in *)
(* full renders, however many there are of each.                           *)

\* Scopes and materials are not transformable: the transform cache skips them.
Xformable(s, p) == Get(s, p, "type") \in {"Xform", "Mesh", "PointInstancer"}
LocalXform(s, p) == IF Xformable(s, p) /\ Get(s, p, "xf") # None THEN Get(s, p, "xf") ELSE 0
World(s, p) == MapThenSumSet(LAMBDA q : LocalXform(s, q), Ancestors(p))

Visible(s, p) == \A q \in Ancestors(p) : Get(s, q, "vis") # "invisible"

Material(s, p) ==
    LET bound == { q \in Ancestors(p) : Get(s, q, "bind") # None }
    IN IF bound = {} THEN None ELSE Get(s, Closest(bound), "bind")
FullMaterial(s, p) ==
    LET bound == { q \in Ancestors(p) : Get(s, Get(s, q, "rel"), "type") = "Material" }
    IN IF bound = {} THEN Material(s, p) ELSE Get(s, Closest(bound), "rel")

\* What p and its ancestors hold of an inherited primvar, and what a face reads.
Inherited(s, p, f) ==
    LET holding == { q \in Ancestors(p) : Get(s, q, f) \notin {None, Blocked} }
    IN IF holding = {} THEN None ELSE Get(s, Closest(holding), f)
Read(values, face) ==
    IF values = None THEN None ELSE IF face \in DOMAIN values THEN values[face] ELSE values["rest"]

\* Without a material, a mesh has the plain shading of its display color.
Shading(s, p, m) ==
    IF m = None \/ Get(s, m, "type") # "Material" \/ ~IsActive(s, m)
    THEN <<"plain", Inherited(s, p, "color")>>
    ELSE LET shading == Get(s, m, "geo")
         IN IF shading[2] # Reader THEN shading
            ELSE <<shading[1], Read(Inherited(s, p, "pv"), Last(p))>>

\* A prim below a point instancer is drawn at each of its placements.
Instancers(s, p) == { q \in Ancestors(p) : Get(s, q, "type") = "PointInstancer" }
Placements(s, p) ==
    IF Instancers(s, p) = {} THEN {0} ELSE Range(Get(s, Closest(Instancers(s, p)), "pos"))
Drawn(s) ==
    UNION { { <<p, x>> : x \in Placements(s, p) } : p \in
              { q \in Subtree(s, Root) \ {Root} :
                  Get(s, q, "type") \in {"Mesh", "GeomSubset"} /\ Default(s, q) /\ Visible(s, q) } }
Look(s, p, x) == <<Get(s, p, "geo"), World(s, p) + x, Shading(s, p, Material(s, p)),
                   Shading(s, p, FullMaterial(s, p))>>
Appearance(s) ==
    FoldSet(LAMBDA d, looks : looks (+) SetToBag({Look(s, d[1], d[2])}), EmptyBag, Drawn(s))

\* Following references from p never comes back to p.
RECURSIVE Leads(_, _, _)
Leads(s, p, n) ==
    UNION { {Target(s, p, q)} \cup (IF n = 0 THEN {} ELSE Leads(s, Target(s, p, q), n - 1))
              : q \in Arcs(s, p) }
\* The prims that direct arcs of p, through whichever arc they come, lead to.
RECURSIVE DirectTargets(_, _, _)
DirectTargets(s, p, n) ==
    (IF p \in Arcs(s, p) THEN {s.prims[p].ref} ELSE {})
    \cup IF n = 0 THEN {}
         ELSE UNION { DirectTargets(s, Target(s, p, q), n - 1) : q \in Arcs(s, p) }
Acyclic(s) == \A p \in DOMAIN s.prims : p \notin Leads(s, p, MaxArcs)

-----------------------------------------------------------------------------
(* _deletePrims and its relatives, which every scene operation removes by *)

\* SdfCopySpec: paths into the source follow it.
CopySpec(prims, from, to) ==
    LET source == { p \in DOMAIN prims : HasPrefix(p, from) }
        rest == Without(prims, {to})
        Follow(path) == IF path # None /\ HasPrefix(path, from)
                        THEN ReplacePrefix(path, from, to) ELSE path
        Copied(spec) == [spec EXCEPT !.ref = Follow(@), !.bind = Follow(@), !.rel = Follow(@)]
    IN [p \in DOMAIN rest \cup { ReplacePrefix(q, from, to) : q \in source } |->
          IF p \in DOMAIN rest THEN rest[p] ELSE Copied(prims[ReplacePrefix(p, to, from)])]

DeletePrims(s, P, deactivate, deleteOvers) ==
    LET deleted == { p \in P : Local(s, p) /\ (deleteOvers \/ s.prims[p].spec # None) }
        Inactive(prims, p) == SetField(prims, p, "active", FALSE)
        off == IF deactivate
               THEN FoldSet(LAMBDA p, prims : Inactive(prims, p), s.prims, P \ deleted)
               ELSE s.prims
    IN Stage(Without(off, deleted), IF s.default \in P THEN None ELSE s.default)

SetFieldOn(s, P, f, v) ==
    IF P = {} THEN s
    ELSE Edited(s, FoldSet(LAMBDA p, prims : SetField(prims, p, f, v), s.prims, P))

RemoveBy(s, P, method) ==
    CASE method = "delete" -> DeletePrims(s, P, TRUE, FALSE)
      [] method = "deactivate" -> SetFieldOn(s, P, "active", FALSE)
      [] method = "hide" -> SetFieldOn(s, P, "vis", "invisible")
=============================================================================
