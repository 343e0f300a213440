---------------------------- MODULE RemovePrims ----------------------------
(***************************************************************************)
(* removePrims: removes invisible prims and orphaned overs, each by its own*)
(* method.  An over is orphaned when no prim of its graph of arcs is       *)
(* concrete and nothing concrete connects to it.                           *)
(***************************************************************************)
EXTENDS Stage

\* CompositionNode: whether a prim of the graph around p is authored as a def.
Concrete(s, p) == p \in DOMAIN s.prims /\ s.prims[p].spec = "def"
RECURSIVE Down(_, _, _)
Down(s, p, n) ==
    {p} \cup IF n = 0 THEN {} ELSE UNION { Down(s, t, n - 1) : t \in DirectTargets(s, p, 0) }
Up(s, p) == { q \in DOMAIN s.prims : p \in Down(s, q, MaxArcs) }
ResolveConcrete(s, p) == \E q \in Up(s, p) \cup Down(s, p, MaxArcs) : Concrete(s, q)

Connected(s) ==
    LET considered == { p \in AllPrims(s) : IsDefined(s, p) \/ ResolveConcrete(s, p) }
        targets == { Get(s, p, f) : p \in considered, f \in {"bind", "rel"} } \ {None}
    IN UNION { Down(s, t, MaxArcs) : t \in targets }

OrphanedOvers(s) ==
    { p \in AllPrims(s) : ~IsDefined(s, p) /\ ~ResolveConcrete(s, p) } \ Connected(s)
InvisiblePrims(s) ==
    { p \in AllPrims(s) : IsActive(s, p) /\ Get(s, p, "vis") = "invisible"
                          /\ Get(s, p, "type") \notin {None, "Material"} }

\* The arcs of deleted overs go first, so that none is left dangling.
RemoveArcs(s, P) ==
    LET related == UNION { Up(s, p) \cup Down(s, p, MaxArcs) : p \in P \ Connected(s) }
        orphaned == { q \in related : ~ResolveConcrete(s, q) }
    IN SetFieldOn(s, { q \in orphaned \cap DOMAIN s.prims : s.prims[q].ref \in orphaned }, "ref", None)

RemovePrims(invisibleMethod, orphanedMethod) ==
    LET found(method) == (IF invisibleMethod = method THEN InvisiblePrims(stage) ELSE {})
                         \cup (IF orphanedMethod = method THEN OrphanedOvers(stage) ELSE {})
        deleted == found("delete")
        Kept(P) == { p \in P : Ancestors(p) \cap deleted = {} }
        hidden == SetFieldOn(stage, { p \in Kept(found("hide")) : Get(stage, p, "type") # None },
                             "vis", "invisible")
        deactivated == SetFieldOn(hidden, Kept(found("deactivate")), "active", FALSE)
    IN stage' = DeletePrims(RemoveArcs(deactivated, deleted), deleted, TRUE, TRUE)
=============================================================================
