----------------------------- MODULE IslandDetector -----------------------------
(***************************************************************************)
(* IslandDetector of FindOverlappingMeshesOperation.cpp: nodes that are    *)
(* added in pairs are kept in islands, sets that are joined when a pair    *)
(* connects two of them. The slot of an island that was joined to another  *)
(* one is emptied and used again for the next new island.                  *)
(*                                                                         *)
(* The slots in use are an UnorderedIndexSet (vis/UnorderedIndexSet.h): a  *)
(* set of small indices in two arrays. indices is a permutation of all     *)
(* indices below the capacity whose first size entries are the set; ranks  *)
(* is its inverse. Members are added and removed by moving them across the *)
(* end, and insertUnique hands out whatever lies just behind it. Arrays    *)
(* are functions on 0..capacity-1, far below the width of size_t.          *)
(***************************************************************************)
EXTENDS Naturals, FiniteSets

NoIndices == [indices |-> [i \in {} |-> i], ranks |-> [i \in {} |-> i],
              capacity |-> 0, size |-> 0]

\* The members, in the order of the array.
Member(s, pos) == s.indices[pos]
Members(s) == {s.indices[pos] : pos \in 0..s.size-1}

\* contains()
HasIndex(s, index) == index < s.capacity /\ s.ranks[index] < s.size

\* reserve(): both arrays are continued with their own positions (std::iota).
Continued(array, from, n) == [i \in 0..n-1 |-> IF i < from THEN array[i] ELSE i]
Reserve(s, n) == IF n <= s.capacity THEN s
                 ELSE [indices  |-> Continued(s.indices, s.capacity, n),
                       ranks    |-> Continued(s.ranks, s.capacity, n),
                       capacity |-> n, size |-> s.size]

Resized(s, n) == [indices |-> s.indices, ranks |-> s.ranks, capacity |-> s.capacity, size |-> n]

\* insertUnique() gives the index behind the end, making room for one if there is none.
Room(s)         == IF s.size >= s.capacity THEN Reserve(s, s.size + 1) ELSE s
Unique(s)       == Room(s).indices[s.size]
InsertUnique(s) == Resized(Room(s), s.size + 1)

SwapWithEnd(s, index) ==
  LET rank        == s.ranks[index]
      replacement == s.indices[s.size]
  IN  [indices  |-> [[s.indices EXCEPT ![s.size] = index] EXCEPT ![rank] = replacement],
       ranks    |-> [[s.ranks EXCEPT ![index] = s.size] EXCEPT ![replacement] = rank],
       capacity |-> s.capacity, size |-> s.size]

\* Mutant: the index is moved before the size is taken down, as insert() does it.
M_EraseSwapsFirst(s, index) ==
  IF s.size >= s.capacity \/ ~HasIndex(s, index) THEN s
  ELSE Resized(SwapWithEnd(s, index), s.size - 1)

\* erase(): the end moves down first, so that it is the last member that is swapped.
Erase(s, index) == IF ~HasIndex(s, index) THEN s
                   ELSE SwapWithEnd(Resized(s, s.size - 1), index)

-------------------------------------------------------------------------------
\* islands are the slots, node the slot of every node, used the slots in use.
NoIslands == [islands |-> [i \in {} |-> {}], node |-> [n \in {} |-> 0], used |-> NoIndices]

\* createIsland() and the slot it returns: there are as many slots as the index set has
\* room for.
NewSlot(d) == Unique(d.used)
CreateIsland(d) ==
  LET used == InsertUnique(d.used)
  IN  [islands |-> [i \in 0..used.capacity-1 |-> IF i \in DOMAIN d.islands THEN d.islands[i] ELSE {}],
       node |-> d.node, used |-> used]

\* Nodes are put in the island of a slot.
Put(d, slot, nodes) ==
  [islands |-> [d.islands EXCEPT ![slot] = @ \cup nodes],
   node    |-> [n \in DOMAIN d.node \cup nodes |-> IF n \in nodes THEN slot ELSE d.node[n]],
   used    |-> d.used]

\* Mutant: the slot that is given up keeps its nodes.
M_DropKeepsNodes(d, slot) == [d EXCEPT !.used = Erase(@, slot)]

\* A slot is emptied and given up.
Drop(d, slot) == [islands |-> [d.islands EXCEPT ![slot] = {}],
                  node    |-> d.node,
                  used    |-> Erase(d.used, slot)]

\* The island of one slot is moved into the one of another.
Join(d, into, from) == Drop(Put(d, into, d.islands[from]), from)

\* Two islands become one; the smaller one is moved.
Merge(d, slot0, slot1) ==
  IF Cardinality(d.islands[slot0]) < Cardinality(d.islands[slot1])
  THEN Join(d, slot1, slot0) ELSE Join(d, slot0, slot1)

\* addPair()
AddPair(d, n0, n1) ==
  LET Known(n) == n \in DOMAIN d.node
  IN  CASE ~Known(n0) /\ ~Known(n1) -> Put(CreateIsland(d), NewSlot(d), {n0, n1})
        [] ~Known(n0) /\ Known(n1)  -> Put(d, d.node[n1], {n0})
        [] Known(n0) /\ ~Known(n1)  -> Put(d, d.node[n0], {n1})
        [] OTHER -> IF d.node[n0] = d.node[n1] THEN d ELSE Merge(d, d.node[n0], d.node[n1])

\* getIsland() for every position, getIslandCount().
IslandCount(d) == d.used.size
Island(d, k)   == d.islands[Member(d.used, k)]
Islands(d)     == {Island(d, k) : k \in 0..IslandCount(d)-1}

-------------------------------------------------------------------------------
(* What islands are: the connected components of the pairs. *)

Nodes(pairs) == {p[1] : p \in pairs} \cup {p[2] : p \in pairs}
Closed(S, pairs) == \A p \in pairs : p[1] \in S <=> p[2] \in S
Component(n, pairs) == {m \in Nodes(pairs) :
                          \A S \in SUBSET Nodes(pairs) : Closed(S, pairs) /\ n \in S => m \in S}
Components(pairs) == {Component(n, pairs) : n \in Nodes(pairs)}

=================================================================================
