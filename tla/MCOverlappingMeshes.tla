--------------------------- MODULE MCOverlappingMeshes ---------------------------
(***************************************************************************)
(* OverlappingMeshes on a few results of the detector: one in which two    *)
(* islands are joined and the slot of the smaller is used again, one with  *)
(* clashes that do not count and a pair found from both sides.             *)
(***************************************************************************)
EXTENDS OverlappingMeshes

JoinAndReuse == [meshes |-> 6, pairs |-> <<<<1, 0>>, <<2, 3>>, <<1, 2>>, <<4, 5>>>>]
Doubtful     == [meshes |-> 3, pairs |-> <<<<0, -1>>, <<1, 1>>, <<0, 2>>, <<2, 0>>>>]

MCClashes == [u \in Users |-> IF u \in Islanders THEN {JoinAndReuse} ELSE {Doubtful}]

==================================================================================
