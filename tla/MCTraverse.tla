---------------------------- MODULE MCTraverse ----------------------------
(* Three heap nodes of any kind, pointing forward: a Result whose embedded *)
(* Plan and own field point on, lists of up to two cells with null cells, *)
(* RangeTblEntries of the pg13 JOIN arm (the longest) and the empty      *)
(* RESULT arm with one live field each, shared children and unknown tags. *)
EXTENDS Traverse

MCK == 3
MCMaxDepth == 8
MCMaxElems == 2
MCVersion == 13
MCRteKinds == {"JOIN", "RESULT"}
MCMaxRteLinks == 1

=============================================================================
