---------------------------- MODULE MCStructGraph ----------------------------
(* Four structs: enough for a tagged root with a child and a grandchild,  *)
(* a second root, a parent declared after its child, and a struct outside *)
(* every family.                                                           *)
EXTENDS StructGraph

MCStructs == 1..4

=============================================================================
