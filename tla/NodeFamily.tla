----------------------------- MODULE NodeFamily -----------------------------
(***************************************************************************)
(* What the node-discovery part of pgx-pg-sys/build.rs promises, stated   *)
(* without any of its mechanism: given the first-field type of every      *)
(* struct bindgen produced, the "node family" is the set of structs whose *)
(* first field is NodeTag (the tagged roots) together with every struct   *)
(* that reaches one of them by following first fields ("a struct whose    *)
(* first member is P is a subclass of P").  A discovery run adds members  *)
(* of that family one at a time, never anything else, and eventually has  *)
(* all of them.                                                           *)
(*                                                                         *)
(* The schema is a variable fixed by Init (TLC cannot enumerate a         *)
(* constant over many values), exactly as the concrete StructGraph module *)
(* chooses it.                                                             *)
(***************************************************************************)
EXTENDS Naturals, FiniteSets

CONSTANTS
    Structs,    \* the structs of one bindgen output, named by item position
    NodeTagTy,  \* the type `NodeTag` (a type alias, not a struct)
    OtherTy     \* any other first field: none at all, a pointer, a scalar

ASSUME Structs \subseteq Nat /\ Structs # {}
ASSUME NodeTagTy \notin Structs /\ OtherTy \notin Structs /\ NodeTagTy # OtherTy

FirstTypes == Structs \cup {NodeTagTy, OtherTy}

VARIABLES first,   \* first[s]: the type named by the first field of s
          found    \* the family members discovered so far

(* The k-th struct up the first-field chain from s (a non-struct ends it). *)
RECURSIVE Up(_, _, _)
Up(f, s, k) == IF k = 0 \/ s \notin Structs THEN s ELSE Up(f, f[s], k - 1)

(* C cannot embed a struct in itself by value, so first-field chains end. *)
Acyclic(f) == \A s \in Structs : Up(f, s, Cardinality(Structs)) \notin Structs

(* Every schema bindgen can produce for this set of structs.               *)
Schemas == {f \in [Structs -> FirstTypes] : Acyclic(f)}

TaggedRoots(f) == {s \in Structs : f[s] = NodeTagTy}

(* Reference definition: the least superset of S closed under "is a      *)
(* child of", computed by saturation rather than by depth-first search.   *)
RECURSIVE Closure(_, _)
Closure(f, S) ==
    LET kids == {c \in Structs : f[c] \in S}
    IN  IF kids \subseteq S THEN S ELSE Closure(f, S \cup kids)

Family(f) == Closure(f, TaggedRoots(f))

Init == /\ first \in Schemas
        /\ found = {}

Discover == \E s \in Family(first) \ found :
               /\ found' = found \cup {s}
               /\ UNCHANGED first

vars == <<first, found>>

Spec == Init /\ [][Discover]_vars /\ WF_vars(Discover)

=============================================================================
