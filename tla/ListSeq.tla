------------------------------- MODULE ListSeq -------------------------------
(***************************************************************************)
(* What a walk over a PostgreSQL List promises, whatever its layout        *)
(* (spec section 4.4, container-type rules, and the section 8 scenario):   *)
(* traversal calls the walker on entry once per non-null element, in list *)
(* order, with the element's list position; a List whose tag is not       *)
(* T_List (IntList, OidList) is not walked; rendering shows every element *)
(* in order, a null one as "(null)".  The whole walk is one step.          *)
(***************************************************************************)
EXTENDS Naturals, Sequences

CONSTANTS
    NullPtr,   \* a null pointer / the integer 0 read as a pointer
    Shown      \* the rendering of a null element

VARIABLES
    list,   \* the List's elements in order
    tag,    \* its type_
    op,     \* "traverse" or "fmt"
    out,    \* walker entry calls <<position, element>>, or rendered elements
    done

(* The entry calls of a traversal: one per non-null element, in order. *)
Entries(l) ==
    SelectSeq([i \in 1..Len(l) |-> <<i - 1, l[i]>>], LAMBDA e : e[2] # NullPtr)

Rendered(l) == [i \in 1..Len(l) |-> IF l[i] = NullPtr THEN Shown ELSE l[i]]

Walked ==
    CASE op = "traverse" /\ tag = "List" -> Entries(list)
      [] op = "traverse"                  -> <<>>
      [] op = "fmt"                       -> Rendered(list)

Init == out = <<>> /\ done = FALSE

Walk ==
    /\ ~done
    /\ out' = Walked
    /\ done' = TRUE
    /\ UNCHANGED <<list, tag, op>>

Spec == Init /\ [][Walk]_<<list, tag, op, out, done>>
             /\ WF_<<list, tag, op, out, done>>(Walk)
=============================================================================
