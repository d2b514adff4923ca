------------------------------ MODULE ListWalk ------------------------------
(***************************************************************************)
(* The List walks that impl_pg_node emits (build.rs:567-641), on both      *)
(* layouts: pg11/12 (`linked`) keep `length` and a chain of ListCells from *)
(* `head` through `next`; pg13+ keep `length` cells in the array          *)
(* `elements`.  `traverse` calls walk_item on every element of a T_List; *)
(* Display writes "(null)" for a null element and formats `*item`, a copy *)
(* of the Node header, through Node's Display otherwise.  A List struct    *)
(* with another tag (IntList, OidList) holds integers in the same cells.  *)
(*                                                                         *)
(* Cells are numbered; the chain visits them in any order.  An element is *)
(* a node pointer (a model value), NullPtr, or an integer; the integer 0  *)
(* read as a pointer is null, any other integer is no Node at all (UB).   *)
(***************************************************************************)
EXTENDS Naturals, Sequences, TLC

CONSTANTS
    Nodes,     \* node pointers an element may hold
    Ints,      \* integers an IntList element may hold
    NullPtr,
    Shown,     \* what Display writes for a null element: "(null)"
    UB,        \* a Display that reads memory that is no such struct
    Unknown,   \* Node's Display fallback "[unknown type {}]"
    NoDisplayArm, \* node pointers tagged T_List or T_RangeTblEntry
    MaxLen,    \* longest List
    Cases      \* the <<type_, operation>> pairs walked

ASSUME MaxLen \in Nat \ {0} /\ 0 \in Ints /\ NoDisplayArm \subseteq Nodes

VARIABLES
    linked,    \* major_version is 11 or 12
    tag, op,
    length,    \* self.length
    head,      \* pg11/12: self.head
    data,      \* pg11/12: data.ptr_value of every cell
    nxt,       \* pg11/12: next of every cell
    elements,  \* pg13+: ptr_value of elements[i]
    cell,      \* pg11/12: the loop's `cell`
    index,     \* the loop's `index`
    pc,        \* "begin", "loop", "done"
    out        \* walker entry calls, or the elements Display wrote

vars == <<linked, tag, op, length, head, data, nxt, elements, cell, index, pc, out>>

Cells == 1..MaxLen
ValsOf(t) == IF t = "List" THEN Nodes \cup {NullPtr} ELSE Ints

(* A datum read as `ptr_value as *mut Node`. *)
AsPtr(v) == IF v \in Ints THEN (IF v = 0 THEN NullPtr ELSE v) ELSE v

TypeOK ==
    /\ linked \in BOOLEAN /\ <<tag, op>> \in Cases
    /\ length \in 1..MaxLen /\ index \in 0..MaxLen
    /\ head \in Cells /\ cell \in Cells
    /\ data \in [Cells -> ValsOf(tag)] /\ nxt \in [Cells -> Cells \cup {NullPtr}]
    /\ elements \in [0..MaxLen - 1 -> ValsOf(tag)]
    /\ pc \in {"begin", "loop", "done"}
    /\ out \in Seq(((0..MaxLen - 1) \X Nodes) \cup {Shown, UB, Unknown})
    /\ Len(out) <= MaxLen

(* A List as PostgreSQL builds it (NIL is a null List *, so length >= 1):  *)
(* on pg11/12 the k-th element lives in cell perm[k] and next links the    *)
(* cells in that order; on pg13+ it is elements[k - 1].                    *)
Init ==
    \E c \in Cases, lk \in BOOLEAN, n \in 1..MaxLen :
    \E vals \in [1..n -> ValsOf(c[1])], perm \in Permutations(1..n) :
       LET at(x) == CHOOSE k \in 1..n : perm[k] = x
       IN /\ linked = lk /\ tag = c[1] /\ op = c[2] /\ length = n
          /\ head = IF lk THEN perm[1] ELSE 1
          /\ data = [x \in Cells |-> IF lk /\ x <= n THEN vals[at(x)]
                                     ELSE CHOOSE v \in ValsOf(c[1]) : TRUE]
          /\ nxt = [x \in Cells |-> IF lk /\ x <= n /\ at(x) < n
                                    THEN perm[at(x) + 1] ELSE NullPtr]
          /\ elements = [i \in 0..MaxLen - 1 |->
                           IF ~lk /\ i < n THEN vals[i + 1]
                           ELSE CHOOSE v \in ValsOf(c[1]) : TRUE]
          /\ (~lk => perm = [k \in 1..n |-> k])
          /\ cell = 1 /\ index = 0 /\ pc = "begin" /\ out = <<>>

(* Mutant: traverse without the type_ test. *)
TraverseGuardNoTag(len) == linked => len # 0

(* The early return of traverse (build.rs:575, 615): walked only if type_  *)
(* is T_List, and on pg11/12 only if length is not 0.                       *)
TraverseGuard(len) == tag = "List" /\ (linked => len # 0)

(* Mutant: walk_item without the null test. *)
WalkItemNoNullCheck(o, i, item) == Append(o, <<i, item>>)

(* walk_item, walk_field_definition(ListElement(index), item)              *)
(* (build.rs:442-454, 563-566): the walker is entered for a non-null item. *)
WalkItem(o, i, item) ==
    IF AsPtr(item) # NullPtr THEN Append(o, <<i, item>>) ELSE o

(* Node's Display (build.rs:1114-1121) of the copy `*item`: a match on    *)
(* type_ whose arms are node_display_body, built only in the loop that     *)
(* skips Node, List and RangeTblEntry (817-822, 944-953).  A tag with no   *)
(* arm falls to "[unknown type]"; an arm ptr::reads a whole T (952) from   *)
(* the Node-sized temporary that `*item` made (Node is Copy, 1354), i.e.   *)
(* past its end: undefined behaviour.                                      *)
NodeDisplay(n) == IF n \in NoDisplayArm THEN Unknown ELSE UB

(* One element of Display: "(null)" or `*item` formatted (build.rs:597-601, *)
(* 636-640); a non-zero integer read as a pointer is no Node at all.       *)
Render(item) ==
    CASE AsPtr(item) = NullPtr -> Shown
      [] item \in Nodes        -> NodeDisplay(item)
      [] OTHER                 -> UB

(* The element the loop reads: cell->data.ptr_value on pg11/12           *)
(* (build.rs:578, 596), slice[index].ptr_value on pg13+ (619, 630).        *)
Current == IF linked THEN data[cell] ELSE elements[index]

(* The cursor step of pg11/12 (build.rs:580-584, 602-606): follow next     *)
(* unless it is null, in which case stay on the last cell.                  *)
NextCell(c) == IF nxt[c] # NullPtr THEN nxt[c] ELSE c

(* Entry: the early return of traverse, or the start of the loop; Display *)
(* on pg11/12 loops only if length != 0 (build.rs:590).                    *)
Begin ==
    /\ pc = "begin"
    /\ pc' = IF op = "traverse" /\ ~TraverseGuard(length) THEN "done" ELSE "loop"
    /\ cell' = head
    /\ UNCHANGED <<linked, tag, op, length, head, data, nxt, elements, index, out>>

(* One iteration of `for index in 0..self.length` (pg11/12) or of         *)
(* `slice.iter().enumerate()` (pg13+).                                      *)
Step ==
    /\ pc = "loop" /\ index < length
    /\ out' = IF op = "traverse" THEN WalkItem(out, index, Current)
                                 ELSE Append(out, Render(Current))
    /\ cell' = IF linked THEN NextCell(cell) ELSE cell
    /\ index' = index + 1
    /\ UNCHANGED <<linked, tag, op, length, head, data, nxt, elements, pc>>

Exit ==
    /\ pc = "loop" /\ index = length
    /\ pc' = "done"
    /\ UNCHANGED <<linked, tag, op, length, head, data, nxt, elements, cell, index, out>>

Stopped == pc = "done" /\ UNCHANGED vars

Next == Begin \/ Step \/ Exit \/ Stopped

Spec == Init /\ [][Next]_vars /\ WF_vars(Next)

-----------------------------------------------------------------------------

(* The List as a sequence: the chain from head on pg11/12, the first      *)
(* `length` array cells on pg13+.                                          *)
RECURSIVE Chain(_, _)
Chain(c, k) == IF k = 0 THEN <<>> ELSE <<data[c]>> \o Chain(nxt[c], k - 1)

AbsList == IF linked THEN Chain(head, length)
                     ELSE [i \in 1..length |-> elements[i - 1]]

LS == INSTANCE ListSeq WITH list <- AbsList,
                            out <- IF pc = "done" THEN out ELSE <<>>,
                            done <- pc = "done"

(* Both layouts implement the List traversal of the spec: the walker is    *)
(* entered for each non-null element of a T_List in chain order with its  *)
(* position, IntLists are skipped, and the walk ends.  Breaks if traverse  *)
(* loses its type_ or length guard (575, 621), the null test of walk_item, *)
(* or the cursor step of the linked layout (580-584).                      *)
ImplementsListSeq == LS!Spec

=============================================================================
