------------------------------ MODULE Traverse ------------------------------
(***************************************************************************)
(* What the code emitted by impl_pg_node does at run time (pgx-pg-sys/    *)
(* build.rs:442-454, 567-647, 795-810, 857-917, 944-1122): a walk over a  *)
(* small heap of nodes, started by `Node::traverse` on node 1, calling    *)
(* the walker once on entry (with a PointerPath) and once on exit of      *)
(* every non-null child.  The recursion of the generated functions is an  *)
(* explicit stack of frames:                                               *)
(*   - "dispatch": Node::traverse, a `match self.type_` that calls the    *)
(*     concrete traverse on a `std::ptr::read` copy of the node;          *)
(*   - "struct": a concrete traverse running its traverse_elements.       *)
(* A location is where a struct lives: `base` is "heap" for the node      *)
(* itself or "copy" for a ptr::read temporary, `origin` the heap node the *)
(* bytes came from, and `path` the embedded field it is in ("" for none). *)
(* Node kinds stand for the shapes the classifier emits: Result embeds a  *)
(* Plan and has a pointer field, Plan has a pointer field, List (the      *)
(* pg13+ contiguous form), RangeTblEntry with the fields of its rtekind,  *)
(* Var (a                                                                  *)
(* dispatched node with no traverse elements), and IntList, a tag with   *)
(* no struct in node_set.                                                  *)
(***************************************************************************)
EXTENDS Naturals, Sequences, SequencesExt, FiniteSets

CONSTANTS
    K,         \* number of heap nodes
    MaxDepth,  \* frames before the thread's stack overflows
    MaxElems,  \* longest List
    Version,   \* PostgreSQL major version the code was generated for
    RteKinds,  \* rtekind values a RangeTblEntry may carry
    MaxRteLinks \* most non-null pointer fields of one RangeTblEntry

Null == 0
Addrs == 1..K
Kinds == {"Result", "Plan", "List", "RangeTblEntry", "Var", "IntList"}

(* The fields rte_traversal walks (build.rs:970-1094), in the order of     *)
(* _outRangeTblEntry: alias and eref, the fields of the rtekind's arm,     *)
(* then securityQuals.  The JOIN arm's extra columns are version-gated     *)
(* (join_fields_traverse, 528-541); RTE_RESULT has an empty arm from pg12  *)
(* (553-561), and any other kind reaches the `_` arm, whose                *)
(* pre_format_elog_string call only stores its arguments, so nothing is    *)
(* walked for it either.                                                   *)
JoinCols == CASE Version \in {11, 12} -> <<>>
              [] Version = 13 -> <<"joinleftcols", "joinrightcols">>
              [] OTHER -> <<"joinleftcols", "joinrightcols", "join_using_alias">>
ColFields == <<"coltypes", "coltypmods", "colcollations">>
RteArm(rk) ==
    CASE rk = "RELATION" -> <<"tablesample">>
      [] rk = "SUBQUERY" -> <<"subquery">>
      [] rk = "JOIN" -> <<"joinaliasvars">> \o JoinCols
      [] rk = "FUNCTION" -> <<"functions">>
      [] rk = "TABLEFUNC" -> <<"tablefunc">>
      [] rk = "VALUES" -> <<"values_lists">> \o ColFields
      [] rk \in {"CTE", "NAMEDTUPLESTORE"} -> ColFields
      [] OTHER -> <<>>
RteFields(rk) == <<"alias", "eref">> \o RteArm(rk) \o <<"securityQuals">>

(* Pointer fields of each kind; an embedded field's pointers are named    *)
(* by their path inside the outer struct.                                  *)
Slots(kind) == CASE kind = "Result" -> {"plan.lefttree", "resconstantqual"}
                 [] kind = "Plan" -> {"lefttree"}
                 [] OTHER -> {}

(* Node kinds a `NodeTag_T_*` arm of Node::traverse dispatches on.        *)
Dispatched == Kinds \ {"IntList"}

(* One heap node: pointers only go to later nodes, so the heap is a DAG. *)
NodesAt(a) ==
    LET tgt == {Null} \cup (a + 1..K) IN
    UNION {[kind : {kd}, vals : [Slots(kd) -> tgt],
            elems : IF kd = "List" THEN UNION {[1..n -> tgt] : n \in 0..MaxElems}
                    ELSE {<<>>},
            rtekind : {"none"}] : kd \in Kinds \ {"RangeTblEntry"}}
    \cup
    UNION {[kind : {"RangeTblEntry"},
            vals : {v \in [Range(RteFields(rk)) -> tgt] :
                      Cardinality({f \in DOMAIN v : v[f] # Null}) <= MaxRteLinks},
            elems : {<<>>}, rtekind : {rk}] : rk \in RteKinds}

(* The heaps of nodes a..K, built address by address.                      *)
RECURSIVE HeapsFrom(_)
HeapsFrom(a) == IF a > K THEN {<<>>}
                ELSE {<<n>> \o h : n \in NodesAt(a), h \in HeapsFrom(a + 1)}

Loc(base, origin, path) == [base |-> base, origin |-> origin, path |-> path]
Sub(loc, f) == IF loc.path = "" THEN f ELSE loc.path \o "." \o f
Frame(op, type, loc) == [op |-> op, type |-> type, loc |-> loc, i |-> 1,
                         j |-> 1, ph |-> "pre"]

VARIABLES
    heap,      \* heap[a]: the node at address a
    stack,     \* activation frames of the generated traverse functions
    pc,        \* "walk" | "done" | "overflow"
    open,      \* items the walker has entered and not yet exited
    lastEnter, \* arguments of the latest walker_fn(Some(path), item) call
    visited    \* heap nodes the walker has been given on entry

vars == <<heap, stack, pc, open, lastEnter, visited>>

NoEnter == [item |-> Loc("heap", 1, ""), anc |-> Loc("heap", 1, ""), access |-> ""]

TypeOK ==
    /\ heap \in [Addrs -> UNION {NodesAt(a) : a \in Addrs}]
    /\ \A k \in DOMAIN stack :
          stack[k].op = "dispatch" \/ stack[k].type \in Dispatched
    /\ Len(stack) <= MaxDepth
    /\ pc \in {"walk", "done", "overflow"}
    /\ lastEnter.item.base \in {"heap", "copy"}
    /\ visited \subseteq Addrs

Init ==
    /\ heap \in HeapsFrom(1)
    /\ stack = <<Frame("dispatch", "", Loc("heap", 1, ""))>>
    /\ pc = "walk"
    /\ open = <<>>
    /\ lastEnter = NoEnter
    /\ visited = {1}

Top == stack[Len(stack)]
Node(loc) == heap[loc.origin]
Val(loc, f) == Node(loc).vals[Sub(loc, f)]

(* Mutant: the loop over the cells stops one short.                      *)
ListLenShort(node) == Len(node.elems) - 1

(* `slice::from_raw_parts(self.elements, self.length as usize)`.          *)
ListLen(node) == Len(node.elems)

(* The traverse_elements of each concrete traverse, in emission order;    *)
(* RangeTblEntry's depend on its rtekind (the outfuncs order).             *)
Program(type, node) ==
    CASE type = "Result" -> <<[k |-> "embed", f |-> "plan", t |-> "Plan"],
                              [k |-> "ptr", f |-> "resconstantqual", t |-> ""]>>
      [] type = "Plan" -> <<[k |-> "ptr", f |-> "lefttree", t |-> ""]>>
      [] type = "List" -> <<[k |-> "list", f |-> "", t |-> ""]>>
      [] type = "RangeTblEntry"
            -> [i \in 1..Len(RteFields(node.rtekind)) |->
                  [k |-> "ptr", f |-> RteFields(node.rtekind)[i], t |-> ""]]
      [] OTHER -> <<>>

Elem == Program(Top.type, Node(Top.loc))[Top.i]

(* The child pointer the current element is at: a field, or the j-th     *)
(* ListCell's ptr_value.                                                   *)
ChildPtr == IF Elem.k = "list" THEN Node(Top.loc).elems[Top.j]
            ELSE Val(Top.loc, Elem.f)

InElement == /\ Top.op = "struct" /\ Top.i <= Len(Program(Top.type, Node(Top.loc)))
             /\ Elem.k = "list" => Top.j <= ListLen(Node(Top.loc))

(* Step to the next element (or next list cell) of the current frame.    *)
Advanced == IF Elem.k = "list" THEN [Top EXCEPT !.j = @ + 1, !.ph = "pre"]
            ELSE [Top EXCEPT !.i = @ + 1, !.ph = "pre"]

Replace(f) == [stack EXCEPT ![Len(stack)] = f]

(* Push a callee frame; beyond MaxDepth the thread's stack overflows.     *)
Call(caller, callee) ==
    IF Len(stack) = MaxDepth
       THEN pc' = "overflow" /\ UNCHANGED stack
       ELSE stack' = Append(Replace(caller), callee) /\ UNCHANGED pc

(* Mutant: no `_ => {}` arm; every tag calls a concrete traverse.        *)
DispatchNodeAnyTag ==
    /\ pc = "walk"
    /\ stack # <<>>
    /\ Top.op = "dispatch"
    /\ stack' = Replace(Frame("struct", Node(Top.loc).kind,
                              Loc("copy", Top.loc.origin, Top.loc.path)))
    /\ UNCHANGED <<heap, pc, open, lastEnter, visited>>

(* Node::traverse: `match self.type_`; a known tag calls the concrete     *)
(* traverse on `&mut ptr::read(self as *mut Node as *mut T)`, any other   *)
(* tag is skipped.                                                         *)
DispatchNode ==
    /\ pc = "walk"
    /\ stack # <<>>
    /\ Top.op = "dispatch"
    /\ LET kd == Node(Top.loc).kind IN
       stack' = IF kd \in Dispatched
                   THEN Replace(Frame("struct", kd, Loc("copy", Top.loc.origin,
                                                        Top.loc.path)))
                   ELSE Front(stack)
    /\ UNCHANGED <<heap, pc, open, lastEnter, visited>>

(* `if !ptr.is_null()` failed: nothing is called for this child.           *)
SkipNull ==
    /\ pc = "walk"
    /\ stack # <<>>
    /\ InElement
    /\ Elem.k \in {"ptr", "list"}
    /\ ChildPtr = Null
    /\ stack' = Replace(Advanced)
    /\ UNCHANGED <<heap, pc, open, lastEnter, visited>>

(* Mutant: the embedded struct walked through Node::traverse, dispatching *)
(* on its tag (the outer struct's tag).                                     *)
EmbedCalleeDispatch(loc, f, t) == Frame("dispatch", "", Loc(loc.base, loc.origin, Sub(loc, f)))

(* Direct embed: `self.#field.traverse(walker_fn)`, the static traverse   *)
(* of the field's type on the field itself (build.rs:897-912).             *)
EmbedCallee(loc, f, t) == Frame("struct", t, Loc(loc.base, loc.origin, Sub(loc, f)))

(* walker_fn(Some(PointerPath { access, ancestor }), item), then the call *)
(* into the child.  The ancestor is `self` of the running traverse (or,   *)
(* for a list, `self as *mut List`); for a pointer the item is the        *)
(* pointer's value, for an embed the field's address within `self`.      *)
EnterChild ==
    /\ pc = "walk"
    /\ stack # <<>>
    /\ InElement
    /\ Top.ph = "pre"
    /\ IF Elem.k = "embed" THEN TRUE ELSE ChildPtr # Null
    /\ LET item == IF Elem.k = "embed"
                      THEN Loc(Top.loc.base, Top.loc.origin, Sub(Top.loc, Elem.f))
                      ELSE Loc("heap", ChildPtr, "")
           callee == IF Elem.k = "embed"
                        THEN EmbedCallee(Top.loc, Elem.f, Elem.t)
                        ELSE Frame("dispatch", "", item)
       IN  /\ open' = Append(open, item)
           /\ lastEnter' = [item |-> item, anc |-> Top.loc,
                            access |-> IF Elem.k = "list" THEN "index" ELSE Elem.f]
           /\ visited' = visited \cup {item.origin}
           /\ Call([Top EXCEPT !.ph = "post"], callee)
    /\ UNCHANGED heap

(* Mutant: the exit call walker_fn(None, item) left out.                  *)
ExitChildSilent ==
    /\ pc = "walk"
    /\ stack # <<>>
    /\ InElement
    /\ Top.ph = "post"
    /\ stack' = Replace(Advanced)
    /\ UNCHANGED <<heap, pc, open, lastEnter, visited>>

(* The child's traverse returned: walker_fn(None, item).                  *)
ExitChild ==
    /\ pc = "walk"
    /\ stack # <<>>
    /\ InElement
    /\ Top.ph = "post"
    /\ open' = Front(open)
    /\ stack' = Replace(Advanced)
    /\ UNCHANGED <<heap, pc, lastEnter, visited>>

(* A list's cells are exhausted: go on with the next element.             *)
EndList ==
    /\ pc = "walk"
    /\ stack # <<>>
    /\ Top.op = "struct"
    /\ Top.i <= Len(Program(Top.type, Node(Top.loc)))
    /\ Elem.k = "list"
    /\ Top.j > ListLen(Node(Top.loc))
    /\ stack' = Replace([Top EXCEPT !.i = @ + 1, !.j = 1])
    /\ UNCHANGED <<heap, pc, open, lastEnter, visited>>

(* A concrete traverse has run all its elements and returns.              *)
Return ==
    /\ pc = "walk"
    /\ stack # <<>>
    /\ Top.op = "struct"
    /\ Top.i > Len(Program(Top.type, Node(Top.loc)))
    /\ stack' = Front(stack)
    /\ UNCHANGED <<heap, pc, open, lastEnter, visited>>

(* The outermost Node::traverse has returned.                             *)
Finish ==
    /\ pc = "walk"
    /\ stack = <<>>
    /\ pc' = "done"
    /\ UNCHANGED <<heap, stack, open, lastEnter, visited>>

Stopped == pc \in {"done", "overflow"} /\ UNCHANGED vars

Next == \/ DispatchNode \/ SkipNull \/ EnterChild \/ ExitChild \/ EndList
        \/ Return \/ Finish \/ Stopped

(* A traversal is one synchronous call on one thread.                    *)
Spec == Init /\ [][Next]_vars /\ WF_vars(Next)

-----------------------------------------------------------------------------
(* The node graph as section 4.5 of the spec describes it: the children   *)
(* of a node are the non-null node pointers among its fields, an embedded *)
(* struct's fields counted as its own, a List's cells, and only the       *)
(* fields of the RangeTblEntry's variant: the fields its rtekind gives it  *)
(* (the payload `vals` carries), whatever their order.  A tag with        *)
(* no NodeFamily member has none.                                          *)
Kids(a) ==
    LET n == heap[a] IN
    (CASE n.kind = "Result" -> {n.vals["plan.lefttree"], n.vals["resconstantqual"]}
       [] n.kind = "Plan" -> {n.vals["lefttree"]}
       [] n.kind = "List" -> {n.elems[j] : j \in DOMAIN n.elems}
       [] n.kind = "RangeTblEntry" -> {n.vals[f] : f \in DOMAIN n.vals}
       [] OTHER -> {}) \ {Null}

RECURSIVE Reach(_)
Reach(a) == {a} \cup UNION {Reach(c) : c \in Kids(a)}

(* A finished walk has handed the walker every node reachable from the    *)
(* root, however the pointers are spread over embedded structs, lists    *)
(* and union variants, and no other node.                                  *)
WalkComplete == pc = "done" => visited = Reach(1)

(* The child a frame waiting in "post" is inside of.                     *)
ItemOf(fr) ==
    LET e == Program(fr.type, Node(fr.loc))[fr.i] IN
    CASE e.k = "embed" -> Loc(fr.loc.base, fr.loc.origin, Sub(fr.loc, e.f))
      [] e.k = "list" -> Loc("heap", Node(fr.loc).elems[fr.j], "")
      [] OTHER -> Loc("heap", Node(fr.loc).vals[Sub(fr.loc, e.f)], "")

(* The walker's callbacks nest: the items it has entered and not exited  *)
(* are exactly the children whose traverse is still running, innermost   *)
(* last, so every exit names the item of the latest open entry.  (Once  *)
(* the stack has overflowed the process is gone and nothing is claimed.) *)
BracketsMatch ==
    pc # "overflow" =>
    open = [n \in 1..Len(SelectSeq(stack, LAMBDA fr : fr.ph = "post")) |->
              ItemOf(SelectSeq(stack, LAMBDA fr : fr.ph = "post")[n])]

(* Every traversal returns: an embedded struct, whose tag is the outer    *)
(* struct's tag, is walked by its own static traverse, so the recursion   *)
(* is bounded by the depth of the node graph (build.rs:908-911).          *)
Terminates == <>(pc = "done")

(* Section 4.5 of the spec: the access descriptor passed on entry carries *)
(* the address of the owning node.  The generated Node::traverse runs the *)
(* concrete traverse on a ptr::read copy, whose `self` is a temporary.   *)
AncestorIsOwner == lastEnter # NoEnter => lastEnter.anc.base = "heap"

=============================================================================
