----------------------------- MODULE StructGraph -----------------------------
(***************************************************************************)
(* Node discovery in pgx-pg-sys/build.rs:                                  *)
(*   - StructGraph::from: pass 1 registers every struct in `name_tab`,     *)
(*     pass 2 links each struct to the struct named by its first field     *)
(*     (parent + reverse child edge);                                      *)
(*   - impl_pg_node: collect `root_node_structs`, the structs whose first  *)
(*     field's type is `NodeTag`;                                          *)
(*   - dfs_find_nodes: recursive DFS from each root over child edges,      *)
(*     inserting into `node_set`, skipping children already present.       *)
(* The recursion is modelled by an explicit call stack of frames           *)
(* [node, off], `off` being the StructDescriptorChildren iterator offset.  *)
(* A struct is named by its item position; bindgen emits C structs, whose  *)
(* single namespace makes the names unique (build.rs:1226-1229).           *)
(***************************************************************************)
EXTENDS Naturals, Sequences, SequencesExt, FiniteSets

CONSTANTS Structs, NodeTagTy, OtherTy

None == 0

ASSUME Structs = 1..Cardinality(Structs) /\ None \notin Structs

VARIABLES
    first,      \* first-field type of every struct (the bindgen items)
    pc,         \* "pass1" | "pass2" | "roots" | "dfs" | "done"
    i,          \* loop index of the two passes over `items`
    registered, \* name_tab: the struct names registered so far
    parent,     \* descriptors[s].parent
    children,   \* descriptors[s].children, in push order
    roots,      \* root_node_structs
    rootIdx,    \* position of the root loop in impl_pg_node
    stack,      \* dfs_find_nodes activation frames
    node_set    \* the names inserted into node_set

vars == <<first, pc, i, registered, parent, children, roots, rootIdx,
          stack, node_set>>

NF == INSTANCE NodeFamily WITH found <- node_set

N == Cardinality(Structs)
ItemOrder == [k \in 1..N |-> k]
Frame == [node : Structs, off : 0..N]
OnStack == {stack[k].node : k \in DOMAIN stack}

TypeOK ==
    /\ first \in [Structs -> NF!FirstTypes]
    /\ pc \in {"pass1", "pass2", "roots", "dfs", "done"}
    /\ i \in Structs
    /\ registered \subseteq Structs
    /\ parent \in [Structs -> Structs \cup {None}]
    /\ children \in [Structs -> Seq(Structs)]
    /\ roots \in Seq(Structs)
    /\ rootIdx \in 1..N + 1
    /\ stack \in Seq(Frame)
    /\ node_set \subseteq Structs

Init ==
    /\ first \in NF!Schemas
    /\ pc = "pass1"
    /\ i = 1
    /\ registered = {}
    /\ parent = [s \in Structs |-> None]
    /\ children = [s \in Structs |-> <<>>]
    /\ roots = <<>>
    /\ rootIdx = 1
    /\ stack = <<>>
    /\ node_set = {}

(* Advance a pass over `items`, moving to `next` after the last item.     *)
Advance(next) == IF i = N THEN pc' = next /\ i' = 1
                          ELSE i' = i + 1 /\ UNCHANGED pc

(* Pass 1: descriptors.push(..); name_tab.insert(name, offset).           *)
Register ==
    /\ pc = "pass1"
    /\ registered' = registered \cup {i}
    /\ Advance("pass2")
    /\ UNCHANGED <<first, parent, children, roots, rootIdx, stack, node_set>>

(* Mutant: one pass that links while it registers, so a first field     *)
(* naming a struct declared later in `items` finds nothing in name_tab.   *)
LinkWhileRegistering ==
    /\ pc = "pass2"
    /\ IF first[i] \in registered /\ first[i] < i
          THEN /\ parent' = [parent EXCEPT ![i] = first[i]]
               /\ children' = [children EXCEPT ![first[i]] = Append(@, i)]
          ELSE UNCHANGED <<parent, children>>
    /\ Advance("roots")
    /\ UNCHANGED <<first, registered, roots, rootIdx, stack, node_set>>

(* Mutant: the name_tab lookup dropped; any first-field type is linked.  *)
LinkUnchecked ==
    /\ pc = "pass2"
    /\ parent' = [parent EXCEPT ![i] = first[i]]
    /\ children' = IF first[i] \in Structs
                      THEN [children EXCEPT ![first[i]] = Append(@, i)]
                      ELSE children
    /\ Advance("roots")
    /\ UNCHANGED <<first, registered, roots, rootIdx, stack, node_set>>

(* Pass 2: if the first field is a path whose last segment is in          *)
(* name_tab, establish the 2-way link; otherwise `continue`.              *)
Link ==
    /\ pc = "pass2"
    /\ IF first[i] \in registered
          THEN /\ parent' = [parent EXCEPT ![i] = first[i]]
               /\ children' = [children EXCEPT ![first[i]] = Append(@, i)]
          ELSE UNCHANGED <<parent, children>>
    /\ Advance("roots")
    /\ UNCHANGED <<first, registered, roots, rootIdx, stack, node_set>>

(* Mutant: any struct without a parent taken for a root.                  *)
FindRootsParentless ==
    /\ pc = "roots"
    /\ roots' = SelectSeq(ItemOrder, LAMBDA s : parent[s] = None)
    /\ pc' = "dfs"
    /\ UNCHANGED <<first, i, registered, parent, children, rootIdx, stack,
                   node_set>>

(* impl_pg_node: every descriptor whose first field's type is `NodeTag`.  *)
FindRoots ==
    /\ pc = "roots"
    /\ roots' = SelectSeq(ItemOrder, LAMBDA s : first[s] = NodeTagTy)
    /\ pc' = "dfs"
    /\ UNCHANGED <<first, i, registered, parent, children, rootIdx, stack,
                   node_set>>

(* `for root in root_node_structs { dfs_find_nodes(root, ..) }`: the call *)
(* inserts the root unconditionally.                                       *)
CallRoot ==
    /\ pc = "dfs"
    /\ stack = <<>>
    /\ rootIdx <= Len(roots)
    /\ node_set' = node_set \cup {roots[rootIdx]}
    /\ stack' = <<[node |-> roots[rootIdx], off |-> 0]>>
    /\ rootIdx' = rootIdx + 1
    /\ UNCHANGED <<first, pc, i, registered, parent, children, roots>>

(* One turn of `for child in node.children(graph)`: skip a child already  *)
(* in node_set, otherwise recurse into it (which first inserts it).       *)
NextChild ==
    /\ pc = "dfs"
    /\ stack # <<>>
    /\ LET top == stack[Len(stack)]
           kids == children[top.node]
       IN  /\ top.off < Len(kids)
           /\ LET c == kids[top.off + 1]
                  resumed == [stack EXCEPT ![Len(stack)].off = top.off + 1]
              IN  IF c \in node_set
                     THEN /\ stack' = resumed
                          /\ UNCHANGED node_set
                     ELSE /\ stack' = Append(resumed, [node |-> c, off |-> 0])
                          /\ node_set' = node_set \cup {c}
    /\ UNCHANGED <<first, pc, i, registered, parent, children, roots, rootIdx>>

(* Mutant: the iterator bound is off by one and drops the last child.    *)
ReturnOneEarly ==
    /\ pc = "dfs"
    /\ stack # <<>>
    /\ stack[Len(stack)].off >= Len(children[stack[Len(stack)].node]) - 1
    /\ stack' = Front(stack)
    /\ UNCHANGED <<first, pc, i, registered, parent, children, roots,
                   rootIdx, node_set>>

(* The children iterator returned None: dfs_find_nodes returns.           *)
Return ==
    /\ pc = "dfs"
    /\ stack # <<>>
    /\ stack[Len(stack)].off >= Len(children[stack[Len(stack)].node])
    /\ stack' = Front(stack)
    /\ UNCHANGED <<first, pc, i, registered, parent, children, roots,
                   rootIdx, node_set>>

(* The root loop is over; impl_pg_node goes on to classify `nodes`.       *)
FinishDfs ==
    /\ pc = "dfs"
    /\ stack = <<>>
    /\ rootIdx > Len(roots)
    /\ pc' = "done"
    /\ UNCHANGED <<first, i, registered, parent, children, roots, rootIdx,
                   stack, node_set>>

(* Discovery has finished; the build script moves on. *)
Done == pc = "done" /\ UNCHANGED vars

Next == \/ Register \/ Link \/ FindRoots
        \/ CallRoot \/ NextChild \/ Return \/ FinishDfs
        \/ Done

(* build.rs is one sequential thread per PostgreSQL version.              *)
Spec == Init /\ [][Next]_vars /\ WF_vars(Next)

-----------------------------------------------------------------------------
(* Once pass 2 is over, the subtype graph says exactly what the schema    *)
(* says: s has parent p iff the first field of s names the struct p, s    *)
(* is listed once among p's children iff its parent is p, and children    *)
(* are listed in item order.  A struct whose parent is declared after it  *)
(* is the case a single-pass build (name_tab filled while linking) gets   *)
(* wrong.                                                                  *)
SubtypeGraphFaithful ==
    pc \in {"roots", "dfs", "done"} =>
        \A s \in Structs :
            /\ parent[s] = IF first[s] \in Structs THEN first[s] ELSE None
            /\ children[s] = SelectSeq(ItemOrder, LAMBDA c : parent[c] = s)

(* DFS progress: every child that some activation of dfs_find_nodes has   *)
(* already iterated past is in node_set, and a struct whose activation    *)
(* has returned has all its children in node_set.  An iterator that stops *)
(* one child early, or a `return` where the code `continue`s, breaks it.  *)
IteratedChildrenVisited ==
    /\ \A k \in DOMAIN stack :
          ToSet(SubSeq(children[stack[k].node], 1, stack[k].off)) \subseteq node_set
    /\ \A n \in node_set \ OnStack : ToSet(children[n]) \subseteq node_set

(* The DFS implements the node-family specification: node_set only ever  *)
(* gains a tagged root or a descendant of one, and eventually holds all   *)
(* of them (the Testable Properties of the spec, section 8).              *)
ImplementsNodeFamily == NF!Spec

=============================================================================
