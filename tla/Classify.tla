------------------------------ MODULE Classify ------------------------------
(***************************************************************************)
(* The field classifier of impl_pg_node (pgx-pg-sys/build.rs:812-968):    *)
(* for every node struct, in `nodes` order, and every field in            *)
(* declaration order, decide how the generated `traverse` walks it, and   *)
(* collect the fields whose shape it cannot handle in `ptr_problems`,     *)
(* which fail the whole generation once every struct has been seen.       *)
(*                                                                         *)
(* A field type is the part of syn::Type the classifier looks at: a path  *)
(* (named by its first segment), a raw pointer, or an array.  A child     *)
(* reference records how the field is walked: "bounded" (an array_fields  *)
(* entry gives its length), "fixed" (array of pointers), "ptr" (pointer   *)
(* walked through Node::traverse, i.e. by runtime tag) or "embed" (a     *)
(* struct embedded by value, walked by its own static traverse).          *)
(***************************************************************************)
EXTENDS Naturals, Sequences, FiniteSets, TLC, ArrayBounds

CONSTANTS
    Versions,    \* major versions generated (SUPPORTED_MAJOR_VERSIONS)
    NodesOrder,  \* `nodes`: the node_set values, in iteration order
    NodeSet,     \* node_set keys: every node-family struct name
    Layout,      \* Layout[s]: the field names of struct s, in order
    FixedTypes,  \* types of the fields whose bindgen type is fixed here
    Shapes       \* candidate types for every other field

ASSUME Versions \subseteq All
ASSUME \A k \in DOMAIN NodesOrder : NodesOrder[k] \in NodeSet

TPath(name) == [k |-> "path", name |-> name]
TPtr(e) == [k |-> "ptr", elem |-> e]
TArray(e) == [k |-> "array", elem |-> e]

(* Structs given a bespoke traverse elsewhere (build.rs:817-823).         *)
Bespoke == {"Node", "RangeTblEntry", "List"}

Fields == UNION {{<<NodesOrder[k], f>> : f \in {Layout[NodesOrder[k]][j] :
                    j \in DOMAIN Layout[NodesOrder[k]]}} : k \in DOMAIN NodesOrder}
FreeFields == Fields \ DOMAIN FixedTypes

VARIABLES
    ver,       \* major_version of this generate_bindings thread
    fty,       \* fty[<<s, f>>]: the bindgen type of field f of struct s
    pc,        \* "classify" | "failed" | "emitted"
    si,        \* index into NodesOrder
    fi,        \* index into the fields of NodesOrder[si]
    elements,  \* traverse_elements of every struct classified so far
    problems,  \* ptr_problems, as (struct, field) pairs
    impls      \* structs whose `impl PgNode` has been appended

vars == <<ver, fty, pc, si, fi, elements, problems, impls>>

Ref(kind, f, n) == [kind |-> kind, field |-> f, bound |-> n]

(* The length expressions an in_versions call can carry.                 *)
BoundExprs == {InVersionsCalls[k].n : k \in DOMAIN InVersionsCalls} \ {Opaque}

TypeOK ==
    /\ ver \in Versions
    /\ fty \in [Fields -> Shapes \cup {FixedTypes[x] : x \in DOMAIN FixedTypes}]
    /\ pc \in {"classify", "failed", "emitted"}
    /\ si \in 1..Len(NodesOrder) + 1
    /\ fi \in Nat \ {0}
    /\ \A s \in DOMAIN elements : s \in NodeSet /\ elements[s] \in Seq(
           [kind : {"bounded", "fixed", "ptr", "embed"}, field : STRING,
            bound : BoundExprs \cup {""}])
    /\ problems \subseteq Fields
    /\ impls \subseteq NodeSet

Init ==
    /\ ver \in Versions
    /\ fty \in {FixedTypes @@ g : g \in [FreeFields -> Shapes]}
    /\ pc = "classify"
    /\ si = 1
    /\ fi = 1
    /\ elements = [s \in {} |-> <<>>]
    /\ problems = {}
    /\ impls = {}

Cur == NodesOrder[si]

(* `continue` for fields that are not populated or hold no node pointers. *)
Denied(s, f) == <<s, f>> \in {<<"ModifyTableState", "mt_arowmarks">>,
                              <<"ModifyTableState", "mt_per_subplan_tupconv_maps">>}
                \/ f = "xpr"

InNodeSet(t) == t.k = "path" /\ t.name \in NodeSet

(* Mutant: a field with no array_fields entry taken for a bounded one.   *)
WalkOfAbsentAsEntry(s, f, ty) ==
    LET n == ArrayFieldsGet(ver, s, f) IN
    IF n # Opaque THEN <<Ref("bounded", f, n)>>
    ELSE <<>>

(* Mutant: an opaque (`None`) array_fields entry walked as if bounded.   *)
WalkOfOpaqueWalked(s, f, ty) ==
    LET n == ArrayFieldsGet(ver, s, f) IN
    IF n # Absent THEN <<Ref("bounded", f, n)>>
    ELSE IF Denied(s, f) THEN <<>>
    ELSE CASE ty.k = "array" /\ ty.elem.k = "ptr" /\ InNodeSet(ty.elem.elem)
                -> <<Ref("fixed", f, "")>>
           [] ty.k = "ptr" /\ InNodeSet(ty.elem) -> <<Ref("ptr", f, "")>>
           [] ty.k = "path" /\ InNodeSet(ty) -> <<Ref("embed", f, "")>>
           [] OTHER -> <<>>

(* The traverse elements one field contributes (build.rs:829-917).        *)
WalkOf(s, f, ty) ==
    LET n == ArrayFieldsGet(ver, s, f) IN
    IF n # Absent THEN (IF n # Opaque THEN <<Ref("bounded", f, n)>> ELSE <<>>)
    ELSE IF Denied(s, f) THEN <<>>
    ELSE CASE ty.k = "array" /\ ty.elem.k = "ptr" /\ InNodeSet(ty.elem.elem)
                -> <<Ref("fixed", f, "")>>
           [] ty.k = "ptr" /\ InNodeSet(ty.elem) -> <<Ref("ptr", f, "")>>
           [] ty.k = "path" /\ InNodeSet(ty) -> <<Ref("embed", f, "")>>
           [] OTHER -> <<>>

(* The shapes pushed onto ptr_problems: an array of pointers, or a        *)
(* pointer, whose pointee is not a path.                                   *)
IsProblem(s, f, ty) ==
    /\ ArrayFieldsGet(ver, s, f) = Absent
    /\ ~Denied(s, f)
    /\ \/ ty.k = "array" /\ ty.elem.k = "ptr" /\ ty.elem.elem.k # "path"
       \/ ty.k = "ptr" /\ ty.elem.k # "path"

(* "Node" | "RangeTblEntry" | "List": use the special implementation.     *)
SkipBespoke ==
    /\ pc = "classify"
    /\ si <= Len(NodesOrder)
    /\ Cur \in Bespoke
    /\ si' = si + 1
    /\ UNCHANGED <<ver, fty, pc, fi, elements, problems, impls>>

(* Mutant: panic on the first unclassifiable field instead of batching.  *)
ClassifyFieldFailFast ==
    /\ pc = "classify"
    /\ si <= Len(NodesOrder)
    /\ Cur \notin Bespoke
    /\ fi <= Len(Layout[Cur])
    /\ LET f == Layout[Cur][fi]
           ty == fty[<<Cur, f>>]
       IN  /\ elements' = (Cur :> (IF Cur \in DOMAIN elements
                                      THEN elements[Cur] ELSE <<>>)
                                   \o WalkOf(Cur, f, ty)) @@ elements
           /\ IF IsProblem(Cur, f, ty)
                 THEN problems' = problems \cup {<<Cur, f>>} /\ pc' = "failed"
                 ELSE UNCHANGED <<problems, pc>>
    /\ fi' = fi + 1
    /\ UNCHANGED <<ver, fty, si, impls>>

(* One iteration of `for field in node_struct.struct_.fields.iter()`.      *)
ClassifyField ==
    /\ pc = "classify"
    /\ si <= Len(NodesOrder)
    /\ Cur \notin Bespoke
    /\ fi <= Len(Layout[Cur])
    /\ LET f == Layout[Cur][fi]
           ty == fty[<<Cur, f>>]
       IN  /\ elements' = (Cur :> (IF Cur \in DOMAIN elements
                                      THEN elements[Cur] ELSE <<>>)
                                   \o WalkOf(Cur, f, ty)) @@ elements
           /\ problems' = IF IsProblem(Cur, f, ty)
                             THEN problems \cup {<<Cur, f>>} ELSE problems
    /\ fi' = fi + 1
    /\ UNCHANGED <<ver, fty, pc, si, impls>>

(* All fields seen: append `impl PgNode for #struct_name` with the        *)
(* traverse built from traverse_elements (build.rs:919-964).              *)
EmitImpl ==
    /\ pc = "classify"
    /\ si <= Len(NodesOrder)
    /\ Cur \notin Bespoke
    /\ fi > Len(Layout[Cur])
    /\ elements' = IF Cur \in DOMAIN elements THEN elements
                   ELSE (Cur :> <<>>) @@ elements
    /\ impls' = impls \cup {Cur}
    /\ si' = si + 1
    /\ fi' = 1
    /\ UNCHANGED <<ver, fty, pc, problems>>

(* After the loop: `if !ptr_problems.is_empty() { panic!(..) }`.           *)
Finish ==
    /\ pc = "classify"
    /\ si > Len(NodesOrder)
    /\ pc' = IF problems # {} THEN "failed" ELSE "emitted"
    /\ UNCHANGED <<ver, fty, si, fi, elements, problems, impls>>

Terminated == pc \in {"failed", "emitted"} /\ UNCHANGED vars

Next == SkipBespoke \/ ClassifyField \/ EmitImpl \/ Finish \/ Terminated

Spec == Init /\ [][Next]_vars /\ WF_vars(Next)

-----------------------------------------------------------------------------
(* Section 4.3 of the spec, read as a definition: the fields of one       *)
(* non-bespoke node struct that cannot be classified, and the traversal   *)
(* program of that struct.                                                 *)
SpecUnclassifiable ==
    {x \in Fields : /\ x[1] \notin Bespoke
                    /\ ArrayFieldsGet(ver, x[1], x[2]) = Absent
                    /\ ~Denied(x[1], x[2])
                    /\ LET ty == fty[x] IN
                         \/ ty.k = "ptr" /\ ty.elem.k # "path"
                         \/ ty.k = "array" /\ ty.elem.k = "ptr"
                                           /\ ty.elem.elem.k # "path"}

SpecRef(s, f) ==
    LET ty == fty[<<s, f>>]
        n == ArrayFieldsGet(ver, s, f)
    IN  CASE Denied(s, f) -> <<>>
          [] n = Opaque -> <<>>
          [] n # Absent -> <<Ref("bounded", f, n)>>
          [] ty.k = "array" /\ ty.elem.k = "ptr" /\ InNodeSet(ty.elem.elem)
                -> <<Ref("fixed", f, "")>>
          [] ty.k = "ptr" /\ InNodeSet(ty.elem) -> <<Ref("ptr", f, "")>>
          [] ty.k = "path" /\ InNodeSet(ty) -> <<Ref("embed", f, "")>>
          [] OTHER -> <<>>

RECURSIVE SpecProgram(_, _)
SpecProgram(s, fs) == IF fs = <<>> THEN <<>>
                      ELSE SpecRef(s, Head(fs)) \o SpecProgram(s, Tail(fs))

(* Failures are reported as one batch: a generation that fails names      *)
(* every unclassifiable field of every node struct, and one that emits    *)
(* has none.  Stopping at the first bad field, or treating an opaque      *)
(* (`None`) array_fields entry as unclassifiable, breaks it.               *)
ProblemsBatched ==
    /\ pc = "failed" => problems = SpecUnclassifiable
    /\ pc = "emitted" => SpecUnclassifiable = {}

(* When generation succeeds, each struct's traverse walks exactly the     *)
(* fields section 4.3 selects, in declaration order, with the kind and    *)
(* bound the version-gated tables of section 4.4 give for this version.  *)
TraversalProgramPerSpec ==
    pc = "emitted" =>
        \A k \in DOMAIN NodesOrder :
            LET s == NodesOrder[k] IN
            s \notin Bespoke => elements[s] = SpecProgram(s, Layout[s])

=============================================================================
