------------------------------ MODULE ResolveTy ------------------------------
(***************************************************************************)
(* pgx-utils/src/sql_entity_graph/pg_extern/resolve_ty.rs: resolve_ty and  *)
(* its helpers, which turn the syn::Type of a #[pg_extern] argument or     *)
(* return into (type, optional, variadic, default, composite sql).         *)
(*                                                                         *)
(* A syn::Type is a record:                                                *)
(*   [k |-> "path", id |-> <ident of the last segment>, arg |-> A]          *)
(*        A is the first generic argument of that segment: a type, or      *)
(*        NoArgs (no angle brackets), EmptyArgs (`<>`), LifetimeArg (a     *)
(*        first argument that is not a type);                              *)
(*   [k |-> "macro", id |-> "composite_type", body |-> B]                   *)
(*        B is the body, "expr" when it parses as a syn::Expr;             *)
(*   [k |-> "macro", id |-> "default", ty |-> T, expr |-> E]                *)
(*        E is the kind of the default expression (handle_default_macro);  *)
(*   [k |-> "macro", id |-> "other"] and [k |-> "ref"] (any other type).    *)
(* Path prefixes (::pgx::) are left out: only the last segment is looked   *)
(* at.  Lifetime anonymisation (line 37-41) changes no field kept here.    *)
(* Results are [ok |-> FALSE] for an Err, else records with ok |-> TRUE.   *)
(***************************************************************************)
EXTENDS Naturals

VARIABLE ty   \* the type handed to resolve_ty

NoArgs      == [k |-> "noargs"]
EmptyArgs   == [k |-> "empty"]
LifetimeArg == [k |-> "lifetime"]
IsType(a)   == a.k \in {"path", "macro", "ref"}

Path(id, a) == [k |-> "path", id |-> id, arg |-> a]
IsPath(t, id)  == t.k = "path" /\ t.id = id
IsMacro(t, id) == t.k = "macro" /\ t.id = id

(* ::pgx::PgHeapTuple<'_, ::pgx::AllocatedByRust>: its first argument is  *)
(* a lifetime.                                                             *)
HeapTuple == Path("PgHeapTuple", LifetimeArg)

Err == [ok |-> FALSE]
NoSql == "none"
NoDefault == "none"
Resolved(t, sql) == [ok |-> TRUE, ty |-> t, sql |-> sql]

(* handle_composite_type_macro (386-389): the body parsed as a syn::Expr. *)
HandleCompositeTypeMacro(mac) ==
    IF mac.body = "expr" THEN [ok |-> TRUE, sql |-> mac.body] ELSE Err

(* A resolved type carrying the composite macro's sql, or its parse error. *)
WithSql(t, r) == IF r.ok THEN Resolved(t, r.sql) ELSE Err

DefaultExprs == {"str", "float", "int", "bool", "neg_int", "neg_other",
                 "type_null", "type_other", "type_nonpath", "path_null",
                 "path_other", "other", "unparsable"}

(* handle_default_macro (391-502) with DefaultMacro::parse (504-517): the  *)
(* body is `ty, expr`; a literal, a negated integer, or a NULL path (also *)
(* in type-ascription form) gives the default's text, anything else Err.  *)
HandleDefaultMacro(mac) ==
    LET value == CASE mac.expr \in {"str", "float", "int", "bool"} -> mac.expr
                   [] mac.expr = "neg_int" -> "-int"
                   [] mac.expr \in {"type_null", "path_null"} -> "NULL"
                   [] OTHER -> NoDefault
    IN IF value = NoDefault THEN Err
       ELSE [ok |-> TRUE, ty |-> mac.ty, default |-> value]

RECURSIVE ResolveOptionInner(_, _), CollectionInner(_, _, _),
          ResolveVecInner(_, _), ResolveVariadicArrayInner(_, _),
          ResolveArrayInner(_, _)

(* resolve_vec_inner, resolve_variadic_array_inner, resolve_array_inner    *)
(* (188-318) are one function with the wrapper `w` spelled out: for        *)
(* w<composite_type!(..)> the type w<PgHeapTuple>; for w<Option<..>> the   *)
(* result of resolve_option_inner(original, ..); else `original`.          *)
CollectionInner(w, original, arguments) ==
    IF ~IsType(arguments) THEN Resolved(original, NoSql)
    ELSE CASE IsMacro(arguments, "default") -> Err
           [] IsMacro(arguments, "composite_type") ->
                 WithSql(Path(w, HeapTuple), HandleCompositeTypeMacro(arguments))
           [] IsPath(arguments, "Option") ->
                 ResolveOptionInner(original, arguments.arg)
           [] OTHER -> Resolved(original, NoSql)

ResolveVecInner(original, arguments) ==
    CollectionInner("Vec", original, arguments)
ResolveVariadicArrayInner(original, arguments) ==
    CollectionInner("VariadicArray", original, arguments)
ResolveArrayInner(original, arguments) ==
    CollectionInner("Array", original, arguments)

(* resolve_option_inner (320-383): Option<composite_type!(..)> becomes     *)
(* Option<PgHeapTuple>; Option<Vec|VariadicArray|Array<..>> is handed on  *)
(* to that wrapper's resolver, with `original`; else `original`.           *)
ResolveOptionInner(original, arguments) ==
    IF ~IsType(arguments) THEN Resolved(original, NoSql)
    ELSE CASE IsMacro(arguments, "composite_type") ->
                 WithSql(Path("Option", HeapTuple),
                         HandleCompositeTypeMacro(arguments))
           [] IsMacro(arguments, "default") -> Err
           [] IsPath(arguments, "Vec") ->
                 ResolveVecInner(original, arguments.arg)
           [] IsPath(arguments, "VariadicArray") ->
                 ResolveVariadicArrayInner(original, arguments.arg)
           [] IsPath(arguments, "Array") ->
                 ResolveArrayInner(original, arguments.arg)
           [] OTHER -> Resolved(original, NoSql)

(* The flags of the resolved type (127-183): Option<..> is optional, and  *)
(* variadic too when its argument is VariadicArray<..>; `Option<>` is an  *)
(* error; VariadicArray<..> is variadic.                                   *)
TypeFlags(t) ==
    CASE IsPath(t, "Option") /\ t.arg = EmptyArgs -> Err
      [] IsPath(t, "Option") ->
            [ok |-> TRUE, optional |-> TRUE,
             variadic |-> IsType(t.arg) /\ IsPath(t.arg, "VariadicArray")]
      [] IsPath(t, "VariadicArray") ->
            [ok |-> TRUE, optional |-> FALSE, variadic |-> TRUE]
      [] OTHER -> [ok |-> TRUE, optional |-> FALSE, variadic |-> FALSE]

(* resolve_ty (21-186): strip default!(..), resolve composite_type!(..)   *)
(* at the top or under a wrapper, then compute the flags.                  *)
ResolveTyOf(t) ==
    LET d == IF IsMacro(t, "default") THEN HandleDefaultMacro(t)
             ELSE [ok |-> TRUE, ty |-> t, default |-> NoDefault]
        u == d.ty
        c == CASE IsMacro(u, "default") -> Err
               [] IsMacro(u, "composite_type") ->
                     WithSql(HeapTuple, HandleCompositeTypeMacro(u))
               [] IsPath(u, "Option") -> ResolveOptionInner(u, u.arg)
               [] IsPath(u, "Vec") -> ResolveVecInner(u, u.arg)
               [] IsPath(u, "VariadicArray") -> ResolveVariadicArrayInner(u, u.arg)
               [] IsPath(u, "Array") -> ResolveArrayInner(u, u.arg)
               [] OTHER -> Resolved(u, NoSql)
        f == TypeFlags(c.ty)
    IN IF ~d.ok \/ ~c.ok \/ ~f.ok THEN Err
       ELSE [ok |-> TRUE, ty |-> c.ty, optional |-> f.optional,
             variadic |-> f.variadic, default |-> d.default, sql |-> c.sql]

-----------------------------------------------------------------------------
(* Reference: the shapes the comments at lines 95-116 and 351-365 name,   *)
(* and what resolving them means: composite_type!(..) replaced by          *)
(* PgHeapTuple where it stands, every wrapper around it kept.              *)

Composite == [k |-> "macro", id |-> "composite_type", body |-> "expr"]
Collections == {"Vec", "VariadicArray", "Array"}
ElemShapes == {Composite, Path("Option", Composite)}
CollShapes == {Path(w, e) : w \in Collections, e \in ElemShapes}
DocumentedShapes ==
    {Composite} \cup CollShapes \cup
    {Path("Option", x) : x \in {Composite} \cup CollShapes}

RECURSIVE SubstComposite(_)
SubstComposite(t) ==
    CASE IsMacro(t, "composite_type") -> HeapTuple
      [] t.k = "path" /\ IsType(t.arg) -> [t EXCEPT !.arg = SubstComposite(t.arg)]
      [] OTHER -> t

Init == ty \in DocumentedShapes

Spec == Init /\ [][UNCHANGED ty]_ty

(* Every documented composite shape resolves to itself with the macro     *)
(* replaced by PgHeapTuple, optional and variadic as that type says, and  *)
(* the macro's sql: the nested resolvers at lines 219, 263, 307 and 354   *)
(* must not drop the wrapper they were handed as `original`.              *)
ResolvesAsDocumented ==
    LET r == ResolveTyOf(ty)
        want == SubstComposite(ty)
    IN /\ r.ok
       /\ r.ty = want
       /\ r.optional = TypeFlags(want).optional
       /\ r.variadic = TypeFlags(want).variadic
       /\ r.sql = "expr"

=============================================================================
