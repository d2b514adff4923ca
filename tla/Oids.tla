-------------------------------- MODULE Oids --------------------------------
(***************************************************************************)
(* The OID part of generate_bindings (pgx-pg-sys/build.rs:356-439):        *)
(* extract_oids picks the bindgen constants that are builtin OIDs,         *)
(* rewrite_oid_consts retypes exactly those as `Oid` in pg{N}.rs, and      *)
(* format_builtin_oid_impl emits pg{N}_oids.rs: `enum BuiltinOid` and its  *)
(* `from_u32` match.                                                       *)
(*                                                                         *)
(* An item of bindgen's output is a record                                 *)
(*   [k |-> "const", name |-> N, ty |-> T, val |-> V]  (`pub const`), or   *)
(*   [k |-> "other", name |-> N, ty |-> "none", val |-> 0] (anything else). *)
(* A name is split at the suffix is_builtin_oid looks at:                  *)
(*   [id |-> <position in identifier order>, sfx |-> "OID" | "RelationId"  *)
(*    | "Oid" | "other"]; `id` orders names as the BTreeMap orders idents. *)
(* `ty` is the type's token string ("u32", "i32", ...).                    *)
(***************************************************************************)
EXTENDS Naturals, Sequences, SequencesExt

HEAP_HASOID   == [id |-> 90, sfx |-> "OID"]
TemplateDbOid == [id |-> 91, sfx |-> "Oid"]

(* is_builtin_oid (379-389). *)
IsBuiltinOid(name) ==
    \/ name.sfx = "OID" /\ name # HEAP_HASOID
    \/ name.sfx = "RelationId"
    \/ name = TemplateDbOid

(* extract_oids (359-377): the BTreeMap ident -> expr of every `u32`      *)
(* constant whose name is a builtin OID.                                   *)
ExtractOids(items) ==
    LET hit == {i \in Range(items) : i.k = "const" /\ i.ty = "u32"
                                     /\ IsBuiltinOid(i.name)}
    IN [n \in {i.name : i \in hit} |-> (CHOOSE i \in hit : i.name = n).val]

(* Mutant: every `u32` constant is retyped, whether extracted or not.    *)
RewriteOidConstsAnyU32(items, oids) ==
    [j \in DOMAIN items |->
        IF items[j].k = "const" /\ items[j].ty = "u32"
           THEN [items[j] EXCEPT !.ty = "Oid"] ELSE items[j]]

(* rewrite_oid_consts (391-407): a `u32` constant whose ident maps to its *)
(* own expression in `oids` becomes `pub const X : Oid = Oid(expr)`.      *)
RewriteOidConsts(items, oids) ==
    [j \in DOMAIN items |->
        LET i == items[j] IN
        IF i.k = "const" /\ i.ty = "u32" /\ i.name \in DOMAIN oids
           /\ oids[i.name] = i.val
           THEN [i EXCEPT !.ty = "Oid"] ELSE i]

(* The results of from_u32: Ok(BuiltinOid::ident) or Err(NotBuiltinOid). *)
Ok(name) == [ok |-> name]
Invalid == [err |-> "Invalid"]
Ambiguous == [err |-> "Ambiguous"]

(* Mutant: the `0 => Err(NotBuiltinOid::Invalid)` arm left out.          *)
FormatBuiltinOidImplNoZero(oids) ==
    LET idents == SetToSortSeq(DOMAIN oids, LAMBDA a, b : a.id < b.id)
        variants == [j \in DOMAIN idents |-> [name |-> idents[j], val |-> oids[idents[j]]]]
    IN [variants |-> variants,
        arms |-> [j \in DOMAIN variants |->
                    [wild |-> FALSE, pat |-> variants[j].val, res |-> Ok(variants[j].name)]]
                 \o <<[wild |-> TRUE, pat |-> 0, res |-> Ambiguous]>>]

(* format_builtin_oid_impl (409-439): one enum variant `ident = expr` per *)
(* entry in ident order, and the arms of from_u32: 0 is Invalid, then     *)
(* `expr => Ok(ident)` per entry in the same order, then Ambiguous.       *)
FormatBuiltinOidImpl(oids) ==
    LET idents == SetToSortSeq(DOMAIN oids, LAMBDA a, b : a.id < b.id)
        variants == [j \in DOMAIN idents |-> [name |-> idents[j], val |-> oids[idents[j]]]]
    IN [variants |-> variants,
        arms |-> <<[wild |-> FALSE, pat |-> 0, res |-> Invalid]>>
                 \o [j \in DOMAIN variants |->
                       [wild |-> FALSE, pat |-> variants[j].val, res |-> Ok(variants[j].name)]]
                 \o <<[wild |-> TRUE, pat |-> 0, res |-> Ambiguous]>>]

(* `BuiltinOid::from_u32(u)`: the first arm whose pattern matches.        *)
FromU32(impl, u) ==
    impl.arms[SelectInSeq(impl.arms, LAMBDA a : a.wild \/ a.pat = u)].res

(* What generate_bindings (247-250) hands to the two file writes.          *)
Generate(items) ==
    LET oids == ExtractOids(items)
    IN [rs |-> RewriteOidConsts(items, oids), impl |-> FormatBuiltinOidImpl(oids)]

=============================================================================
