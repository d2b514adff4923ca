--------------------------- MODULE MCBuildWorkers ---------------------------
(* Two versions in release mode: enough for one thread to fail while the  *)
(* other writes, for an Err joined before a panic, and for the shim loop  *)
(* to build one shim and fail on the next.                                 *)
EXTENDS BuildWorkers

MCNR == 2

(* bindgen output of a pg11 and a pg15 header, reduced to the items that  *)
(* extract_oids tells apart: INT4OID, TEXTOID (pg15 only), TypeRelationId, *)
(* TemplateDbOid, HEAP_HASOID (pg11 only: a flag, not an OID), the `u32`  *)
(* NAMEDATALEN, an `i32` constant whose name ends in OID, and a function. *)
Const(id, sfx, ty, val) == [k |-> "const", name |-> [id |-> id, sfx |-> sfx],
                            ty |-> ty, val |-> val]
Pg11Items == <<Const(1, "OID", "u32", 23), Const(90, "OID", "u32", 8),
               Const(2, "RelationId", "u32", 1247), Const(3, "other", "u32", 64),
               Const(4, "OID", "i32", 5), Const(91, "Oid", "u32", 1),
               [k |-> "other", name |-> [id |-> 5, sfx |-> "other"], ty |-> "none", val |-> 0]>>
Pg15Items == <<Const(1, "OID", "u32", 23), Const(6, "OID", "u32", 25),
               Const(2, "RelationId", "u32", 1247), Const(3, "other", "u32", 64),
               Const(91, "Oid", "u32", 1)>>
MCBindings == <<Pg11Items, Pg15Items>>

=============================================================================
