----------------------------- MODULE ArrayBounds -----------------------------
(***************************************************************************)
(* The version-gated table of pointer arrays whose length lives in a      *)
(* sibling field (build.rs:649-793).  Each `in_versions(versions,         *)
(* (struct, field), n)` call inserts into the `array_fields` HashMap when *)
(* the major version being generated is listed; a later call for the     *)
(* same key would overwrite an earlier one.  The bound expression `n` is  *)
(* kept as the text of the Rust expression, or Opaque for `None` ("do not *)
(* traverse").                                                             *)
(***************************************************************************)
EXTENDS Naturals, Sequences

Opaque == "<none>"
Absent == "<absent>"

All == {11, 12, 13, 14, 15}
V12 == {12, 13, 14, 15}
V13 == {13, 14, 15}
V14 == {14, 15}

(* One record per in_versions call, in the order of the calls.            *)
InVersionsCalls == <<
    [v |-> All, s |-> "AggState", f |-> "aggcontexts", n |-> "self.numaggs"],
    [v |-> All, s |-> "AppendState", f |-> "appendplans", n |-> "self.as_nplans"],
    [v |-> V14, s |-> "AppendState", f |-> "as_asyncplans", n |-> "self.as_nasyncplans"],
    [v |-> V14, s |-> "AppendState", f |-> "as_asyncrequests",
                n |-> "bms_num_members(self.as_valid_asyncplans)"],
    [v |-> V14, s |-> "AppendState", f |-> "as_asyncresults", n |-> "self.as_nasyncresults"],
    [v |-> All, s |-> "BitmapAndState", f |-> "bitmapplans", n |-> "self.nplans"],
    [v |-> All, s |-> "BitmapOrState", f |-> "bitmapplans", n |-> "self.nplans"],
    [v |-> {11, 12, 13}, s |-> "EState", f |-> "es_result_relations",
                n |-> "self.es_num_result_relations"],
    [v |-> V14, s |-> "EState", f |-> "es_result_relations", n |-> "self.es_range_table_size"],
    [v |-> {12}, s |-> "EState", f |-> "es_range_table_array", n |-> "self.es_range_table_size"],
    [v |-> V12, s |-> "EState", f |-> "es_rowmarks", n |-> "self.es_range_table_size"],
    [v |-> All, s |-> "GatherMergeState", f |-> "gm_slots", n |-> "self.nreaders + 1"],
    [v |-> All, s |-> "GatherMergeState", f |-> "reader", n |-> "self.nreaders"],
    [v |-> All, s |-> "GatherState", f |-> "reader", n |-> "self.nreaders"],
    [v |-> V13, s |-> "IndexOptInfo", f |-> "opclassoptions", n |-> Opaque],
    [v |-> V14, s |-> "MemoizeState", f |-> "param_exprs", n |-> "self.nkeys"],
    [v |-> All, s |-> "MergeAppendState", f |-> "mergeplans", n |-> "self.ms_nplans"],
    [v |-> All, s |-> "MergeAppendState", f |-> "ms_slots", n |-> "self.ms_nplans"],
    [v |-> {11, 12, 13}, s |-> "ModifyTableState", f |-> "mt_plans", n |-> "self.mt_nplans"],
    [v |-> {12, 13}, s |-> "ModifyTableState", f |-> "mt_scans", n |-> "self.mt_nplans"],
    [v |-> All, s |-> "PlannerInfo", f |-> "append_rel_array", n |-> "self.simple_rel_array_size"],
    [v |-> All, s |-> "PlannerInfo", f |-> "join_rel_level", n |-> Opaque],
    [v |-> All, s |-> "PlannerInfo", f |-> "simple_rel_array", n |-> "self.simple_rel_array_size"],
    [v |-> All, s |-> "PlannerInfo", f |-> "simple_rte_array", n |-> "self.simple_rel_array_size"],
    [v |-> All, s |-> "ProjectSetState", f |-> "elems", n |-> "self.nelems"],
    [v |-> All, s |-> "RelOptInfo", f |-> "part_rels", n |-> "self.nparts"],
    [v |-> All, s |-> "RelOptInfo", f |-> "partexprs", n |-> "self.nparts"],
    [v |-> All, s |-> "RelOptInfo", f |-> "nullable_partexprs", n |-> "self.nparts"],
    [v |-> All, s |-> "ResultRelInfo", f |-> "ri_ConstraintExprs",
                n |-> "(*(*(*self.ri_RelationDesc).rd_att).constr).num_check"],
    [v |-> V12, s |-> "ResultRelInfo", f |-> "ri_GeneratedExprs", n |-> Opaque],
    [v |-> All, s |-> "ResultRelInfo", f |-> "ri_IndexRelationInfo", n |-> "self.ri_NumIndices"],
    [v |-> All, s |-> "ResultRelInfo", f |-> "ri_TrigWhenExprs",
                n |-> "(*self.ri_TrigDesc).numtriggers"],
    [v |-> V14, s |-> "ResultRelInfo", f |-> "ri_Slots", n |-> "self.ri_NumSlotsInitialized"],
    [v |-> V14, s |-> "ResultRelInfo", f |-> "ri_PlanSlots", n |-> "self.ri_NumSlotsInitialized"],
    [v |-> All, s |-> "ValuesScanState", f |-> "exprlists", n |-> "self.array_len"],
    [v |-> All, s |-> "ValuesScanState", f |-> "exprstatelists", n |-> "self.array_len"]
>>

(* array_fields.get(&(struct, field)) for one major version: the entry of *)
(* the last in_versions call that listed the version, else Absent.        *)
ArrayFieldsGet(ver, s, f) ==
    LET hits == {k \in DOMAIN InVersionsCalls :
                    /\ ver \in InVersionsCalls[k].v
                    /\ InVersionsCalls[k].s = s
                    /\ InVersionsCalls[k].f = f}
    IN  IF hits = {} THEN Absent
        ELSE InVersionsCalls[CHOOSE k \in hits : \A j \in hits : j <= k].n

=============================================================================
