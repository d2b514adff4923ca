----------------------------- MODULE MCClassify -----------------------------
(* Five node structs in `nodes` order, one of them bespoke.  Three fields *)
(* take any of seven bindgen shapes: as_asyncplans (an array_fields entry *)
(* only from version 14), opclassoptions (an opaque entry from 13) and    *)
(* resconstantqual (no entry), so every branch of the classifier, and two *)
(* or more problems in one generation, occur.                              *)
EXTENDS Classify

MCVersions == All

MCNodesOrder == <<"AppendState", "IndexOptInfo", "RangeTblEntry", "Var",
                  "ResultState">>

MCNodeSet == {"AppendState", "IndexOptInfo", "RangeTblEntry", "Var",
              "ResultState", "PlanState", "Expr", "Node"}

MCLayout == ("AppendState" :> <<"ps", "appendplans", "as_asyncplans">>)
         @@ ("IndexOptInfo" :> <<"type", "opclassoptions">>)
         @@ ("RangeTblEntry" :> <<"type", "subquery">>)
         @@ ("Var" :> <<"xpr", "varno">>)
         @@ ("ResultState" :> <<"ps", "resconstantqual">>)

MCFixedTypes ==
       (<<"AppendState", "ps">> :> TPath("PlanState"))
    @@ (<<"AppendState", "appendplans">> :> TPtr(TPtr(TPath("PlanState"))))
    @@ (<<"IndexOptInfo", "type">> :> TPath("NodeTag"))
    @@ (<<"RangeTblEntry", "type">> :> TPath("NodeTag"))
    @@ (<<"RangeTblEntry", "subquery">> :> TPtr(TPath("Query")))
    @@ (<<"Var", "xpr">> :> TPath("Expr"))
    @@ (<<"Var", "varno">> :> TPath("Index"))
    @@ (<<"ResultState", "ps">> :> TPath("PlanState"))

MCShapes == {TPath("PlanState"), TPath("int"), TPtr(TPath("PlanState")),
             TPtr(TPath("c_void")), TPtr(TPtr(TPath("PlanState"))),
             TArray(TPtr(TPath("PlanState"))),
             TArray(TPtr(TPtr(TPath("PlanState"))))}

=============================================================================
