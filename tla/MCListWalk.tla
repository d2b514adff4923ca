----------------------------- MODULE MCListWalk -----------------------------
(* Lists of up to three cells chained in any order, on both layouts.       *)
EXTENDS ListWalk
MCInts == {0, 7}
MCCases == {<<"List", "traverse">>, <<"IntList", "traverse">>}
MCCasesFmt == {<<"IntList", "fmt">>, <<"List", "fmt">>}
=============================================================================
