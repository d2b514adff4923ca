------------------------------ MODULE MCFcInfo ------------------------------
(* Calls with up to two arguments, with 32768 arguments (the first count   *)
(* whose `as i16` is negative) and with 65536 (the first that wraps to 0); *)
(* the callee may probe indices 0 and 1.  The access run keeps to the     *)
(* small counts, where nargs is exact.                                     *)
EXTENDS FcInfo

MCDatums == {"d1", "d2"}
MCArgCounts == {0, 1, 2, 32768, 65536}
MCAccessArgCounts == {0, 1, 2}
MCProbes == 0..1
=============================================================================
