-------------------------------- MODULE MCSrf --------------------------------
(* Iterators of up to two rows, three scans so that a rescan follows both *)
(* a LIMIT stop and a complete scan.                                       *)
EXTENDS Srf
=============================================================================
