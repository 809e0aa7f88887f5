------------------------------- MODULE Absent -------------------------------
(* The absent value: null in the code, undefined, no row, no reference.     *)
CONSTANT Null
=============================================================================
