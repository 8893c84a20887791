------------------------------ MODULE Nothing ------------------------------
(* What stands where there is nothing: no row, no file, SQL NULL, Python's None. *)
CONSTANT None
=============================================================================
