------------------------------- MODULE Absent -------------------------------
(* The value that stands for none: an Option that is None, a NULL, a file  *)
(* or a row that is not there.                                             *)
CONSTANT None
=============================================================================
