------------------------------- MODULE Option -------------------------------
(* The absent value of an Option, a model value. *)
CONSTANT None
=============================================================================
