---------------------------- MODULE MCTempfile ------------------------------
(* Model-checking instance of Tempfile: the objects, paths and signals are   *)
(* model values of the configurations.                                      *)
EXTENDS Tempfile
=============================================================================
