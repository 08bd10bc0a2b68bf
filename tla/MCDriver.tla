----------------------------- MODULE MCDriver -------------------------------
(* Model-checking instance of Driver.                                      *)
EXTENDS Driver
=============================================================================
