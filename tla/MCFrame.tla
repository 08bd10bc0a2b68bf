------------------------------ MODULE MCFrame -------------------------------
(* Model-checking instance of Frame.                                       *)
EXTENDS Frame
=============================================================================
