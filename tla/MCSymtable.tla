---------------------------- MODULE MCSymtable ------------------------------
(* Model-checking instance of Symtable.                                    *)
EXTENDS Symtable, TLC

\* The identifiers are interchangeable.
NameSymmetry == Permutations(Names)

=============================================================================
