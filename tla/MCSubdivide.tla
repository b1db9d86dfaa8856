----------------------------- MODULE MCSubdivide -----------------------------
(* Parent and child on a machine of 15 pages with 3-page bitmap words.      *)
EXTENDS Subdivide, Sequences

MCMemoryMaps == { << [base |-> 1, pages |-> 14, conventional |-> TRUE] >> }

MCImages == { {} }
=============================================================================
