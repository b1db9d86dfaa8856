----------------------------- MODULE MCAllocator -----------------------------
(* The page allocator on a machine of 12 pages with 4-page bitmap words.    *)
EXTENDS Allocator, Sequences

D(base, pages, conventional) ==
    [base |-> base, pages |-> pages, conventional |-> conventional]

(* Free memory in two descriptors around a reserved one, a descriptor too  *)
(* small for the bitmap before one that has room, and one that reaches     *)
(* above the managed range and stops the scan.                             *)
MCMemoryMaps ==
    { << D(1, 4, TRUE), D(5, 1, FALSE), D(6, 6, TRUE) >>,
      << D(1, 1, TRUE), D(2, 2, FALSE), D(4, 7, TRUE) >>,
      << D(1, 9, TRUE), D(11, 4, TRUE), D(10, 1, TRUE) >> }

MCImages == { {}, {[base |-> 7, pages |-> 1]} }
=============================================================================
