------------------------------ MODULE MCVector ------------------------------
(***************************************************************************)
(* Two arrays.  The first kind is set up as the polling thread does        *)
(* (vector_initialize_pow2 with COUNT 1): elements of 3 bytes, at most 3   *)
(* of them; the second with vector_initialize_linear: elements of 2 bytes, *)
(* two at a time, at most 3.  Neither block size is a multiple of the      *)
(* other's element size, and both limits fall between two growth steps.    *)
(***************************************************************************)
EXTENDS Vector

CONSTANTS v1, v2, um, dois

MCArgumentos ==
    {[allocation_increment |-> 0, allocation_size |-> 3,
      allocation_size_max |-> 9, element_size |-> 3],
     [allocation_increment |-> 4, allocation_size |-> 2,
      allocation_size_max |-> 6, element_size |-> 2]}
=============================================================================
