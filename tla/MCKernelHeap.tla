---------------------------- MODULE MCKernelHeap ----------------------------
(* KernelHeap with the widths and addresses of the source and a table of   *)
(* three rows.                                                             *)
EXTENDS KernelHeap, TLC

MCSizes    == {0, 20001, 45000, 65535}
MCPlainSizes == {20001, 45000}
MCStrays   == {HeapBase + 1}
MCBootRows == {[offset |-> 0, size |-> 0], [offset |-> 20002, size |-> 4]}
MCSymmetry == Permutations(Owners)
=============================================================================
