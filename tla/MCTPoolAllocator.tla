-------------------------- MODULE MCTPoolAllocator --------------------------
(* TPoolAllocator with pools of no, one and two items.                     *)
EXTENDS TPoolAllocator
MCSizes == 0 .. 2
=============================================================================
