------------------------------- MODULE MCHeap -------------------------------
(* Model checking Heap: two chunks of a few units, which mmap can place    *)
(* next to each other in either order, and requests of every kind.         *)
EXTENDS Heap

MCBases == {1, 1 + ChunkUnits}
=============================================================================
