---------------------------- MODULE MCBufferPool ----------------------------
(* Instances of BufferPool for TLC: pages and threads are interchangeable. *)
EXTENDS BufferPool, TLC

CONSTANTS t1, t2, n1, n2, n3

MCThreads == {t1, t2}
ThreePages == {n1, n2, n3}
Symmetry == Permutations(MCThreads) \cup Permutations(ThreePages)
=============================================================================
