------------------------ MODULE MCSEControlPlane ------------------------
EXTENDS SEControlPlane, TLC

(* Threads of the pool are interchangeable.                                *)
ThreadSymmetry == Permutations(Threads)
=========================================================================
