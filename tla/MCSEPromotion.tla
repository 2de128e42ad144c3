--------------------------- MODULE MCSEPromotion ---------------------------
EXTENDS SEPromotion, TLC

(* Threads of the pool are interchangeable.                                *)
ThreadSymmetry == Permutations(Threads)
=============================================================================
