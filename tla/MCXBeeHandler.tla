--------------------------- MODULE MCXBeeHandler ---------------------------
(* Instances of XBeeHandler for TLC.                                       *)
EXTENDS XBeeRefinement, TLC

\* The calls of send() are interchangeable; sound for the safety runs only.
Symmetry == Permutations(Exchange)
=============================================================================
