----------------------------- MODULE MCSocketRx -----------------------------
(* Instances of SocketRx for TLC. *)
EXTENDS SocketRx, TLC

Symmetry == Permutations(Client)
=============================================================================
