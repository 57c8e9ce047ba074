----------------------------- MODULE MCSocketTx -----------------------------
(* Instances of SocketTx for TLC. *)
EXTENDS SocketTx, TLC

Symmetry == Permutations(Sender)
=============================================================================
