----------------------------- MODULE MCKeyStore -----------------------------
(***************************************************************************)
(* Symmetry for the runs of KeyStore: what a key is made of is only copied *)
(* and compared.                                                           *)
(***************************************************************************)
EXTENDS KeyStore, TLC

Symmetry == Permutations(Blobs)
=============================================================================
