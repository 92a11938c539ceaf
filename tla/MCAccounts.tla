----------------------------- MODULE MCAccounts -----------------------------
(* Two overlapping requests, a new phone and a registered landowner, two   *)
(* signing keys and two codes for a phone.  Requests are interchangeable.  *)
EXTENDS Accounts, TLC

Symmetry == Permutations(Requests)
=============================================================================
