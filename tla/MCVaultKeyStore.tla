--------------------------- MODULE MCVaultKeyStore ---------------------------
(* Instances of VaultKeyStore for TLC: the organizations around the keys do not
   matter. *)
EXTENDS VaultKeyStore, TLC

CONSTANTS c1, c2, c3, k1

NoLower == <<>>
=============================================================================
