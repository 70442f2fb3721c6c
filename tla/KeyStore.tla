------------------------------ MODULE KeyStore ------------------------------
(***************************************************************************)
(* KeyStore.java as VaultKeyStore.java implements it: a key pair per id.   *)
(* A pair that was deleted reads like one that was never stored, and one   *)
(* stored again by a late request like any other; the model tells them     *)
(* apart so that properties can.                                           *)
(***************************************************************************)
EXTENDS Organization

VARIABLE pairs      \* state of the key pair of each id

PairStates == {"absent", "stored", "deleted", "revived"}

KeyStoreTypeOK == pairs \in [KeyIds -> PairStates]

(* Writing replaces whatever is under the path. *)
StoreKeyPair(keyId) == pairs' = [pairs EXCEPT ![keyId] = "stored"]

(* A store request whose call has ended long ago: what it finds deleted it
   brings back. *)
StoreLate(keyId) ==
  pairs' = [pairs EXCEPT ![keyId] =
              IF @ \in {"deleted", "revived"} THEN "revived" ELSE "stored"]

WasDeleted(keyId) == pairs[keyId] \in {"deleted", "revived"}

(* Deleting a path that holds nothing succeeds too. *)
DeleteKeyPairs(keyIds) ==
  pairs' = [k \in KeyIds |-> IF k \in keyIds THEN "deleted" ELSE pairs[k]]
=============================================================================
