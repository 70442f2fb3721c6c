----------------------------- MODULE ApiKeyLife -----------------------------
(***************************************************************************)
(* The life of an API key, as the consumer of its token and the owner of   *)
(* its organization see it: whether the token can be verified, and which   *)
(* organization lists the key.  A key is made once and listed once, by one *)
(* organization, and it does not come back to a list it has left.  That    *)
(* its pair has been destroyed is not final: a late store may write it     *)
(* again, behind the back of everybody who lists keys.                     *)
(*                                                                         *)
(* The two ends are independent.  A key may be destroyed and still be      *)
(* listed, or have left the list and still be verified.                    *)
(***************************************************************************)
CONSTANTS
  KeyIds,     \* ids of key pairs
  OrgIds      \* ids of organizations

VARIABLES
  life,       \* what has become of the pair of each key
  home        \* the organizations that list it

lifeVars == <<life, home>>

LifeInit ==
  /\ home \in [KeyIds -> {{}} \cup {{id} : id \in OrgIds}]
  /\ life = [k \in KeyIds |-> IF home[k] = {} THEN "unborn" ELSE "alive"]

(* The pair is stored; the key is still to be listed. *)
Make(k) ==
  /\ life[k] = "unborn"
  /\ life' = [life EXCEPT ![k] = "made"]
  /\ UNCHANGED home

Publish(k, id) ==
  /\ life[k] = "made"
  /\ life' = [life EXCEPT ![k] = "alive"]
  /\ home' = [home EXCEPT ![k] = {id}]

(* The key will never be listed. *)
Lose(k) ==
  /\ life[k] = "made"
  /\ life' = [life EXCEPT ![k] = "alive"]
  /\ UNCHANGED home

(* The pair comes into the world when nobody will list its key any more. *)
MakeInVain(k) ==
  /\ life[k] = "unborn"
  /\ life' = [life EXCEPT ![k] = "alive"]
  /\ UNCHANGED home

(* A late store.  The key is listed no more often than before. *)
Revive(k) ==
  /\ life[k] = "destroyed"
  /\ life' = [life EXCEPT ![k] = "revived"]
  /\ UNCHANGED home

(* A pair is destroyed only after the attempt to list its key. *)
Destroy(keys) ==
  /\ \A k \in keys : life[k] \in {"alive", "revived"}
  /\ life' = [k \in KeyIds |-> IF k \in keys THEN "destroyed" ELSE life[k]]
  /\ UNCHANGED home

Unlist(keys) ==
  /\ home' = [k \in KeyIds |-> IF k \in keys THEN {} ELSE home[k]]
  /\ UNCHANGED life

LifeNext ==
  \/ \E k \in KeyIds :
       \/ Make(k) \/ Lose(k) \/ MakeInVain(k) \/ Revive(k)
       \/ \E id \in OrgIds : Publish(k, id)
  \/ \E keys \in SUBSET KeyIds : Destroy(keys) \/ Unlist(keys)

LifeSpec == LifeInit /\ [][LifeNext]_lifeVars
=============================================================================
