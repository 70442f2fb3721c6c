-------------------------- MODULE MCPublicKeyCache --------------------------
(* Instances of PublicKeyCache for TLC. *)
EXTENDS PublicKeyCache, TLC
LOCAL INSTANCE Bitwise

CONSTANTS v1, v2, v3

(* All share a slot of the tables of three and of four slots.  One of eight parts
   x and z from the others; in one of six x and z hash to a slot of their own, too,
   but splitting that of three by "hash & 3" leaves them with the others. *)
CachedKeys == {"u", "x", "y", "z"}
CachedHash ==
  [k \in CachedKeys |-> CASE k = "u" -> 0 [] k = "x" -> 4 [] k = "y" -> 8 [] k = "z" -> 12]

BitwiseAnd(a, b) == a & b

Tokens == [Verifications -> (CachedKeys \ {"z"}) \cup {NoKeyId}]
Three == [Verifications -> CachedKeys \ {"z"}]
AtMostTwo == Tokens \ Three
Alike == {[v \in Verifications |-> "u"]}

Loads(capacity, fill, tokens) ==
  {[capacity |-> capacity, fill |-> fill, kids |-> kids] : kids \in tokens}

(* A map that has not been used, for three like tokens or any two; the table of
   three slots that a race leaves, for three tokens of which one makes it grow, or
   for two that both have to; and a full table of four slots, likewise for two. *)
CachedWorkloads ==
  Loads(4, << >>, Alike \cup AtMostTwo)
    \cup Loads(3, <<"u", "x">>, Three) \cup Loads(3, <<"u", "x", "y">>, AtMostTwo)
    \cup Loads(4, <<"u", "x", "y", "z">>, AtMostTwo)

Symmetry == Permutations(Verifications)
=============================================================================
