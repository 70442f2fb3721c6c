---------------------------- MODULE KeyStoreCalls ----------------------------
(***************************************************************************)
(* What a caller of KeyStore.java may rely on, over a network.  A call that *)
(* returns has taken effect since it was made; a call that throws may or   *)
(* may not have.  A store or a delete may take effect several times, and   *)
(* again after its call has come back: nobody can take back a request that *)
(* is under way.  A read tells what was there at one moment of the call.   *)
(***************************************************************************)
EXTENDS KeyStore

CONSTANT Callers    \* calls of the key store, one each

VARIABLES
  request,    \* what each caller asks for
  effect,     \* what has come of it in the store
  outcome     \* what the caller knows

callVars == <<pairs, request, effect, outcome>>

NoRequest == [op |-> "none"]

KeyStoreRequests == [op : {"store", "delete", "getPublicKey"}, keyId : KeyIds]

Effects == {"none", "done"} \cup PairStates

KeyPair(c) == pairs[request[c].keyId]

(* What a request does to the pairs and what it finds. *)
Perform(c) ==
  LET q == request[c] IN
  \/ /\ q.op = "store"
     /\ StoreKeyPair(q.keyId)
     /\ effect' = [effect EXCEPT ![c] = "done"]
  \/ /\ q.op = "delete"
     /\ DeleteKeyPairs({q.keyId})
     /\ effect' = [effect EXCEPT ![c] = "done"]
  \/ /\ q.op = "getPublicKey"
     /\ effect' = [effect EXCEPT ![c] = KeyPair(c)]
     /\ UNCHANGED pairs

Fruitful == {"done", "stored"}
-----------------------------------------------------------------------------
CallsInit ==
  /\ pairs = [k \in KeyIds |-> "absent"]
  /\ request = [c \in Callers |-> NoRequest]
  /\ effect = [c \in Callers |-> "none"]
  /\ outcome = [c \in Callers |-> "none"]

Ask(c) ==
  /\ outcome[c] = "none"
  /\ \E q \in KeyStoreRequests : request' = [request EXCEPT ![c] = q]
  /\ outcome' = [outcome EXCEPT ![c] = "open"]
  /\ UNCHANGED <<pairs, effect>>

TakeEffect(c) ==
  /\ outcome[c] # "none"
  /\ outcome[c] # "open" => request[c].op # "getPublicKey"
  /\ Perform(c)
  /\ UNCHANGED <<request, outcome>>

Reply(c) ==
  /\ outcome[c] = "open"
  /\ effect[c] \in Fruitful
  /\ outcome' = [outcome EXCEPT ![c] = "succeeded"]
  /\ UNCHANGED <<pairs, request, effect>>

Throw(c) ==
  /\ outcome[c] = "open"
  /\ outcome' = [outcome EXCEPT ![c] = "failed"]
  /\ UNCHANGED <<pairs, request, effect>>

CallsNext == \E c \in Callers : Ask(c) \/ TakeEffect(c) \/ Reply(c) \/ Throw(c)

CallsSpec == CallsInit /\ [][CallsNext]_callVars
=============================================================================
