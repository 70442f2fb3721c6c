---------------------------- MODULE VaultKeyStore ----------------------------
(***************************************************************************)
(* VaultKeyStore.java: every call of the key store is a series of tries,   *)
(* each one an HTTP request to Vault.  A try that fails is followed by     *)
(* another one, up to a number; a try that the client has given up may     *)
(* still reach the server, at any time.                                    *)
(*                                                                         *)
(* The calls are those the operations make: a pair is stored once, under a *)
(* fresh id (AddOrganizationApiKey); it is deleted only after the store    *)
(* has returned, for only then is the key listed (DeleteOrganizationApiKey,*)
(* DeleteOrganization); it may be read at any time (getPublicKey).         *)
(***************************************************************************)
EXTENDS KeyStore, Naturals

CONSTANTS
  Callers,      \* calls of the key store
  MaxRetries    \* vault.max.retries

ASSUME MaxRetriesAssumption == MaxRetries \in Nat

VARIABLES
  pc,         \* where the caller is
  request,    \* what it asks for
  retries,    \* tries it has followed by another one
  strays,     \* the tries given up whose requests may still reach Vault
  effect,     \* what the server has last made of the call
  late        \* history: the ids written by a stray since they were deleted

vaultVars == <<pairs, pc, request, retries, strays, effect, late>>

InFlight == {"sent", "served"}

Returned == {"succeeded", "failed"}

(* What the caller knows: of the tries nothing. *)
Outcome(c) == IF pc[c] = "idle" THEN "none"
              ELSE IF pc[c] \in InFlight THEN "open" ELSE pc[c]

Contract == INSTANCE KeyStoreCalls WITH outcome <- [c \in Callers |-> Outcome(c)]

Makes(c, op, k) == request[c] = [op |-> op, keyId |-> k]

IsPublished(k) == \E c \in Callers : Makes(c, "store", k) /\ pc[c] = "succeeded"

IsBeingDeleted(k) == \E c \in Callers : Makes(c, "delete", k)
-----------------------------------------------------------------------------
Init ==
  /\ pairs = [k \in KeyIds |-> "absent"]
  /\ pc = [c \in Callers |-> "idle"]
  /\ request = [c \in Callers |-> Contract!NoRequest]
  /\ retries = [c \in Callers |-> 0]
  /\ strays = [c \in Callers |-> {}]
  /\ effect = [c \in Callers |-> "none"]
  /\ late = {}

Invoke(c, op, k) ==
  /\ pc[c] = "idle"
  /\ pc' = [pc EXCEPT ![c] = "sent"]
  /\ request' = [request EXCEPT ![c] = [op |-> op, keyId |-> k]]
  /\ UNCHANGED <<pairs, retries, strays, effect, late>>

Store(c, k) ==
  /\ \A d \in Callers : ~Makes(d, "store", k)
  /\ Invoke(c, "store", k)

Delete(c, k) == IsPublished(k) /\ Invoke(c, "delete", k)

GetPublicKey(c, k) == Invoke(c, "getPublicKey", k)

(* The server performs the request of the try under way. *)
Serve(c) ==
  /\ pc[c] = "sent"
  /\ Contract!Perform(c)
  /\ pc' = [pc EXCEPT ![c] = "served"]
  /\ late' = IF request[c].op = "delete" THEN late \ {request[c].keyId} ELSE late
  /\ UNCHANGED <<request, retries, strays>>

(* Return that does not look at what it decodes. *)
ReturnAnything(c) ==
  /\ pc[c] = "served"
  /\ pc' = [pc EXCEPT ![c] = "succeeded"]
  /\ UNCHANGED <<pairs, request, retries, strays, effect, late>>

(* The answer arrives.  A path that holds nothing has no public key to decode. *)
Return(c) ==
  /\ pc[c] = "served"
  /\ pc' = [pc EXCEPT ![c] =
              IF effect[c] \in Contract!Fruitful THEN "succeeded" ELSE "failed"]
  /\ UNCHANGED <<pairs, request, retries, strays, effect, late>>

(* A request that did not get through, or a change that may get through yet. *)
LeaveBehind(c) ==
  \/ UNCHANGED strays
  \/ /\ pc[c] = "sent"
     /\ request[c].op # "getPublicKey"
     /\ strays' = [strays EXCEPT ![c] = @ \cup {retries[c]}]

(* TryAgain that counts one retry too many. *)
TryOnceMore(c) ==
  /\ retries[c] <= MaxRetries
  /\ retries' = [retries EXCEPT ![c] = @ + 1]
  /\ pc' = [pc EXCEPT ![c] = "sent"]

(* TryAgain that does not count. *)
TryForever(c) == pc' = [pc EXCEPT ![c] = "sent"] /\ UNCHANGED retries

(* The loop of the driver. *)
TryAgain(c) ==
  /\ retries[c] < MaxRetries
  /\ retries' = [retries EXCEPT ![c] = @ + 1]
  /\ pc' = [pc EXCEPT ![c] = "sent"]

(* ThrowKeyStoreException that only logs the error. *)
LogError(c) ==
  /\ retries[c] >= MaxRetries
  /\ pc' = [pc EXCEPT ![c] = "succeeded"]
  /\ UNCHANGED retries

(* The last VaultException is caught, logged and thrown again. *)
ThrowKeyStoreException(c) ==
  /\ retries[c] >= MaxRetries
  /\ pc' = [pc EXCEPT ![c] = "failed"]
  /\ UNCHANGED retries

(* A refused connection, an error of the server, a lost answer. *)
FailTry(c) ==
  /\ pc[c] \in InFlight
  /\ LeaveBehind(c)
  /\ TryAgain(c) \/ ThrowKeyStoreException(c)
  /\ UNCHANGED <<pairs, request, effect, late>>

(* The instance of the service stops in the middle of the call. *)
Stop(c) ==
  /\ pc[c] \in InFlight
  /\ LeaveBehind(c)
  /\ pc' = [pc EXCEPT ![c] = "failed"]
  /\ UNCHANGED <<pairs, request, retries, effect, late>>

(* A request that was given up reaches the server after all. *)
Stray(c) ==
  /\ \E try \in strays[c] : strays' = [strays EXCEPT ![c] = @ \ {try}]
  /\ Contract!Perform(c)
  /\ late' = IF request[c].op = "store" THEN late \cup {request[c].keyId}
                                        ELSE late \ {request[c].keyId}
  /\ UNCHANGED <<pc, request, retries>>

-----------------------------------------------------------------------------
Try(c) == Serve(c) \/ Return(c) \/ FailTry(c)

Done == (\A c \in Callers : pc[c] \in Returned) /\ UNCHANGED vaultVars

Next ==
  \/ \E c \in Callers :
       \/ \E k \in KeyIds : Store(c, k) \/ Delete(c, k) \/ GetPublicKey(c, k)
       \/ Try(c) \/ Stop(c) \/ Stray(c)
  \/ Done

Spec == Init /\ [][Next]_vaultVars
-----------------------------------------------------------------------------
VaultTypeOK ==
  /\ KeyStoreTypeOK
  /\ pc \in [Callers -> {"idle"} \cup InFlight \cup Returned]
  /\ request \in [Callers -> Contract!KeyStoreRequests \cup {Contract!NoRequest}]
  /\ retries \in [Callers -> 0..MaxRetries]
  /\ strays \in [Callers -> SUBSET (0..MaxRetries)]
  /\ effect \in [Callers -> Contract!Effects]
  /\ late \subseteq KeyIds

(* A pair whose store has returned is there until somebody deletes it, however
   many tries it took and whatever became of them: a listed key can be verified
   (store returns normally only after a try that Vault has performed). *)
StoredUntilDeleted ==
  \A k \in KeyIds : IsPublished(k) /\ ~IsBeingDeleted(k) => pairs[k] = "stored"

(* A pair whose deletion has returned is gone, and stays gone but for one thing
   the client cannot prevent: a store request it had given up arrives after all
   (the retries of store behind the answer of delete). *)
DeletedUnlessWrittenLate ==
  \A k \in KeyIds :
    /\ \E c \in Callers : Makes(c, "delete", k) /\ pc[c] = "succeeded"
    /\ pairs[k] = "stored"
    => k \in late

(* The retries keep the promise of the key store. *)
KeepsContract == Contract!CallsSpec

(* A bound on what a call has still to do: a try takes two steps. *)
StepsLeft(c) ==
  2 * (MaxRetries - retries[c])
    + CASE pc[c] = "idle" -> 3 [] pc[c] = "sent" -> 2 [] pc[c] = "served" -> 1
        [] OTHER -> 0

(* What no fairness is needed for: every step of a call brings it closer to its
   end, whatever fails, is given up or arrives late, and what it has left behind
   is used up.  So a call has 2 * MaxRetries + 3 steps at most, and what has come
   back is resumed by nothing (the driver's loop over its retries around store,
   delete and getPublicKey).  How long one step takes nothing bounds: no timeouts
   are set, and a Vault that never answers holds the call and its thread. *)
EveryTryLeadsOn ==
  [][\A c \in Callers :
       LET leadsOn == StepsLeft(c)' < StepsLeft(c) IN
       /\ pc'[c] # pc[c] \/ retries'[c] # retries[c] => leadsOn
       /\ strays'[c] # strays[c] => leadsOn \/ strays'[c] \subseteq strays[c]
       /\ effect'[c] # effect[c] => leadsOn \/ strays'[c] # strays[c]]_vaultVars
=============================================================================
