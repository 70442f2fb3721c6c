------------------------- MODULE VaultKeyStoreProofs -------------------------
(***************************************************************************)
(* Theorems about VaultKeyStore, for any number of calls, keys and retries. *)
(*                                                                         *)
(* The invariant says of every call what the server has made of it: a call *)
(* that has come back without exception has been performed, only one call  *)
(* stores a pair, and all calls that delete it came after that one had     *)
(* returned.  So nothing but a stray can write a pair under deletion.      *)
(***************************************************************************)
EXTENDS VaultKeyStore, TLAPS

(* Callers that have asked for nothing have left nothing behind, and requests
   that change nothing need not be left behind. *)
RequestsMatch ==
  \A c \in Callers :
    /\ pc[c] = "idle" <=> request[c] = Contract!NoRequest
    /\ request[c] = Contract!NoRequest \/ request[c].op = "getPublicKey" =>
         strays[c] = {}

(* What the server has made of each call. *)
EffectsMatch ==
  \A c \in Callers :
    /\ pc[c] = "idle" => effect[c] = "none"
    /\ effect[c] = "done" => request[c].op # "getPublicKey"
    /\ pc[c] = "served" /\ request[c].op # "getPublicKey" => effect[c] = "done"
    /\ pc[c] = "succeeded" => effect[c] \in Contract!Fruitful
    /\ effect[c] = "stored" => request[c].op = "getPublicKey"

StoredOnce ==
  \A k \in KeyIds : \A c, d \in Callers :
    Makes(c, "store", k) /\ Makes(d, "store", k) => c = d

DeletedAfterStored ==
  \A k \in KeyIds : IsBeingDeleted(k) => IsPublished(k)

StoresHold ==
  \A k \in KeyIds : \A c \in Callers :
    Makes(c, "store", k) /\ effect[c] = "done" /\ ~IsBeingDeleted(k) =>
      pairs[k] = "stored"

DeletesHold ==
  \A k \in KeyIds : \A c \in Callers :
    Makes(c, "delete", k) /\ effect[c] = "done" /\ pairs[k] = "stored" => k \in late

VaultInv ==
  /\ VaultTypeOK
  /\ RequestsMatch
  /\ EffectsMatch
  /\ StoredOnce
  /\ DeletedAfterStored
  /\ StoresHold
  /\ DeletesHold

-----------------------------------------------------------------------------
(* Requests *)

(* A caller that has asked for something makes one request. *)
LEMMA RequestFields ==
  ASSUME VaultTypeOK, NEW c \in Callers, request[c] # Contract!NoRequest
  PROVE  /\ request[c].op \in {"store", "delete", "getPublicKey"}
         /\ request[c].keyId \in KeyIds
         /\ Makes(c, request[c].op, request[c].keyId)
  BY DEF VaultTypeOK, Contract!KeyStoreRequests, Makes

(* What it makes is what its fields say. *)
LEMMA MakesFields ==
  ASSUME NEW c \in Callers, NEW op, NEW k, Makes(c, op, k)
  PROVE  request[c].op = op /\ request[c].keyId = k
  BY DEF Makes

LEMMA NoRequestOp == Contract!NoRequest.op = "none"
  BY DEF Contract!NoRequest

LEMMA NoRequestMakesNothing ==
  ASSUME NEW c \in Callers, NEW op \in {"store", "delete", "getPublicKey"}, NEW k,
         request[c] = Contract!NoRequest
  PROVE  ~Makes(c, op, k)
  BY NoRequestOp, MakesFields

(* The server performs a request in one of three ways. *)
LEMMA Performed ==
  ASSUME VaultTypeOK, NEW c \in Callers, request[c] # Contract!NoRequest,
         Contract!Perform(c)
  PROVE  LET k == request[c].keyId IN
         \/ /\ request[c].op = "store"
            /\ pairs' = [pairs EXCEPT ![k] = "stored"]
            /\ effect' = [effect EXCEPT ![c] = "done"]
         \/ /\ request[c].op = "delete"
            /\ pairs' = [pairs EXCEPT ![k] = "deleted"]
            /\ effect' = [effect EXCEPT ![c] = "done"]
         \/ /\ request[c].op = "getPublicKey"
            /\ pairs' = pairs
            /\ effect' = [effect EXCEPT ![c] = pairs[k]]
  <1> DEFINE k == request[c].keyId
  <1>1. k \in KeyIds /\ pairs \in [KeyIds -> PairStates]
    BY RequestFields DEF VaultTypeOK, KeyStoreTypeOK
  <1>2. [j \in KeyIds |-> IF j \in {k} THEN "deleted" ELSE pairs[j]]
          = [pairs EXCEPT ![k] = "deleted"]
    BY <1>1
  <1> QED
    BY <1>1, <1>2
    DEF Contract!Perform, Contract!KeyPair, Contract!StoreKeyPair,
        Contract!DeleteKeyPairs

-----------------------------------------------------------------------------
(* Types *)

LEMMA TypeInit == Init => VaultTypeOK
  BY MaxRetriesAssumption
  DEF Init, VaultTypeOK, KeyStoreTypeOK, PairStates, Contract!Effects

(* Performing a request keeps the types of what it changes. *)
LEMMA PerformedType ==
  ASSUME VaultTypeOK, NEW c \in Callers, request[c] # Contract!NoRequest,
         Contract!Perform(c)
  PROVE  /\ KeyStoreTypeOK'
         /\ effect' \in [Callers -> Contract!Effects]
  BY RequestFields, Performed
  DEF VaultTypeOK, KeyStoreTypeOK, PairStates, Contract!PairStates, Contract!Effects

(* Calls that are under way, or were, have a request. *)
LEMMA HasRequest ==
  ASSUME RequestsMatch, NEW c \in Callers
  PROVE  /\ pc[c] # "idle" => request[c] # Contract!NoRequest
         /\ strays[c] # {} => /\ request[c] # Contract!NoRequest
                              /\ request[c].op # "getPublicKey"
                              /\ pc[c] # "idle"
  BY DEF RequestsMatch

LEMMA TypeNext == VaultTypeOK /\ RequestsMatch /\ [Next]_vaultVars => VaultTypeOK'
  <1> SUFFICES ASSUME VaultTypeOK, RequestsMatch, [Next]_vaultVars
               PROVE  VaultTypeOK'
    OBVIOUS
  <1> USE MaxRetriesAssumption
  <1>1. ASSUME NEW c \in Callers, NEW k \in KeyIds,
               Store(c, k) \/ Delete(c, k) \/ GetPublicKey(c, k)
        PROVE  VaultTypeOK'
    <2>1. PICK op \in {"store", "delete", "getPublicKey"} : Invoke(c, op, k)
      BY <1>1 DEF Store, Delete, GetPublicKey
    <2>2. [op |-> op, keyId |-> k] \in Contract!KeyStoreRequests
      BY DEF Contract!KeyStoreRequests
    <2> QED
      BY <2>1, <2>2 DEF Invoke, VaultTypeOK, KeyStoreTypeOK, InFlight
  <1>2. ASSUME NEW c \in Callers, Serve(c)
        PROVE  VaultTypeOK'
    <2>1. request[c] # Contract!NoRequest
      BY <1>2, HasRequest DEF Serve
    <2> QED
      BY <1>2, <2>1, PerformedType DEF Serve, VaultTypeOK, InFlight
  <1>3. ASSUME NEW c \in Callers, Return(c)
        PROVE  VaultTypeOK'
    BY <1>3 DEF Return, VaultTypeOK, KeyStoreTypeOK, Returned
  <1>4. ASSUME NEW c \in Callers, LeaveBehind(c)
        PROVE  strays' \in [Callers -> SUBSET (0..MaxRetries)]
    BY <1>4 DEF LeaveBehind, VaultTypeOK
  <1>5. ASSUME NEW c \in Callers, FailTry(c)
        PROVE  VaultTypeOK'
    BY <1>4, <1>5
    DEF FailTry, TryAgain, ThrowKeyStoreException, VaultTypeOK, KeyStoreTypeOK,
        InFlight, Returned
  <1>6. ASSUME NEW c \in Callers, Stop(c)
        PROVE  VaultTypeOK'
    BY <1>4, <1>6 DEF Stop, VaultTypeOK, KeyStoreTypeOK, InFlight, Returned
  <1>7. ASSUME NEW c \in Callers, Stray(c)
        PROVE  VaultTypeOK'
    <2>1. request[c] # Contract!NoRequest
      BY <1>7, HasRequest DEF Stray
    <2>2. /\ strays' \in [Callers -> SUBSET (0..MaxRetries)]
          /\ late' \subseteq KeyIds
      BY <1>7, <2>1, RequestFields DEF Stray, VaultTypeOK
    <2>3. UNCHANGED <<pc, request, retries>>
      BY <1>7 DEF Stray
    <2> QED
      BY <1>7, <2>1, <2>2, <2>3, PerformedType DEF Stray, VaultTypeOK
  <1>8. CASE UNCHANGED vaultVars
    BY <1>8 DEF vaultVars, VaultTypeOK, KeyStoreTypeOK
  <1> QED
    BY <1>1, <1>2, <1>3, <1>5, <1>6, <1>7, <1>8 DEF Next, Try, Done

-----------------------------------------------------------------------------
(* Requests, pairs and what is known of them *)

(* What a step may do to the calls: nobody changes what has been asked for, or
   takes back what has been returned. *)
LEMMA RequestsStay ==
  ASSUME VaultTypeOK, RequestsMatch, [Next]_vaultVars, NEW c \in Callers
  PROVE  /\ request[c] # Contract!NoRequest => request'[c] = request[c]
         /\ pc[c] = "succeeded" => pc'[c] = "succeeded"
  <1>1. ASSUME NEW d \in Callers, NEW op, NEW k, Invoke(d, op, k)
        PROVE  /\ request[c] # Contract!NoRequest => request'[c] = request[c]
               /\ pc[c] = "succeeded" => pc'[c] = "succeeded"
    BY <1>1 DEF Invoke, VaultTypeOK, RequestsMatch
  <1>2. ASSUME NEW d \in Callers, Try(d) \/ Stop(d) \/ Stray(d)
        PROVE  /\ request' = request
               /\ pc[c] = "succeeded" => pc'[c] = "succeeded"
    BY <1>2
    DEF Try, Serve, Return, FailTry, TryAgain, ThrowKeyStoreException, Stop, Stray,
        InFlight, VaultTypeOK
  <1> QED
    BY <1>1, <1>2 DEF Next, Store, Delete, GetPublicKey, Done, vaultVars

(* A published key stays published, and one under deletion under deletion. *)
LEMMA PublishedStays ==
  ASSUME VaultTypeOK, RequestsMatch, [Next]_vaultVars, NEW k \in KeyIds
  PROVE  /\ IsPublished(k) => IsPublished(k)'
         /\ IsBeingDeleted(k) => IsBeingDeleted(k)'
  BY RequestsStay, NoRequestMakesNothing DEF IsPublished, IsBeingDeleted, Makes

LEMMA RequestsMatchNext ==
  VaultTypeOK /\ RequestsMatch /\ [Next]_vaultVars => RequestsMatch'
  <1> SUFFICES ASSUME VaultTypeOK, RequestsMatch, [Next]_vaultVars
               PROVE  RequestsMatch'
    OBVIOUS
  <1>1. ASSUME NEW c \in Callers, NEW k \in KeyIds,
               NEW op \in {"store", "delete", "getPublicKey"}, Invoke(c, op, k)
        PROVE  RequestsMatch'
    <2>1. request'[c] # Contract!NoRequest
      BY <1>1, NoRequestOp DEF Invoke, VaultTypeOK
    <2> QED
      BY <1>1, <2>1 DEF Invoke, VaultTypeOK, RequestsMatch
  <1>2. ASSUME NEW c \in Callers, Serve(c) \/ Return(c) \/ Stray(c)
        PROVE  RequestsMatch'
    BY <1>2 DEF Serve, Return, Stray, VaultTypeOK, RequestsMatch
  <1>3. ASSUME NEW c \in Callers, FailTry(c) \/ Stop(c)
        PROVE  RequestsMatch'
    <2>1. /\ LeaveBehind(c)
          /\ request' = request
          /\ pc[c] # "idle"
          /\ \E stage \in InFlight \cup Returned : pc' = [pc EXCEPT ![c] = stage]
      BY <1>3 DEF FailTry, TryAgain, ThrowKeyStoreException, Stop, InFlight, Returned
    <2> QED
      BY <2>1 DEF LeaveBehind, VaultTypeOK, RequestsMatch, InFlight, Returned
  <1>4. CASE UNCHANGED vaultVars
    BY <1>4 DEF vaultVars, RequestsMatch
  <1> QED
    BY <1>1, <1>2, <1>3, <1>4
    DEF Next, Store, Delete, GetPublicKey, Try, Done

LEMMA EffectsMatchNext ==
  VaultTypeOK /\ RequestsMatch /\ EffectsMatch /\ [Next]_vaultVars => EffectsMatch'
  <1> SUFFICES ASSUME VaultTypeOK, RequestsMatch, EffectsMatch, [Next]_vaultVars
               PROVE  EffectsMatch'
    OBVIOUS
  <1>1. ASSUME NEW c \in Callers, NEW k \in KeyIds,
               NEW op \in {"store", "delete", "getPublicKey"}, Invoke(c, op, k)
        PROVE  EffectsMatch'
    BY <1>1 DEF Invoke, VaultTypeOK, EffectsMatch, Contract!Fruitful
  <1>2. ASSUME NEW c \in Callers, Serve(c) \/ Stray(c)
        PROVE  EffectsMatch'
    <2>1. request[c] # Contract!NoRequest /\ Contract!Perform(c)
      BY <1>2, HasRequest DEF Serve, Stray
    <2> QED
      BY <1>2, <2>1, Performed, HasRequest, RequestFields
      DEF Serve, Stray, VaultTypeOK, KeyStoreTypeOK, PairStates, EffectsMatch,
          Contract!Fruitful
  <1>3. ASSUME NEW c \in Callers, Return(c) \/ FailTry(c) \/ Stop(c)
        PROVE  EffectsMatch'
    BY <1>3
    DEF Return, FailTry, TryAgain, ThrowKeyStoreException, Stop, VaultTypeOK,
        EffectsMatch, Contract!Fruitful
  <1>4. CASE UNCHANGED vaultVars
    BY <1>4 DEF vaultVars, EffectsMatch
  <1> QED
    BY <1>1, <1>2, <1>3, <1>4
    DEF Next, Store, Delete, GetPublicKey, Try, Done

LEMMA StoredOnceNext ==
  VaultTypeOK /\ RequestsMatch /\ StoredOnce /\ [Next]_vaultVars => StoredOnce'
  <1> SUFFICES ASSUME VaultTypeOK, RequestsMatch, StoredOnce, [Next]_vaultVars
               PROVE  StoredOnce'
    OBVIOUS
  <1>1. ASSUME NEW c \in Callers, NEW k \in KeyIds, Store(c, k)
        PROVE  StoredOnce'
    BY <1>1 DEF Store, Invoke, StoredOnce, Makes, VaultTypeOK
  <1>2. ASSUME NEW c \in Callers, NEW k \in KeyIds, Delete(c, k) \/ GetPublicKey(c, k)
        PROVE  StoredOnce'
    BY <1>2 DEF Delete, GetPublicKey, Invoke, StoredOnce, Makes, VaultTypeOK
  <1>3. CASE request' = request
    BY <1>3 DEF StoredOnce, Makes
  <1> QED
    BY <1>1, <1>2, <1>3
    DEF Next, Try, Serve, Return, FailTry, Stop, Stray, Done, vaultVars

LEMMA DeletedAfterStoredNext ==
  VaultTypeOK /\ RequestsMatch /\ DeletedAfterStored /\ [Next]_vaultVars
    => DeletedAfterStored'
  <1> SUFFICES ASSUME VaultTypeOK, RequestsMatch, DeletedAfterStored, [Next]_vaultVars,
                      NEW k \in KeyIds, IsBeingDeleted(k)'
               PROVE  IsPublished(k)'
    BY DEF DeletedAfterStored
  <1>1. CASE IsBeingDeleted(k)
    BY <1>1, PublishedStays DEF DeletedAfterStored
  <1>2. ASSUME NEW c \in Callers, NEW l \in KeyIds,
               Store(c, l) \/ Delete(c, l) \/ GetPublicKey(c, l)
        PROVE  IsBeingDeleted(k) \/ IsPublished(k)
    BY <1>2
    DEF Store, Delete, GetPublicKey, Invoke, IsBeingDeleted, Makes, VaultTypeOK
  <1>3. CASE request' = request
    BY <1>1, <1>3 DEF IsBeingDeleted, Makes
  <1>4. CASE IsPublished(k)
    BY <1>4, PublishedStays
  <1> QED
    BY <1>1, <1>2, <1>3, <1>4
    DEF Next, Try, Serve, Return, FailTry, Stop, Stray, Done, vaultVars

(* Whoever stores a key that is being deleted has come back. *)
LEMMA StoreIsOver ==
  ASSUME StoredOnce, DeletedAfterStored, NEW k \in KeyIds, IsBeingDeleted(k),
         NEW c \in Callers, Makes(c, "store", k)
  PROVE  pc[c] = "succeeded"
  BY DEF StoredOnce, DeletedAfterStored, IsPublished

(* A step that performs nothing. *)
LEMMA NothingPerformed ==
  ASSUME VaultInv, VaultTypeOK', UNCHANGED <<pairs, effect, late>>, [Next]_vaultVars
  PROVE  StoresHold' /\ DeletesHold'
  <1>1. ASSUME NEW c \in Callers, NEW k \in KeyIds, NEW op \in {"store", "delete"},
               Makes(c, op, k)', effect[c] = "done"
        PROVE  Makes(c, op, k)
    <2>1. request[c] # Contract!NoRequest
      BY <1>1 DEF VaultInv, EffectsMatch, RequestsMatch
    <2> QED
      BY <1>1, <2>1, RequestsStay DEF VaultInv, Makes
  <1>2. ASSUME NEW k \in KeyIds, ~IsBeingDeleted(k)'
        PROVE  ~IsBeingDeleted(k)
    BY <1>2, PublishedStays DEF VaultInv
  <1>3. StoresHold'
    BY <1>1, <1>2 DEF VaultInv, StoresHold
  <1>4. DeletesHold'
    BY <1>1 DEF VaultInv, DeletesHold
  <1> QED
    BY <1>3, <1>4

(* A request that is performed, in time or late. *)
LEMMA SomethingPerformed ==
  ASSUME VaultInv, VaultTypeOK', NEW c \in Callers, Serve(c) \/ Stray(c)
  PROVE  StoresHold' /\ DeletesHold'
  <1> DEFINE k == request[c].keyId
  <1>1. /\ VaultTypeOK /\ RequestsMatch /\ EffectsMatch /\ StoredOnce
        /\ DeletedAfterStored /\ StoresHold /\ DeletesHold
    BY DEF VaultInv
  <1>2. request[c] # Contract!NoRequest /\ Contract!Perform(c) /\ request' = request
    BY <1>1, HasRequest DEF Serve, Stray
  <1>3. k \in KeyIds /\ Makes(c, request[c].op, k)
    BY <1>1, <1>2, RequestFields
  <1>4. \A l \in KeyIds, op \in {"store", "delete"}, d \in Callers :
          /\ Makes(d, op, l)' <=> Makes(d, op, l)
          /\ IsBeingDeleted(l)' <=> IsBeingDeleted(l)
    BY <1>2 DEF Makes, IsBeingDeleted
  <1>5. \A l \in KeyIds \ {k} :
          /\ pairs'[l] = pairs[l]
          /\ l \in late' <=> l \in late
          /\ \A d \in Callers, op \in {"store", "delete"} :
               Makes(d, op, l) => effect'[d] = effect[d]
    <2>1. \A l \in KeyIds \ {k} : l \in late' <=> l \in late
      BY <1>3 DEF Serve, Stray
    <2>2. \A l \in KeyIds \ {k} : pairs'[l] = pairs[l]
      BY <1>1, <1>2, <1>3, Performed DEF VaultTypeOK, KeyStoreTypeOK
    <2>3. \A d \in Callers \ {c} : effect'[d] = effect[d]
      BY <1>1, <1>2, Performed DEF VaultTypeOK
    <2>4. \A l \in KeyIds \ {k}, op \in {"store", "delete"} : ~Makes(c, op, l)
      BY MakesFields
    <2> QED
      BY <2>1, <2>2, <2>3, <2>4
  <1>6. ASSUME NEW d \in Callers, Makes(d, "store", k), effect'[d] = "done",
               ~IsBeingDeleted(k)
        PROVE  pairs'[k] = "stored"
    <2>1. CASE request[c].op = "store"
      BY <1>1, <1>2, <1>3, <2>1, Performed DEF VaultTypeOK, KeyStoreTypeOK
    <2>2. CASE request[c].op = "getPublicKey"
      <3>1. d # c
        BY <1>6, <2>2, MakesFields
      <3> QED
        BY <1>1, <1>2, <1>3, <1>6, <2>2, <3>1, Performed
        DEF VaultTypeOK, KeyStoreTypeOK, StoresHold
    <2>3. request[c].op # "delete"
      BY <1>3, <1>6 DEF IsBeingDeleted
    <2> QED
      BY <1>1, <1>2, <2>1, <2>2, <2>3, RequestFields
  <1>7. ASSUME NEW d \in Callers, Makes(d, "delete", k), effect'[d] = "done",
               pairs'[k] = "stored"
        PROVE  k \in late'
    <2>1. CASE request[c].op = "store"
      <3>1. pc[c] = "succeeded"
        BY <1>1, <1>3, <1>7, <2>1, StoreIsOver DEF IsBeingDeleted
      <3> QED
        BY <2>1, <3>1 DEF Serve, Stray
    <2>2. CASE request[c].op = "delete"
      BY <1>1, <1>2, <1>3, <1>7, <2>2, Performed DEF VaultTypeOK, KeyStoreTypeOK
    <2>3. CASE request[c].op = "getPublicKey"
      <3>1. d # c
        BY <1>7, <2>3, MakesFields
      <3>2. pairs[k] = "stored" /\ effect[d] = "done"
        BY <1>1, <1>2, <1>7, <2>3, <3>1, Performed DEF VaultTypeOK
      <3>3. late' = late
        BY <1>1, <2>3, HasRequest DEF Serve, Stray
      <3> QED
        BY <1>1, <1>3, <1>7, <3>2, <3>3 DEF DeletesHold
    <2> QED
      BY <1>1, <1>2, <2>1, <2>2, <2>3, RequestFields
  <1>8. StoresHold'
    BY <1>1, <1>3, <1>4, <1>5, <1>6 DEF StoresHold
  <1>9. DeletesHold'
    BY <1>1, <1>3, <1>4, <1>5, <1>7 DEF DeletesHold
  <1> QED
    BY <1>8, <1>9

(* All of it is kept by every step. *)
LEMMA VaultInvariant == Spec => []VaultInv
  <1>1. Init => VaultInv
    <2> SUFFICES ASSUME Init
                 PROVE  VaultInv
      OBVIOUS
    <2>1. \A c \in Callers, op \in {"store", "delete", "getPublicKey"}, k \in KeyIds :
            ~Makes(c, op, k)
      BY NoRequestMakesNothing DEF Init
    <2> QED
      BY <2>1, TypeInit
      DEF Init, VaultInv, RequestsMatch, EffectsMatch, StoredOnce, DeletedAfterStored,
          StoresHold, DeletesHold, IsBeingDeleted
  <1>2. VaultInv /\ [Next]_vaultVars => VaultInv'
    <2> SUFFICES ASSUME VaultInv, [Next]_vaultVars
                 PROVE  VaultInv'
      OBVIOUS
    <2>1. /\ VaultTypeOK' /\ RequestsMatch' /\ EffectsMatch' /\ StoredOnce'
          /\ DeletedAfterStored'
      BY TypeNext, RequestsMatchNext, EffectsMatchNext, StoredOnceNext,
         DeletedAfterStoredNext
      DEF VaultInv
    <2>2. CASE \E c \in Callers : Serve(c) \/ Stray(c)
      BY <2>1, <2>2, SomethingPerformed DEF VaultInv
    <2>3. CASE UNCHANGED <<pairs, effect, late>>
      BY <2>1, <2>3, NothingPerformed DEF VaultInv
    <2> QED
      BY <2>1, <2>2, <2>3
      DEF Next, Store, Delete, GetPublicKey, Invoke, Try, Return, FailTry, Stop, Done,
          vaultVars
  <1> QED
    BY <1>1, <1>2, PTL DEF Spec

-----------------------------------------------------------------------------
(* Theorems *)

(* Every variable keeps its type; no call is tried more often than it may be
   (the loop of the driver that logical configures). *)
THEOREM VaultTypeCorrect == Spec => []VaultTypeOK
  <1>1. VaultInv => VaultTypeOK
    BY DEF VaultInv
  <1> QED
    BY <1>1, VaultInvariant, PTL

(* A pair whose store has returned is there until somebody deletes it, whatever
   became of the tries (store). *)
THEOREM StoresKept == Spec => []StoredUntilDeleted
  <1>1. VaultInv => StoredUntilDeleted
    <2> SUFFICES ASSUME VaultInv, NEW k \in KeyIds, ~IsBeingDeleted(k),
                        NEW c \in Callers, Makes(c, "store", k), pc[c] = "succeeded"
                 PROVE  pairs[k] = "stored"
      BY DEF StoredUntilDeleted, IsPublished
    <2>1. effect[c] = "done"
      BY MakesFields DEF VaultInv, EffectsMatch, Contract!Fruitful
    <2> QED
      BY <2>1 DEF VaultInv, StoresHold
  <1> QED
    BY <1>1, VaultInvariant, PTL

(* A pair whose deletion has returned is there again only by a store request that
   its client had given up (delete, and the retries of store). *)
THEOREM DeletesKept == Spec => []DeletedUnlessWrittenLate
  <1>1. VaultInv => DeletedUnlessWrittenLate
    <2> SUFFICES ASSUME VaultInv, NEW k \in KeyIds, pairs[k] = "stored",
                        NEW c \in Callers, Makes(c, "delete", k), pc[c] = "succeeded"
                 PROVE  k \in late
      BY DEF DeletedUnlessWrittenLate
    <2>1. effect[c] = "done"
      BY MakesFields DEF VaultInv, EffectsMatch, Contract!Fruitful
    <2> QED
      BY <2>1 DEF VaultInv, DeletesHold
  <1> QED
    BY <1>1, VaultInvariant, PTL

(* The calls of VaultKeyStore keep the promise of the key store: whatever the
   tries, each one takes effect before it returns normally, and a read only
   while it is under way (store, delete, getPublicKey). *)
THEOREM ContractKept == Spec => KeepsContract
  <1>1. Init => Contract!CallsInit
    BY DEF Init, Contract!CallsInit, Outcome
  <1>2. VaultInv /\ [Next]_vaultVars => [Contract!CallsNext]_(Contract!callVars)
    <2> SUFFICES ASSUME VaultInv, [Next]_vaultVars
                 PROVE  Contract!CallsNext \/ UNCHANGED Contract!callVars
      OBVIOUS
    <2> DEFINE outcome == [c \in Callers |-> Outcome(c)]
    <2>1. ASSUME NEW c \in Callers, NEW k \in KeyIds,
                 NEW op \in {"store", "delete", "getPublicKey"}, Invoke(c, op, k)
          PROVE  Contract!Ask(c)
      <3>1. [op |-> op, keyId |-> k] \in Contract!KeyStoreRequests
        BY DEF Contract!KeyStoreRequests
      <3>2. outcome[c] = "none" /\ outcome' = [outcome EXCEPT ![c] = "open"]
        BY <2>1 DEF Invoke, Outcome, InFlight, VaultInv, VaultTypeOK
      <3> QED
        BY <2>1, <3>1, <3>2 DEF Invoke, Contract!Ask
    <2>2. ASSUME NEW c \in Callers, Serve(c) \/ Stray(c)
          PROVE  Contract!TakeEffect(c)
      <3>1. outcome' = outcome
        BY <2>2 DEF Serve, Stray, Outcome, InFlight, VaultInv, VaultTypeOK
      <3>2. /\ outcome[c] # "none"
            /\ outcome[c] # "open" => request[c].op # "getPublicKey"
        BY <2>2, HasRequest
        DEF Serve, Stray, Outcome, InFlight, Returned, VaultInv, VaultTypeOK
      <3> QED
        BY <2>2, <3>1, <3>2 DEF Serve, Stray, Contract!TakeEffect
    <2>3. ASSUME NEW c \in Callers, Return(c)
          PROVE  Contract!Reply(c) \/ Contract!Throw(c)
      <3>1. outcome[c] = "open"
        BY <2>3 DEF Return, Outcome, InFlight
      <3>2. CASE effect[c] \in Contract!Fruitful
        <4>1. outcome' = [outcome EXCEPT ![c] = "succeeded"]
          BY <2>3, <3>2 DEF Return, Outcome, InFlight, VaultInv, VaultTypeOK
        <4> QED
          BY <2>3, <3>1, <3>2, <4>1 DEF Return, Contract!Reply
      <3>3. CASE effect[c] \notin Contract!Fruitful
        <4>1. outcome' = [outcome EXCEPT ![c] = "failed"]
          BY <2>3, <3>3 DEF Return, Outcome, InFlight, VaultInv, VaultTypeOK
        <4> QED
          BY <2>3, <3>1, <4>1 DEF Return, Contract!Throw
      <3> QED
        BY <3>2, <3>3
    <2>4. ASSUME NEW c \in Callers, FailTry(c) \/ Stop(c)
          PROVE  Contract!Throw(c) \/ UNCHANGED Contract!callVars
      <3>1. outcome[c] = "open"
        BY <2>4 DEF FailTry, Stop, Outcome, InFlight
      <3>2. UNCHANGED <<pairs, request, effect>>
        BY <2>4 DEF FailTry, Stop
      <3>3. CASE pc' = [pc EXCEPT ![c] = "sent"]
        <4>1. outcome' = outcome
          BY <2>4, <3>3 DEF FailTry, Stop, Outcome, InFlight, VaultInv, VaultTypeOK
        <4> QED
          BY <3>2, <4>1 DEF Contract!callVars
      <3>4. CASE pc' = [pc EXCEPT ![c] = "failed"]
        <4>1. outcome' = [outcome EXCEPT ![c] = "failed"]
          BY <3>4 DEF Outcome, InFlight, VaultInv, VaultTypeOK
        <4> QED
          BY <3>1, <3>2, <4>1 DEF Contract!Throw
      <3> QED
        BY <2>4, <3>3, <3>4 DEF FailTry, TryAgain, ThrowKeyStoreException, Stop
    <2>5. CASE UNCHANGED vaultVars
      BY <2>5 DEF vaultVars, Outcome, Contract!callVars
    <2> QED
      BY <2>1, <2>2, <2>3, <2>4, <2>5
      DEF Next, Store, Delete, GetPublicKey, Try, Done, Contract!CallsNext
  <1> QED
    BY <1>1, <1>2, VaultInvariant, PTL DEF Spec, KeepsContract, Contract!CallsSpec

(* Nothing resumes a call, and no call goes on for ever while the client moves:
   a step of a call leaves less to do, with the retries there are (the driver's
   loop). *)
THEOREM TriesLeadOn == Spec => EveryTryLeadsOn
  <1> USE MaxRetriesAssumption
  <1> DEFINE LeadOn(c) ==
        LET leadsOn == StepsLeft(c)' < StepsLeft(c) IN
        /\ pc'[c] # pc[c] \/ retries'[c] # retries[c] => leadsOn
        /\ strays'[c] # strays[c] => leadsOn \/ strays'[c] \subseteq strays[c]
        /\ effect'[c] # effect[c] => leadsOn \/ strays'[c] # strays[c]
  <1>1. VaultInv /\ [Next]_vaultVars => \A c \in Callers : LeadOn(c)
    <2> SUFFICES ASSUME VaultInv, [Next]_vaultVars, NEW c \in Callers
                 PROVE  LeadOn(c)
      OBVIOUS
    <2>1. VaultTypeOK /\ RequestsMatch
      BY DEF VaultInv
    <2>2. retries[c] \in 0..MaxRetries
      BY <2>1 DEF VaultTypeOK
    <2>3. ASSUME NEW d \in Callers, NEW k \in KeyIds,
                 NEW op \in {"store", "delete", "getPublicKey"}, Invoke(d, op, k)
          PROVE  LeadOn(c)
      BY <2>1, <2>2, <2>3 DEF Invoke, VaultTypeOK, StepsLeft
    <2>4. ASSUME NEW d \in Callers, Serve(d) \/ Stray(d), d # c
          PROVE  effect'[c] = effect[c]
      <3>1. request[d] # Contract!NoRequest /\ Contract!Perform(d)
        BY <2>1, <2>4, HasRequest DEF Serve, Stray
      <3>2. \E made \in {"done"} \cup PairStates : effect' = [effect EXCEPT ![d] = made]
        BY <2>1, <3>1, Performed, RequestFields DEF VaultTypeOK, KeyStoreTypeOK
      <3> QED
        BY <2>1, <2>4, <3>2 DEF VaultTypeOK
    <2>5. ASSUME NEW d \in Callers, Serve(d)
          PROVE  LeadOn(c)
      <3>1. /\ pc[d] = "sent" /\ pc' = [pc EXCEPT ![d] = "served"]
            /\ UNCHANGED <<retries, strays>>
        BY <2>5 DEF Serve
      <3>2. CASE d = c
        <4>1. StepsLeft(c)' < StepsLeft(c)
          BY <2>1, <2>2, <3>1, <3>2 DEF VaultTypeOK, StepsLeft
        <4> QED
          BY <4>1
      <3>3. CASE d # c
        BY <2>1, <2>4, <2>5, <3>1, <3>3 DEF VaultTypeOK
      <3> QED
        BY <3>2, <3>3
    <2>6. ASSUME NEW d \in Callers, Return(d)
          PROVE  LeadOn(c)
      BY <2>1, <2>2, <2>6 DEF Return, VaultTypeOK, StepsLeft
    <2>7. ASSUME NEW d \in Callers, FailTry(d) \/ Stop(d)
          PROVE  LeadOn(c)
      <3>1. d # c => strays'[c] = strays[c]
        BY <2>1, <2>7 DEF FailTry, Stop, LeaveBehind, VaultTypeOK
      <3> QED
        BY <2>1, <2>2, <2>7, <3>1
        DEF FailTry, Stop, TryAgain, ThrowKeyStoreException, InFlight, VaultTypeOK,
            StepsLeft
    <2>8. ASSUME NEW d \in Callers, Stray(d)
          PROVE  LeadOn(c)
      <3>1. UNCHANGED <<pc, retries>>
        BY <2>8 DEF Stray
      <3>2. /\ strays'[c] \subseteq strays[c]
            /\ d = c => strays'[c] # strays[c]
        BY <2>1, <2>8 DEF Stray, VaultTypeOK
      <3>3. d # c => effect'[c] = effect[c]
        BY <2>4, <2>8
      <3> QED
        BY <3>1, <3>2, <3>3
    <2>9. CASE UNCHANGED vaultVars
      BY <2>9 DEF vaultVars
    <2> QED
      BY <2>3, <2>5, <2>6, <2>7, <2>8, <2>9
      DEF Next, Store, Delete, GetPublicKey, Try, Done
  <1> QED
    BY <1>1, VaultInvariant, PTL DEF Spec, EveryTryLeadsOn
=============================================================================
