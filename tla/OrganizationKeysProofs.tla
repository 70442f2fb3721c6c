------------------------ MODULE OrganizationKeysProofs ------------------------
(***************************************************************************)
(* Theorems that relate the keys organizations list, in the bucket, and    *)
(* the pairs in the key store, for all values of the constants.            *)
(***************************************************************************)
EXTENDS OrganizationServiceProofs

-----------------------------------------------------------------------------
(* The invariant.  What keeps the two stores together is that the id of a key
   is drawn by one request, listed by it once, and doomed only after that. *)

Listed(id) == IF docs[id] = NoOrg THEN {} ELSE docs[id].apiKeys

KeysListedOnce ==
  \A id, other \in OrgIds : \A k \in Listed(id), l \in Listed(other) :
    k.keyId = l.keyId => id = other /\ k = l

(* A listed key has had its pair, and the request that added it is over. *)
ListedWereAdded ==
  \A id \in OrgIds : \A k \in Listed(id) :
    /\ pairs[k.keyId] # "absent"
    /\ k.keyId \in Requests => pc[k.keyId] \in Answered

(* Only keys that were listed are doomed. *)
DoomedWereAdded ==
  \A r \in Requests : \A k \in doomed[r] :
    pairs[k] # "absent" /\ (k \in Requests => pc[k] \in Answered)

(* The pair of a key that is being added is nobody else's. *)
FreshPair(r) ==
  /\ pc[r] \notin Answered \cup {"save"} => pairs[r] = "absent"
  /\ pc[r] = "save" /\ call[r].op = "addOrganizationApiKey" => pairs[r] = "stored"

(* A request that deletes a key dooms a key of its organization with its name,
   and the pair has been deleted before the list is saved. *)
DoomedKey(r) ==
  LET c == call[r]
  IN c.op = "deleteOrganizationApiKey" =>
       /\ \A id \in OrgIds : \A k \in Listed(id) :
            k.keyId \in doomed[r] => id = c.org /\ SameIgnoringCase(k.name, c.keyName)
       /\ pc[r] \in {"deletePair", "save"} =>
            (IsCurrent(r) => doomed[r] \in DoomedKeys(c, docs[c.org]))
       /\ pc[r] = "save" => \A k \in doomed[r] : WasDeleted(k)

(* A request that deletes an organization dooms the keys nobody lists any more
   once it has removed the document, and forgets none of them.  What it no longer
   dooms it has asked the key store to delete, and that may come late. *)
DoomedOrganization(r) ==
  call[r].op = "deleteOrganization" =>
    /\ pc[r] \in {"remove", "purge", "succeeded"} => entity[r] # NoOrg
    /\ pc[r] = "remove" =>
         /\ doomed[r] = KeyIdsOf(entity[r])
         /\ \A id \in OrgIds : \A k \in Listed(id) :
              k.keyId \in doomed[r] => id = call[r].org
    /\ pc[r] = "purge" =>
         \A id \in OrgIds : \A k \in Listed(id) : k.keyId \notin doomed[r]
    /\ pc[r] \in {"purge", "succeeded"} =>
         \A k \in KeyIdsOf(entity[r]) :
           WasDeleted(k) \/ (pc[r] = "purge" /\ k \in doomed[r])

(* The keys of the organization it holds were listed, and those it no longer
   dooms are listed nowhere. *)
HeldWereAdded(r) ==
  call[r].op = "deleteOrganization" /\ entity[r] # NoOrg =>
    /\ \A k \in KeyIdsOf(entity[r]) :
         k \in KeyIds /\ pairs[k] # "absent" /\ (k \in Requests => pc[k] \in Answered)
    /\ \A id \in OrgIds : \A k \in Listed(id) :
         k.keyId \in KeyIdsOf(entity[r]) => k.keyId \in doomed[r]

(* A request that has not started holds nothing. *)
HoldsNothing(r) == pc[r] = "idle" => entity[r] = NoOrg /\ doomed[r] = {}

KeysInv ==
  /\ KeysListedOnce
  /\ ListedWereAdded
  /\ DoomedWereAdded
  /\ \A r \in Requests :
       /\ FreshPair(r) /\ DoomedKey(r) /\ DoomedOrganization(r)
       /\ HeldWereAdded(r) /\ HoldsNothing(r)
  /\ ListedKeyKilledByKeyDeletion

-----------------------------------------------------------------------------
(* What a step of r does to what the invariant speaks of. *)

(* It lists nothing but the key it adds. *)
ListsGrow(r) ==
  \A id \in OrgIds : \A k \in Listed(id)' :
    \/ k \in Listed(id)
    \/ /\ pc[r] = "save" /\ call[r].op = "addOrganizationApiKey"
       /\ pc'[r] \in Answered
       /\ id = call[r].org /\ k = BuildApiKey(call[r], r)

(* It stores its own pair and deletes those it has doomed. *)
PairsMove(r) ==
  \A k \in KeyIds :
    \/ pairs'[k] = pairs[k]
    \/ k = r /\ pc[r] = "storePair" /\ pc'[r] = "save" /\ pairs'[k] = "stored"
    \/ /\ k \in doomed[r] /\ pairs'[k] = "deleted"
       /\ \/ pc[r] = "purge"
          \/ pc[r] = "deletePair" /\ pc'[r] = "save" /\ call'[r] = call[r]

(* It brings r forward, to "save" with its pair stored. *)
MovesOn(r) ==
  /\ pc[r] \notin Answered
  /\ pc'[r] \notin Answered => pc[r] # "save"
  /\ pc'[r] = "save" /\ call'[r].op = "addOrganizationApiKey" =>
       pc[r] = "storePair" /\ pairs'[r] = "stored"
  /\ pc[r] # "idle" => call'[r] = call[r]

(* It dooms keys that are listed. *)
DoomsListed(r) ==
  \A k \in doomed'[r] :
    k \in doomed[r] \/ \E id \in OrgIds : \E l \in Listed(id) : k = l.keyId

OthersAlone(r) ==
  \A q \in Requests \ {r} :
    UNCHANGED <<pc[q], call[q], entity[q], version[q], doomed[q], checked[q]>>

KeyStep(r) ==
  ListsGrow(r) /\ PairsMove(r) /\ MovesOn(r) /\ DoomsListed(r) /\ OthersAlone(r)
    /\ RepositoryStep

(* A step that changes neither the lists nor the pairs nor what is doomed. *)
LEMMA QuietStep ==
  ASSUME TypeInv, NEW r \in Requests, NEW stage, Continue(r, stage),
         UNCHANGED <<docs, cas, pairs>>, pc[r] \notin Answered,
         stage \in Answered \/ (pc[r] # "save" /\ stage # "save")
  PROVE  KeyStep(r)
<1>1. pc'[r] = stage /\ call' = call /\ doomed' = doomed
  BY DEF Continue, TypeInv, TypeOK
<1>2. ListsGrow(r) /\ RepositoryStep
  BY DEF ListsGrow, Listed, RepositoryStep
<1>3. PairsMove(r) /\ DoomsListed(r)
  BY <1>1 DEF PairsMove, DoomsListed
<1>4. MovesOn(r)
  BY <1>1 DEF MovesOn, Answered
<1>5. OthersAlone(r)
  BY DEF OthersAlone, Continue, TypeInv, TypeOK
<1> QED BY <1>2, <1>3, <1>4, <1>5 DEF KeyStep

LEMMA RefusedStep ==
  ASSUME TypeInv, NEW r \in Requests, pc[r] \notin Answered, Refuse(r)
  PROVE  KeyStep(r)
BY QuietStep DEF Refuse, repositoryVars, Answered

LEMMA CommitKeys ==
  ASSUME TypeInv, Coherent, NEW r \in Requests, Commit(r)
  PROVE  KeyStep(r)
<1> DEFINE c == call[r]
           o == docs[c.org]
<1>1. PICK answer \in Answered : Continue(r, answer)
  BY DEF Commit
<1>2. /\ c \in Calls /\ c.org \in OrgIds /\ pc[r] = "save"
      /\ docs' = [docs EXCEPT ![c.org] = entity[r]]
      /\ docs'[c.org] = entity[r]
  BY CommitIsAtomic
<1>3. pc'[r] = answer /\ call' = call /\ doomed' = doomed /\ pairs' = pairs
  BY <1>1 DEF Commit, Continue, TypeInv, TypeOK
<1>4. RepositoryStep
  BY <1>2 DEF Commit, Save, RepositoryStep, TypeInv, TypeOK, RepositoryTypeOK
<1>5. entity[r] # NoOrg
  BY <1>2 DEF TypeInv, StagesMatch, Prepared
<1>6. ASSUME NEW k \in entity[r].apiKeys
      PROVE  \/ k \in Listed(c.org)
             \/ c.op = "addOrganizationApiKey" /\ k = BuildApiKey(c, r)
  <2>1. CASE entity[r] = NewOrganization(c.name, c.caller)
    BY <1>6, <2>1 DEF NewOrganization
  <2>2. CASE /\ c.op \notin {"createOrganization", "deleteOrganization"}
             /\ o \in Organizations
             /\ entity[r] = Effect(c, o, r)
    <3>1. Listed(c.org) = o.apiKeys
      BY <2>2, NoOrgAssumption DEF Listed
    <3> QED BY <1>2, <1>6, <2>2, <3>1, EffectOnKeys
  <2> QED BY <2>1, <2>2, CommitIsAtomic
<1>7. ListsGrow(r)
  <2> SUFFICES ASSUME NEW id \in OrgIds, NEW k \in Listed(id)'
               PROVE  \/ k \in Listed(id)
                      \/ /\ pc[r] = "save" /\ c.op = "addOrganizationApiKey"
                         /\ pc'[r] \in Answered
                         /\ id = c.org /\ k = BuildApiKey(c, r)
    BY DEF ListsGrow
  <2>1. CASE id = c.org
    <3>1. k \in entity[r].apiKeys
      BY <1>2, <1>5, <2>1 DEF Listed
    <3> QED BY <1>2, <1>3, <1>6, <2>1, <3>1
  <2>2. CASE id # c.org
    <3>1. docs'[id] = docs[id]
      BY <1>2, <2>2 DEF TypeInv, TypeOK, RepositoryTypeOK
    <3> QED BY <3>1 DEF Listed
  <2> QED BY <2>1, <2>2
<1>8. PairsMove(r) /\ DoomsListed(r)
  BY <1>3 DEF PairsMove, DoomsListed
<1>9. MovesOn(r)
  BY <1>2, <1>3 DEF MovesOn, Answered
<1>10. OthersAlone(r)
  BY <1>1 DEF OthersAlone, Continue, TypeInv, TypeOK
<1> QED BY <1>4, <1>7, <1>8, <1>9, <1>10 DEF KeyStep

LEMMA ProcessKeys ==
  ASSUME TypeInv, NEW r \in Requests, NEW op, NEW stage, ProcessDefs(r, op, stage)
  PROVE  KeyStep(r)
<1> DEFINE c == call[r]
           o == docs[c.org]
<1>1. /\ c \in Calls /\ c.op = op /\ pc[r] = "process" /\ c.org \in OrgIds
      /\ o \in Organizations \cup {NoOrg}
  BY CallFields DEF TypeInv, TypeOK, RepositoryTypeOK, ProcessDefs, Process
<1>2. CASE ~(o # NoOrg /\ Permits(c, o))
  BY <1>1, <1>2, RefusedStep DEF ProcessDefs, Process, FindById, Answered
<1>3. CASE o # NoOrg /\ Permits(c, o)
  <2>1. PICK keys \in DoomedKeys(c, o) : doomed' = [doomed EXCEPT ![r] = keys]
    BY <1>3 DEF ProcessDefs, Process, FindById
  <2>2. /\ pc' = [pc EXCEPT ![r] = stage]
        /\ entity' = [entity EXCEPT ![r] = Effect(c, o, r)]
        /\ version' = [version EXCEPT ![r] = cas[c.org]]
        /\ UNCHANGED <<call, checked, pairs, docs, cas, indexed>>
    BY <1>3 DEF ProcessDefs, Process, FindById, repositoryVars
  <2>3. ListsGrow(r) /\ RepositoryStep /\ PairsMove(r)
    BY <2>2 DEF ListsGrow, Listed, RepositoryStep, PairsMove
  <2>4. \A k \in keys : \E l \in Listed(c.org) : k = l.keyId
    BY <1>3, <2>1 DEF DoomedKeys, KeyIdsOf, MatchingKeys, Listed
  <2>5. DoomsListed(r)
    BY <1>1, <2>1, <2>4 DEF DoomsListed, TypeInv, TypeOK
  <2>6. op = "addOrganizationApiKey" => stage = "storePair"
    BY DEF ProcessDefs
  <2>7. pc'[r] = stage /\ call' = call
    BY <2>2 DEF TypeInv, TypeOK
  <2>8. MovesOn(r)
    BY <1>1, <2>6, <2>7 DEF MovesOn, Answered
  <2>9. OthersAlone(r)
    BY <2>1, <2>2 DEF OthersAlone, TypeInv, TypeOK
  <2> QED BY <2>3, <2>5, <2>8, <2>9 DEF KeyStep
<1> QED BY <1>2, <1>3

(* Every step is one of these, a late try, or nothing the invariant speaks of. *)
LEMMA StepsAreKeySteps ==
  ASSUME TypeInv, Coherent, [Next]_vars
  PROVE  \/ \E r \in Requests : KeyStep(r) /\ (Receive(r) \/ Advance(r) \/ Abort(r))
         \/ \E k \in KeyIds : LateStore(k) \/ LateDeletion(k)
         \/ UNCHANGED <<docs, cas, pairs, requestVars>>
<1> DEFINE Goal == \/ \E r \in Requests : KeyStep(r) /\ (Receive(r) \/ Advance(r) \/ Abort(r))
                   \/ \E k \in KeyIds : LateStore(k) \/ LateDeletion(k)
                   \/ UNCHANGED <<docs, cas, pairs, requestVars>>
<1>1. ASSUME NEW r \in Requests, Receive(r) PROVE KeyStep(r)
  <2>1. PICK c \in Workload : /\ call' = [call EXCEPT ![r] = c]
                             /\ pc' = [pc EXCEPT ![r] = FirstStage(c.op)]
    BY <1>1 DEF Receive
  <2>2. UNCHANGED <<entity, version, doomed, checked, pairs, docs, cas>> /\ pc[r] = "idle"
    BY <1>1 DEF Receive, repositoryVars
  <2>3. pc'[r] = FirstStage(c.op)
    BY <2>1 DEF TypeInv, TypeOK
  <2>4. ListsGrow(r) /\ RepositoryStep /\ PairsMove(r) /\ DoomsListed(r)
    BY <2>2 DEF ListsGrow, Listed, RepositoryStep, PairsMove, DoomsListed
  <2>5. MovesOn(r)
    BY <2>2, <2>3 DEF MovesOn, FirstStage, Answered
  <2>6. OthersAlone(r)
    BY <2>1, <2>2 DEF OthersAlone, TypeInv, TypeOK
  <2> QED BY <2>4, <2>5, <2>6 DEF KeyStep
<1>2. ASSUME NEW r \in Requests, CheckName(r) PROVE KeyStep(r)
  BY <1>2, RefusedStep, QuietStep DEF CheckName, repositoryVars, Answered
<1>3. ASSUME NEW r \in Requests, NEW op, NEW accepted, Validate(r, op, accepted)
      PROVE  KeyStep(r)
  <2>1. CASE Refuse(r)
    BY <1>3, <2>1, RefusedStep DEF Validate, Answered
  <2>2. CASE /\ pc' = [pc EXCEPT ![r] = "process"]
             /\ checked' = [checked EXCEPT ![r] = cas[call[r].org]]
             /\ UNCHANGED <<call, entity, version, doomed, pairs, repositoryVars>>
    <3>1. pc'[r] = "process" /\ pc[r] = "validate"
      BY <1>3, <2>2 DEF Validate, TypeInv, TypeOK
    <3>2. ListsGrow(r) /\ RepositoryStep /\ PairsMove(r) /\ DoomsListed(r)
      BY <2>2 DEF ListsGrow, Listed, RepositoryStep, PairsMove, DoomsListed, repositoryVars
    <3>3. MovesOn(r)
      BY <2>2, <3>1 DEF MovesOn, Answered
    <3>4. OthersAlone(r)
      BY <2>2 DEF OthersAlone, TypeInv, TypeOK
    <3> QED BY <3>2, <3>3, <3>4 DEF KeyStep
  <2> QED BY <1>3, <2>1, <2>2 DEF Validate
<1>4. ASSUME NEW r \in Requests, ValidateRoleUpdate(r) \/ ValidateApiKeyName(r)
      PROVE  KeyStep(r)
  BY <1>3, <1>4 DEF ValidateRoleUpdate, ValidateApiKeyName
<1>5. ASSUME NEW r \in Requests, CreateOrganization(r) PROVE KeyStep(r)
  <2>1. /\ pc' = [pc EXCEPT ![r] = "save"]
        /\ entity' = [entity EXCEPT ![r] = NewOrganization(call[r].name, call[r].caller)]
        /\ version' = [version EXCEPT ![r] = 0]
        /\ UNCHANGED <<call, doomed, checked, pairs, docs, cas>>
        /\ call[r].op = "createOrganization" /\ pc[r] = "process"
    BY <1>5 DEF CreateOrganization, repositoryVars
  <2>2. ListsGrow(r) /\ RepositoryStep /\ PairsMove(r) /\ DoomsListed(r)
    BY <2>1 DEF ListsGrow, Listed, RepositoryStep, PairsMove, DoomsListed
  <2>3. MovesOn(r)
    BY <2>1 DEF MovesOn, Answered
  <2>4. OthersAlone(r)
    BY <2>1 DEF OthersAlone, TypeInv, TypeOK
  <2> QED BY <2>2, <2>3, <2>4 DEF KeyStep
<1>6. ASSUME NEW r \in Requests, ProcessStep(r) PROVE KeyStep(r)
  BY <1>6, ProcessStepIsProcess, ProcessKeys
<1>7. ASSUME NEW r \in Requests, StorePair(r) \/ DeletePair(r) PROVE KeyStep(r)
  <2>1. /\ Continue(r, "save") /\ UNCHANGED <<docs, cas>>
        /\ pc[r] \in {"storePair", "deletePair"}
    BY <1>7 DEF StorePair, DeletePair, repositoryVars
  <2>2. pc'[r] = "save" /\ call' = call /\ doomed' = doomed /\ r \in KeyIds
    BY <2>1, RequestsAssumption DEF Continue, TypeInv, TypeOK
  <2>3. ListsGrow(r) /\ RepositoryStep /\ DoomsListed(r)
    BY <2>1, <2>2 DEF ListsGrow, Listed, RepositoryStep, DoomsListed
  <2>4. PairsMove(r)
    <3>1. CASE StorePair(r)
      BY <2>2, <3>1 DEF StorePair, StoreKeyPair, PairsMove, TypeInv, TypeOK, KeyStoreTypeOK
    <3>2. CASE DeletePair(r)
      BY <2>2, <3>2 DEF DeletePair, DeleteKeyPairs, PairsMove
    <3> QED BY <1>7, <3>1, <3>2
  <2>5. MovesOn(r)
    <3>1. CASE StorePair(r)
      BY <2>1, <2>2, <3>1
      DEF StorePair, StoreKeyPair, MovesOn, Answered, TypeInv, TypeOK, KeyStoreTypeOK
    <3>2. CASE DeletePair(r)
      <4>1. call[r].op = "deleteOrganizationApiKey" /\ pc[r] = "deletePair"
        BY <3>2 DEF DeletePair, TypeInv, StagesMatch
      <4> QED BY <2>2, <4>1 DEF MovesOn, Answered
    <3> QED BY <1>7, <3>1, <3>2
  <2>6. OthersAlone(r)
    BY <2>1 DEF OthersAlone, Continue, TypeInv, TypeOK
  <2> QED BY <2>3, <2>4, <2>5, <2>6 DEF KeyStep
<1>8. ASSUME NEW r \in Requests, Commit(r) PROVE KeyStep(r)
  BY <1>8, CommitKeys
<1>9. ASSUME NEW r \in Requests, Conflict(r) \/ Abort(r) PROVE KeyStep(r)
  BY <1>9, RefusedStep DEF Conflict, Abort, InFlight, Prepared, Answered
<1>10. ASSUME NEW r \in Requests, Remove(r) PROVE KeyStep(r)
  <2>1. CASE Refuse(r)
    BY <1>10, <2>1, RefusedStep DEF Remove, Answered
  <2>2. CASE DeleteById(call[r].org) /\ Continue(r, "purge") /\ UNCHANGED pairs
    <3>1. call[r].org \in OrgIds /\ pc[r] = "remove"
      BY <1>10, CallFields DEF Remove, TypeInv, TypeOK
    <3>2. pc'[r] = "purge" /\ call' = call /\ doomed' = doomed
      BY <2>2 DEF Continue, TypeInv, TypeOK
    <3>3. RepositoryStep
      BY <2>2, <3>1 DEF DeleteById, RepositoryStep, TypeInv, TypeOK, RepositoryTypeOK
    <3>4. ListsGrow(r)
      BY <2>2, <3>1 DEF DeleteById, ListsGrow, Listed, TypeInv, TypeOK, RepositoryTypeOK
    <3>5. PairsMove(r) /\ DoomsListed(r)
      BY <2>2, <3>2 DEF PairsMove, DoomsListed
    <3>6. MovesOn(r)
      BY <3>1, <3>2 DEF MovesOn, Answered
    <3>7. OthersAlone(r)
      BY <2>2 DEF OthersAlone, Continue, TypeInv, TypeOK
    <3> QED BY <3>3, <3>4, <3>5, <3>6, <3>7 DEF KeyStep
  <2> QED BY <1>10, <2>1, <2>2 DEF Remove
<1>11. ASSUME NEW r \in Requests, Purge(r) PROVE KeyStep(r)
  <2>1. PICK k \in doomed[r] :
          /\ doomed' = [doomed EXCEPT ![r] = @ \ {k}]
          /\ \/ DeleteKeyPairs({k}) /\ UNCHANGED pc
             \/ pc' = [pc EXCEPT ![r] = "failed"] /\ UNCHANGED pairs
    BY <1>11 DEF Purge
  <2>2. /\ UNCHANGED <<call, entity, version, checked, docs, cas, indexed>>
        /\ pc[r] = "purge" /\ pc'[r] \in {"purge", "failed"}
    BY <1>11, <2>1 DEF Purge, repositoryVars, TypeInv, TypeOK
  <2>3. ListsGrow(r) /\ RepositoryStep
    BY <2>2 DEF ListsGrow, Listed, RepositoryStep
  <2>4. PairsMove(r)
    BY <2>1, <2>2 DEF PairsMove, DeleteKeyPairs
  <2>5. DoomsListed(r)
    BY <2>1 DEF DoomsListed, TypeInv, TypeOK
  <2>6. MovesOn(r)
    BY <2>2 DEF MovesOn, Answered
  <2>7. OthersAlone(r)
    BY <2>1, <2>2 DEF OthersAlone, TypeInv, TypeOK
  <2> QED BY <2>3, <2>4, <2>5, <2>6, <2>7 DEF KeyStep
<1>12. ASSUME NEW r \in Requests, Purged(r) PROVE KeyStep(r)
  BY <1>12, QuietStep DEF Purged, repositoryVars, Answered
<1>13. ASSUME NEW r \in Requests, Receive(r) \/ Advance(r) \/ Abort(r) PROVE Goal
  BY <1>1, <1>2, <1>4, <1>5, <1>6, <1>7, <1>8, <1>9, <1>10, <1>11, <1>12, <1>13
  DEF Advance, ProcessStep
<1>14. ASSUME NEW id \in OrgIds, CatchUp(id) PROVE Goal
  BY <1>14 DEF CatchUp, Reindex
<1>15. ASSUME UNCHANGED vars PROVE Goal
  BY <1>15 DEF vars, requestVars
<1> QED BY <1>13, <1>14, <1>15 DEF Next, Idle

-----------------------------------------------------------------------------
(* The invariant holds initially. *)
LEMMA KeysInit == Init => KeysInv
<1> SUFFICES ASSUME Init PROVE KeysInv
  OBVIOUS
<1>1. docs \in InitialDocs /\ docs \in [OrgIds -> Organizations \cup {NoOrg}]
  BY RepositoryAssumption DEF Init, RepositoryInit
<1>2. \A r \in Requests : pc[r] = "idle" /\ doomed[r] = {} /\ call[r] = NoCall
  BY DEF Init
<1>3. KeysListedOnce
  BY <1>1, InitialDocsAssumption DEF KeysListedOnce, Listed
<1>4. ASSUME NEW id \in OrgIds, NEW k \in Listed(id)
      PROVE  k.keyId \in KeyIds \ Requests /\ pairs[k.keyId] = "stored"
  <2>1. docs[id] # NoOrg /\ k \in docs[id].apiKeys
    BY <1>4 DEF Listed
  <2>2. docs[id] \in Organizations
    BY <1>1, <2>1
  <2>3. k.keyId \in KeyIds
    BY <2>1, <2>2, OrganizationFields DEF ApiKeys
  <2>4. k.keyId \in KeyIdsOf(docs[id])
    BY <2>1 DEF KeyIdsOf
  <2>5. k.keyId \notin Requests
    BY <1>1, <2>1, <2>4, InitialDocsAssumption
  <2> QED BY <2>1, <2>3, <2>4, <2>5 DEF Init
<1>5. ListedWereAdded
  BY <1>4 DEF ListedWereAdded
<1>6. DoomedWereAdded
  BY <1>2 DEF DoomedWereAdded
<1>7. ASSUME NEW r \in Requests
      PROVE  /\ FreshPair(r) /\ DoomedKey(r) /\ DoomedOrganization(r)
             /\ HeldWereAdded(r) /\ HoldsNothing(r)
  <2>1. r \in KeyIds
    BY RequestsAssumption
  <2>2. ~\E id \in OrgIds : docs[id] # NoOrg /\ r \in KeyIdsOf(docs[id])
    BY <1>1, InitialDocsAssumption
  <2>3. pairs[r] = "absent"
    BY <2>1, <2>2 DEF Init
  <2>4. call[r].op = "none" /\ entity[r] = NoOrg
    BY <1>2 DEF Init, NoCall
  <2> QED
    BY <1>2, <2>3, <2>4
    DEF FreshPair, DoomedKey, DoomedOrganization, HeldWereAdded, HoldsNothing
<1>8. ListedKeyKilledByKeyDeletion
  <2> SUFFICES ASSUME NEW id \in OrgIds, docs[id] # NoOrg, NEW k \in docs[id].apiKeys
               PROVE  pairs[k.keyId] # "deleted"
    BY DEF ListedKeyKilledByKeyDeletion
  <2>1. k \in Listed(id)
    BY DEF Listed
  <2> QED BY <1>4, <2>1
<1> QED BY <1>3, <1>5, <1>6, <1>7, <1>8 DEF KeysInv

-----------------------------------------------------------------------------
(* It is kept, part by part. *)

LEMMA StagesStay ==
  ASSUME NEW r \in Requests, MovesOn(r), OthersAlone(r),
         NEW q \in Requests, pc[q] \in Answered
  PROVE  q # r /\ pc'[q] = pc[q]
BY DEF MovesOn, OthersAlone

(* Keys have ids. *)
LEMMA ListedTypes ==
  ASSUME TypeInv, NEW id \in OrgIds, NEW k \in Listed(id)
  PROVE  k.keyId \in KeyIds
BY OrganizationFields DEF Listed, TypeInv, TypeOK, RepositoryTypeOK, ApiKeys

LEMMA ListedOnceStays ==
  ASSUME KeysInv, NEW r \in Requests, ListsGrow(r)
  PROVE  KeysListedOnce'
<1> SUFFICES ASSUME NEW id \in OrgIds, NEW other \in OrgIds,
                    NEW k \in Listed(id)', NEW l \in Listed(other)', k.keyId = l.keyId
             PROVE  id = other /\ k = l
  BY DEF KeysListedOnce
<1>1. CASE k \in Listed(id) /\ l \in Listed(other)
  BY <1>1 DEF KeysInv, KeysListedOnce
<1>2. \A i \in OrgIds : \A m \in Listed(i) : m.keyId = r => pc[r] # "save"
  BY DEF KeysInv, ListedWereAdded, Answered
<1>3. CASE k \notin Listed(id) \/ l \notin Listed(other)
  <2>1. k.keyId = r /\ l.keyId = r /\ pc[r] = "save"
    BY <1>3 DEF ListsGrow, BuildApiKey
  <2> QED BY <1>2, <2>1 DEF ListsGrow
<1> QED BY <1>1, <1>3

LEMMA ListedWereAddedStays ==
  ASSUME TypeInv, KeysInv, NEW r \in Requests, KeyStep(r)
  PROVE  ListedWereAdded'
<1> SUFFICES ASSUME NEW id \in OrgIds, NEW k \in Listed(id)'
             PROVE  /\ pairs'[k.keyId] # "absent"
                    /\ k.keyId \in Requests => pc'[k.keyId] \in Answered
  BY DEF ListedWereAdded
<1> USE DEF KeyStep
<1>1. CASE k \in Listed(id)
  <2>1. pairs[k.keyId] # "absent" /\ (k.keyId \in Requests => pc[k.keyId] \in Answered)
    BY <1>1 DEF KeysInv, ListedWereAdded
  <2>2. k.keyId \in KeyIds
    BY <1>1, ListedTypes
  <2> QED BY <2>1, <2>2, StagesStay DEF PairsMove
<1>2. CASE /\ pc[r] = "save" /\ call[r].op = "addOrganizationApiKey"
           /\ pc'[r] \in Answered /\ k = BuildApiKey(call[r], r)
  <2>1. k.keyId = r
    BY <1>2 DEF BuildApiKey
  <2>2. pairs[r] = "stored" /\ r \in KeyIds
    BY <1>2, RequestsAssumption DEF KeysInv, FreshPair
  <2> QED BY <1>2, <2>1, <2>2 DEF PairsMove
<1> QED BY <1>1, <1>2 DEF ListsGrow

LEMMA DoomedWereAddedStays ==
  ASSUME TypeInv, KeysInv, NEW r \in Requests, KeyStep(r)
  PROVE  DoomedWereAdded'
<1> SUFFICES ASSUME NEW q \in Requests, NEW k \in doomed'[q]
             PROVE  pairs'[k] # "absent" /\ (k \in Requests => pc'[k] \in Answered)
  BY DEF DoomedWereAdded
<1> USE DEF KeyStep
<1>1. k \in KeyIds /\ pairs[k] # "absent" /\ (k \in Requests => pc[k] \in Answered)
  <2>1. CASE k \in doomed[q]
    BY <2>1 DEF KeysInv, DoomedWereAdded, TypeInv, TypeOK
  <2>2. CASE k \notin doomed[q]
    <3>1. q = r
      BY <2>2 DEF OthersAlone
    <3>2. PICK id \in OrgIds : \E l \in Listed(id) : k = l.keyId
      BY <2>2, <3>1 DEF DoomsListed
    <3> QED BY <3>2, ListedTypes DEF KeysInv, ListedWereAdded
  <2> QED BY <2>1, <2>2
<1> QED BY <1>1, StagesStay DEF PairsMove

LEMMA FreshPairStays ==
  ASSUME KeysInv, NEW r \in Requests, KeyStep(r), NEW q \in Requests
  PROVE  FreshPair(q)'
<1> USE DEF KeyStep
<1>1. q \in KeyIds /\ FreshPair(q)
  BY RequestsAssumption DEF KeysInv
<1>2. pc[q] \notin Answered => q \notin doomed[r]
  BY DEF KeysInv, DoomedWereAdded
<1>3. CASE q = r
  <2>1. pc[r] \notin Answered
    BY DEF MovesOn
  <2>2. pc'[r] \notin Answered \cup {"save"} => pairs'[r] = "absent"
    <3> SUFFICES ASSUME pc'[r] \notin Answered \cup {"save"} PROVE pairs'[r] = "absent"
      OBVIOUS
    <3>1. pc[r] # "save"
      BY DEF MovesOn
    <3>2. pairs[r] = "absent"
      BY <1>1, <1>3, <2>1, <3>1 DEF FreshPair
    <3> QED BY <1>1, <1>2, <1>3, <2>1, <3>2 DEF PairsMove
  <2> QED BY <1>3, <2>2 DEF FreshPair, MovesOn
<1>4. CASE q # r
  <2>1. pc'[q] = pc[q] /\ call'[q] = call[q]
    BY <1>4 DEF OthersAlone
  <2>2. pc[q] \notin Answered => pairs'[q] = pairs[q]
    BY <1>1, <1>2, <1>4 DEF PairsMove
  <2> QED BY <1>1, <2>1, <2>2 DEF FreshPair, Answered
<1> QED BY <1>3, <1>4

(* A key that is listed after a step and doomed before it was listed before. *)
LEMMA DoomedNotAdded ==
  ASSUME KeysInv, NEW r \in Requests, ListsGrow(r),
         NEW q \in Requests, NEW id \in OrgIds, NEW k \in Listed(id)',
         k.keyId \in doomed[q]
  PROVE  k \in Listed(id)
<1> SUFFICES ASSUME pc[r] = "save", k.keyId = r
             PROVE  FALSE
  BY DEF ListsGrow, BuildApiKey
<1> QED BY DEF KeysInv, DoomedWereAdded, Answered

(* A deleted pair stays so for the steps of requests. *)
LEMMA DeletedStays ==
  ASSUME KeysInv, NEW r \in Requests, PairsMove(r), NEW k \in KeyIds,
         WasDeleted(k)
  PROVE  WasDeleted(k)'
<1>1. k = r => pc[r] # "storePair"
  BY DEF KeysInv, FreshPair, Answered, WasDeleted
<1> QED BY <1>1 DEF PairsMove, WasDeleted

(* What other requests have doomed. *)
LEMMA OthersDoomedKey ==
  ASSUME TypeInv, Coherent, KeysInv, NEW r \in Requests, KeyStep(r),
         NEW q \in Requests \ {r}
  PROVE  DoomedKey(q)'
<1> USE DEF KeyStep
<1> DEFINE c == call[q]
<1>1. UNCHANGED <<pc[q], call[q], entity[q], version[q], doomed[q], checked[q]>>
  BY DEF OthersAlone
<1> SUFFICES ASSUME c.op = "deleteOrganizationApiKey"
             PROVE  /\ \A id \in OrgIds : \A k \in Listed(id)' :
                         k.keyId \in doomed[q] =>
                           id = c.org /\ SameIgnoringCase(k.name, c.keyName)
                    /\ pc[q] \in {"deletePair", "save"} =>
                         (IsCurrent(q)' => doomed[q] \in DoomedKeys(c, docs'[c.org]))
                    /\ pc[q] = "save" => \A k \in doomed[q] : WasDeleted(k)'
  BY <1>1 DEF DoomedKey
<1>2. DoomedKey(q)
  BY DEF KeysInv
<1>3. \A id \in OrgIds : \A k \in Listed(id)' :
        k.keyId \in doomed[q] => id = c.org /\ SameIgnoringCase(k.name, c.keyName)
  BY <1>2, DoomedNotAdded DEF DoomedKey
<1>4. ASSUME pc[q] \in {"deletePair", "save"}
      PROVE  IsCurrent(q)' => doomed[q] \in DoomedKeys(c, docs'[c.org])
  <2>1. c.org \in OrgIds /\ cas[c.org] \in Nat
    BY <1>4, CallFields DEF TypeInv, TypeOK, RepositoryTypeOK
  <2>2. version[q] \in 1..cas[c.org]
    BY <1>4 DEF Coherent, PreparedIsCurrent, Prepared
  <2>3. IsCurrent(q)' => IsCurrent(q) /\ docs'[c.org] = docs[c.org]
    BY <1>1, <2>1, <2>2 DEF IsCurrent, RepositoryStep
  <2> QED BY <1>2, <1>4, <2>3 DEF DoomedKey
<1>5. pc[q] = "save" => \A k \in doomed[q] : WasDeleted(k)'
  <2>1. doomed[q] \in SUBSET KeyIds
    BY DEF TypeInv, TypeOK
  <2> QED BY <1>2, <2>1, DeletedStays DEF DoomedKey
<1> QED BY <1>3, <1>4, <1>5

LEMMA OthersDoomedOrganization ==
  ASSUME TypeInv, KeysInv, NEW r \in Requests, KeyStep(r), NEW q \in Requests \ {r}
  PROVE  DoomedOrganization(q)'
<1> USE DEF KeyStep
<1>1. UNCHANGED <<pc[q], call[q], entity[q], version[q], doomed[q], checked[q]>>
  BY DEF OthersAlone
<1> SUFFICES ASSUME call[q].op = "deleteOrganization"
             PROVE  /\ pc[q] \in {"remove", "purge", "succeeded"} => entity[q] # NoOrg
                    /\ pc[q] = "remove" =>
                         /\ doomed[q] = KeyIdsOf(entity[q])
                         /\ \A id \in OrgIds : \A k \in Listed(id)' :
                              k.keyId \in doomed[q] => id = call[q].org
                    /\ pc[q] = "purge" =>
                         \A id \in OrgIds : \A k \in Listed(id)' : k.keyId \notin doomed[q]
                    /\ pc[q] \in {"purge", "succeeded"} =>
                         \A k \in KeyIdsOf(entity[q]) :
                           WasDeleted(k)' \/ (pc[q] = "purge" /\ k \in doomed[q])
  BY <1>1 DEF DoomedOrganization
<1>2. DoomedOrganization(q) /\ HeldWereAdded(q)
  BY DEF KeysInv
<1>3. ASSUME NEW k \in KeyIdsOf(entity[q]), pc[q] \in {"purge", "succeeded"}
      PROVE  WasDeleted(k)' \/ (pc[q] = "purge" /\ k \in doomed[q])
  <2>1. CASE WasDeleted(k)
    <3>1. k \in KeyIds
      BY <1>2, <1>3 DEF DoomedOrganization, HeldWereAdded
    <3> QED BY <2>1, <3>1, DeletedStays
  <2> QED BY <1>2, <1>3, <2>1 DEF DoomedOrganization
<1> QED BY <1>2, <1>3, DoomedNotAdded DEF DoomedOrganization

(* What a request holds, unless it has only just read it. *)
LEMMA HeldStays ==
  ASSUME TypeInv, KeysInv, NEW r \in Requests, KeyStep(r), NEW q \in Requests,
         UNCHANGED <<call[q], entity[q]>>,
         \A k \in doomed[q] \ doomed'[q] :
           \A id \in OrgIds : \A l \in Listed(id) : l.keyId # k
  PROVE  HeldWereAdded(q)'
<1> USE DEF KeyStep
<1> SUFFICES ASSUME call[q].op = "deleteOrganization", entity[q] # NoOrg
             PROVE  /\ \A k \in KeyIdsOf(entity[q]) :
                         /\ k \in KeyIds /\ pairs'[k] # "absent"
                         /\ k \in Requests => pc'[k] \in Answered
                    /\ \A id \in OrgIds : \A k \in Listed(id)' :
                         k.keyId \in KeyIdsOf(entity[q]) => k.keyId \in doomed'[q]
  BY DEF HeldWereAdded
<1>1. /\ \A k \in KeyIdsOf(entity[q]) :
           k \in KeyIds /\ pairs[k] # "absent" /\ (k \in Requests => pc[k] \in Answered)
      /\ \A id \in OrgIds : \A k \in Listed(id) :
           k.keyId \in KeyIdsOf(entity[q]) => k.keyId \in doomed[q]
  BY DEF KeysInv, HeldWereAdded
<1>2. \A k \in KeyIdsOf(entity[q]) :
        /\ k \in KeyIds /\ pairs'[k] # "absent"
        /\ k \in Requests => pc'[k] \in Answered
  BY <1>1, StagesStay DEF PairsMove
<1>3. ASSUME NEW id \in OrgIds, NEW k \in Listed(id)', k.keyId \in KeyIdsOf(entity[q])
      PROVE  k.keyId \in doomed'[q]
  <2>1. k \in Listed(id)
    <3> SUFFICES ASSUME pc[r] = "save", k.keyId = r
                 PROVE  FALSE
      BY <1>3 DEF ListsGrow, BuildApiKey
    <3> QED BY <1>1, <1>3 DEF Answered
  <2> QED BY <1>1, <1>3, <2>1
<1> QED BY <1>2, <1>3

(* What the request that moves has doomed. *)
LEMMA SameKeysDoomed ==
  ASSUME KeysInv, NEW r \in Requests, UNCHANGED <<call[r], doomed[r]>>,
         \A id \in OrgIds : Listed(id)' \subseteq Listed(id),
         pc'[r] \notin {"deletePair", "save"}
  PROVE  DoomedKey(r)'
BY DEF DoomedKey, KeysInv

LEMMA RefusedDooms ==
  ASSUME TypeInv, KeysInv, NEW r \in Requests, pc[r] # "idle", Refuse(r)
  PROVE  DoomedKey(r)' /\ DoomedOrganization(r)'
<1>1. pc'[r] = "failed" /\ UNCHANGED <<call, doomed, docs>>
  BY DEF Refuse, Continue, repositoryVars, TypeInv, TypeOK
<1>2. DoomedKey(r)'
  BY <1>1, SameKeysDoomed DEF Listed
<1> QED BY <1>1, <1>2 DEF DoomedOrganization

LEMMA ProcessDooms ==
  ASSUME TypeInv, KeysInv, NEW r \in Requests, NEW op, NEW stage,
         ProcessDefs(r, op, stage)
  PROVE  DoomedKey(r)' /\ DoomedOrganization(r)'
<1> DEFINE c == call[r]
           o == docs[c.org]
<1>1. /\ c \in Calls /\ c.op = op /\ c.org \in OrgIds /\ o \in Organizations \cup {NoOrg}
  BY CallFields DEF TypeInv, TypeOK, RepositoryTypeOK, ProcessDefs, Process
<1>2. CASE ~(o # NoOrg /\ Permits(c, o))
  BY <1>1, <1>2, RefusedDooms DEF ProcessDefs, Process, FindById
<1>3. CASE o # NoOrg /\ Permits(c, o)
  <2>1. PICK keys \in DoomedKeys(c, o) : doomed' = [doomed EXCEPT ![r] = keys]
    BY <1>3 DEF ProcessDefs, Process, FindById
  <2>2. /\ pc' = [pc EXCEPT ![r] = stage]
        /\ entity' = [entity EXCEPT ![r] = Effect(c, o, r)]
        /\ version' = [version EXCEPT ![r] = cas[c.org]]
        /\ UNCHANGED <<call, checked, pairs, docs, cas, indexed>>
    BY <1>3 DEF ProcessDefs, Process, FindById, repositoryVars
  <2>3. /\ pc'[r] = stage /\ doomed'[r] = keys /\ call'[r] = c /\ docs' = docs
        /\ entity'[r] = Effect(c, o, r)
        /\ \A id \in OrgIds : Listed(id)' = Listed(id)
    BY <2>1, <2>2 DEF TypeInv, TypeOK, Listed
  <2>4. Listed(c.org) = o.apiKeys
    BY <1>3 DEF Listed
  <2>5. DoomedKey(r)'
    <3> SUFFICES ASSUME op = "deleteOrganizationApiKey" PROVE DoomedKey(r)'
      BY <1>1, <2>3 DEF DoomedKey
    <3>1. stage = "deletePair"
      BY DEF ProcessDefs
    <3>2. ASSUME NEW id \in OrgIds, NEW k \in Listed(id), k.keyId \in keys
          PROVE  id = c.org /\ SameIgnoringCase(k.name, c.keyName)
      <4>1. PICK l \in MatchingKeys(o, c.keyName) : keys = {l.keyId}
        BY <1>1, <2>1, <3>2 DEF DoomedKeys
      <4>2. l \in Listed(c.org) /\ SameIgnoringCase(l.name, c.keyName)
        BY <2>4, <4>1 DEF MatchingKeys
      <4> QED BY <1>1, <3>2, <4>1, <4>2 DEF KeysInv, KeysListedOnce
    <3> QED BY <2>1, <2>3, <3>1, <3>2 DEF DoomedKey
  <2>6. DoomedOrganization(r)'
    <3> SUFFICES ASSUME op = "deleteOrganization" PROVE DoomedOrganization(r)'
      BY <1>1, <2>3 DEF DoomedOrganization
    <3>1. stage = "remove"
      BY DEF ProcessDefs
    <3>2. keys = KeyIdsOf(o) /\ keys \in SUBSET KeyIds /\ Effect(c, o, r) = o
      BY <1>1, <1>3, <2>1, DoomedKeysType DEF DoomedKeys, Effect
    <3>3. ASSUME NEW id \in OrgIds, NEW k \in Listed(id), k.keyId \in keys
          PROVE  id = c.org
      BY <1>1, <2>4, <3>2, <3>3 DEF KeyIdsOf, KeysInv, KeysListedOnce
    <3> QED BY <1>3, <2>3, <3>1, <3>2, <3>3 DEF DoomedOrganization
  <2> QED BY <2>5, <2>6
<1> QED BY <1>2, <1>3

LEMMA MoverDooms ==
  ASSUME TypeInv, Coherent, KeysInv, NEW r \in Requests,
         Receive(r) \/ Advance(r) \/ Abort(r)
  PROVE  DoomedKey(r)' /\ DoomedOrganization(r)'
<1>1. ASSUME Receive(r) PROVE DoomedKey(r)' /\ DoomedOrganization(r)'
  <2>1. PICK c \in Workload : pc' = [pc EXCEPT ![r] = FirstStage(c.op)]
    BY <1>1 DEF Receive
  <2>2. pc'[r] \in {"checkName", "validate", "process"}
    BY <2>1 DEF FirstStage, TypeInv, TypeOK
  <2>3. doomed'[r] = {}
    BY <1>1 DEF Receive, KeysInv, HoldsNothing
  <2> QED BY <2>2, <2>3 DEF DoomedKey, DoomedOrganization
<1>2. ASSUME CheckName(r) PROVE DoomedKey(r)' /\ DoomedOrganization(r)'
  <2>1. CASE Continue(r, "process")
    <3>1. pc'[r] = "process" /\ call' = call
      BY <2>1 DEF Continue, TypeInv, TypeOK
    <3>2. call[r].op \in {"createOrganization", "updateOrganization"}
      BY <1>2 DEF CheckName, TypeInv, StagesMatch
    <3> QED BY <3>1, <3>2 DEF DoomedKey, DoomedOrganization
  <2> QED BY <1>2, <2>1, RefusedDooms DEF CheckName
<1>3. ASSUME ValidateRoleUpdate(r) \/ ValidateApiKeyName(r)
      PROVE  DoomedKey(r)' /\ DoomedOrganization(r)'
  <2>1. CASE pc' = [pc EXCEPT ![r] = "process"] /\ call' = call
    <3>1. pc'[r] = "process"
      BY <2>1 DEF TypeInv, TypeOK
    <3>2. call[r].op \in {"updateOrganizationMemberRole", "addOrganizationApiKey"}
      BY <1>3 DEF ValidateRoleUpdate, ValidateApiKeyName, Validate
    <3> QED BY <2>1, <3>1, <3>2 DEF DoomedKey, DoomedOrganization
  <2> QED
    BY <1>3, <2>1, RefusedDooms DEF ValidateRoleUpdate, ValidateApiKeyName, Validate
<1>4. ASSUME CreateOrganization(r) PROVE DoomedKey(r)' /\ DoomedOrganization(r)'
  <2>1. pc'[r] = "save" /\ call'[r].op = "createOrganization"
    BY <1>4 DEF CreateOrganization, TypeInv, TypeOK
  <2> QED BY <2>1 DEF DoomedKey, DoomedOrganization
<1>5. ASSUME ProcessStep(r) PROVE DoomedKey(r)' /\ DoomedOrganization(r)'
  BY <1>5, ProcessStepIsProcess, ProcessDooms
<1>6. ASSUME StorePair(r) PROVE DoomedKey(r)' /\ DoomedOrganization(r)'
  <2>1. pc'[r] = "save" /\ call'[r].op = "addOrganizationApiKey"
    BY <1>6 DEF StorePair, Continue, TypeInv, TypeOK, StagesMatch
  <2> QED BY <2>1 DEF DoomedKey, DoomedOrganization
<1>7. ASSUME DeletePair(r) PROVE DoomedKey(r)' /\ DoomedOrganization(r)'
  <2>1. /\ pc[r] = "deletePair" /\ pc'[r] = "save"
        /\ call[r].op = "deleteOrganizationApiKey"
        /\ UNCHANGED <<call, entity, version, doomed, docs, cas>>
    BY <1>7 DEF DeletePair, Continue, TypeInv, TypeOK, StagesMatch, repositoryVars
  <2>2. \A k \in doomed[r] : WasDeleted(k)'
    BY <1>7 DEF DeletePair, DeleteKeyPairs, WasDeleted, TypeInv, TypeOK
  <2>3. DoomedKey(r)
    BY DEF KeysInv
  <2>4. (IsCurrent(r)' <=> IsCurrent(r)) /\ \A id \in OrgIds : Listed(id)' = Listed(id)
    BY <2>1 DEF IsCurrent, Listed
  <2>5. DoomedKey(r)'
    BY <2>1, <2>2, <2>3, <2>4 DEF DoomedKey
  <2>6. DoomedOrganization(r)'
    BY <2>1 DEF DoomedOrganization
  <2> QED BY <2>5, <2>6
<1>8. ASSUME Commit(r) PROVE DoomedKey(r)' /\ DoomedOrganization(r)'
  <2>1. /\ pc[r] = "save" /\ pc'[r] \in Answered /\ call[r].op # "deleteOrganization"
        /\ UNCHANGED <<call, doomed>>
    BY <1>8 DEF Commit, Continue, TypeInv, TypeOK, StagesMatch
  <2>2. call[r].op = "deleteOrganizationApiKey" =>
          \A id \in OrgIds : Listed(id)' \subseteq Listed(id)
    BY <1>8, CommitKeys DEF KeyStep, ListsGrow
  <2>3. CASE call[r].op = "deleteOrganizationApiKey"
    BY <2>1, <2>2, <2>3, SameKeysDoomed DEF DoomedOrganization, Answered
  <2> QED BY <2>1, <2>3 DEF DoomedKey, DoomedOrganization
<1>9. ASSUME Conflict(r) \/ Abort(r) PROVE DoomedKey(r)' /\ DoomedOrganization(r)'
  BY <1>9, RefusedDooms DEF Conflict, Abort, InFlight, Prepared
<1>10. ASSUME Remove(r) PROVE DoomedKey(r)' /\ DoomedOrganization(r)'
  <2>1. CASE DeleteById(call[r].org) /\ Continue(r, "purge") /\ UNCHANGED pairs
    <3>1. /\ pc[r] = "remove" /\ pc'[r] = "purge" /\ call[r].op = "deleteOrganization"
          /\ UNCHANGED <<call, entity, doomed>>
      BY <1>10, <2>1 DEF Remove, Continue, TypeInv, TypeOK, StagesMatch
    <3>2. DoomedOrganization(r)
      BY DEF KeysInv
    <3>3. \A id \in OrgIds : id # call[r].org => Listed(id)' = Listed(id)
      BY <2>1 DEF DeleteById, Listed, TypeInv, TypeOK, RepositoryTypeOK
    <3>4. \A id \in OrgIds : id = call[r].org => Listed(id)' = {}
      BY <2>1 DEF DeleteById, Listed, TypeInv, TypeOK, RepositoryTypeOK
    <3> QED
      BY <3>1, <3>2, <3>3, <3>4 DEF DoomedKey, DoomedOrganization
  <2> QED BY <1>10, <2>1, RefusedDooms DEF Remove
<1>11. ASSUME Purge(r) PROVE DoomedKey(r)' /\ DoomedOrganization(r)'
  <2>1. PICK k \in doomed[r] :
          /\ doomed' = [doomed EXCEPT ![r] = @ \ {k}]
          /\ \/ DeleteKeyPairs({k}) /\ UNCHANGED pc
             \/ pc' = [pc EXCEPT ![r] = "failed"] /\ UNCHANGED pairs
    BY <1>11 DEF Purge
  <2>2. /\ UNCHANGED <<call, entity, docs>> /\ pc[r] = "purge"
        /\ call[r].op = "deleteOrganization"
    BY <1>11 DEF Purge, repositoryVars, TypeInv, StagesMatch
  <2>3. doomed'[r] = doomed[r] \ {k}
    BY <2>1 DEF TypeInv, TypeOK
  <2>4. DoomedOrganization(r) /\ HeldWereAdded(r)
    BY DEF KeysInv
  <2>5. CASE pc' = [pc EXCEPT ![r] = "failed"]
    BY <2>2, <2>5 DEF DoomedKey, DoomedOrganization, TypeInv, TypeOK
  <2>6. CASE DeleteKeyPairs({k}) /\ UNCHANGED pc
    <3>1. \A l \in KeyIds : l = k \/ WasDeleted(l) => WasDeleted(l)'
      BY <2>6 DEF DeleteKeyPairs, WasDeleted
    <3>2. KeyIdsOf(entity[r]) \subseteq KeyIds
      BY <2>2, <2>4 DEF DoomedOrganization, HeldWereAdded
    <3> QED
      BY <2>2, <2>3, <2>4, <2>6, <3>1, <3>2 DEF DoomedKey, DoomedOrganization, Listed
  <2> QED BY <2>1, <2>5, <2>6
<1>12. ASSUME Purged(r) PROVE DoomedKey(r)' /\ DoomedOrganization(r)'
  <2>1. /\ pc[r] = "purge" /\ pc'[r] = "succeeded" /\ doomed[r] = {}
        /\ UNCHANGED <<call, entity, doomed, pairs>>
        /\ call[r].op = "deleteOrganization"
    BY <1>12 DEF Purged, Continue, TypeInv, TypeOK, StagesMatch
  <2>2. DoomedOrganization(r)
    BY DEF KeysInv
  <2> QED BY <2>1, <2>2 DEF DoomedKey, DoomedOrganization, WasDeleted
<1> QED
  BY <1>1, <1>2, <1>3, <1>4, <1>5, <1>6, <1>7, <1>8, <1>9, <1>10, <1>11, <1>12
  DEF Advance, ProcessStep

(* What it holds, and that it held nothing before it started. *)
LEMMA MoverHolds ==
  ASSUME TypeInv, KeysInv, NEW r \in Requests, KeyStep(r),
         Receive(r) \/ Advance(r) \/ Abort(r)
  PROVE  HeldWereAdded(r)' /\ HoldsNothing(r)'
<1>1. ASSUME Receive(r) PROVE HeldWereAdded(r)'
  <2>1. entity'[r] = NoOrg
    BY <1>1 DEF Receive, KeysInv, HoldsNothing
  <2> QED BY <2>1 DEF HeldWereAdded
<1>2. ASSUME NEW op, NEW stage, ProcessDefs(r, op, stage) PROVE HeldWereAdded(r)'
  <2> DEFINE c == call[r]
             o == docs[c.org]
  <2>1. /\ c \in Calls /\ c.op = op /\ c.org \in OrgIds /\ o \in Organizations \cup {NoOrg}
    BY <1>2, CallFields DEF TypeInv, TypeOK, RepositoryTypeOK, ProcessDefs, Process
  <2>2. CASE Refuse(r)
    BY <2>2, HeldStays DEF Refuse, Continue
  <2>3. CASE o # NoOrg /\ ~Refuse(r)
    <3>1. /\ pc' = [pc EXCEPT ![r] = stage]
          /\ entity' = [entity EXCEPT ![r] = Effect(c, o, r)]
          /\ \E keys \in DoomedKeys(c, o) : doomed' = [doomed EXCEPT ![r] = keys]
          /\ UNCHANGED <<call, pairs, docs>>
      BY <1>2, <2>3 DEF ProcessDefs, Process, FindById, repositoryVars
    <3> SUFFICES ASSUME op = "deleteOrganization" PROVE HeldWereAdded(r)'
      BY <2>1, <3>1 DEF HeldWereAdded
    <3>2. entity'[r] = o /\ doomed'[r] = KeyIdsOf(o)
      BY <2>1, <3>1 DEF Effect, DoomedKeys, TypeInv, TypeOK
    <3>3. ASSUME NEW k \in KeyIdsOf(o)
          PROVE  /\ k \in KeyIds /\ pairs[k] # "absent"
                 /\ k \in Requests => pc[k] \in Answered
      <4>1. PICK l \in Listed(c.org) : k = l.keyId
        BY <2>3, <3>3 DEF KeyIdsOf, Listed
      <4> QED BY <2>1, <4>1, ListedTypes DEF KeysInv, ListedWereAdded
    <3>4. \A k \in KeyIdsOf(o) : k \in Requests => pc'[k] \in Answered
      BY <3>3, StagesStay DEF KeyStep
    <3> QED BY <3>1, <3>2, <3>3, <3>4 DEF HeldWereAdded
  <2>4. o = NoOrg => Refuse(r)
    BY <1>2 DEF ProcessDefs, Process, FindById
  <2> QED BY <2>2, <2>3, <2>4
<1>3. ASSUME ProcessStep(r) PROVE HeldWereAdded(r)'
  BY <1>2, <1>3, ProcessStepIsProcess
<1>4. ASSUME UNCHANGED <<call[r], entity[r], doomed[r]>> PROVE HeldWereAdded(r)'
  BY <1>4, HeldStays
<1>5. ASSUME CreateOrganization(r) PROVE HeldWereAdded(r)'
  BY <1>5 DEF CreateOrganization, HeldWereAdded
<1>6. ASSUME CheckName(r) \/ ValidateRoleUpdate(r) \/ ValidateApiKeyName(r)
      PROVE  HeldWereAdded(r)'
  BY <1>4, <1>6
  DEF CheckName, ValidateRoleUpdate, ValidateApiKeyName, Validate, Refuse, Continue
<1>7. ASSUME \/ StorePair(r) \/ DeletePair(r) \/ Commit(r) \/ Conflict(r)
             \/ Remove(r) \/ Purged(r) \/ Abort(r)
      PROVE  HeldWereAdded(r)'
  BY <1>4, <1>7
  DEF StorePair, DeletePair, Commit, Conflict, Remove, Purged, Abort, Refuse, Continue
<1>8. ASSUME Purge(r) PROVE HeldWereAdded(r)'
  <2>1. doomed'[r] \subseteq doomed[r] /\ UNCHANGED <<call, entity>>
    BY <1>8 DEF Purge, TypeInv, TypeOK
  <2>2. pc[r] = "purge" /\ call[r].op = "deleteOrganization"
    BY <1>8 DEF Purge, TypeInv, StagesMatch
  <2>3. \A id \in OrgIds : \A l \in Listed(id) : l.keyId \notin doomed[r]
    BY <2>2 DEF KeysInv, DoomedOrganization
  <2> QED BY <2>1, <2>3, HeldStays
<1>9. HoldsNothing(r)'
  <2>1. pc'[r] # "idle"
    BY AdvanceGoesOn, StagesInOrder DEF GoesOn, LeadsOn, Progress, TypeInv
  <2> QED BY <2>1 DEF HoldsNothing
<1> QED
  BY <1>1, <1>3, <1>5, <1>6, <1>7, <1>8, <1>9 DEF Advance, ProcessStep

(* A key that loses its pair while it is listed loses it to a request that
   deletes a key. *)
LEMMA KilledStays ==
  ASSUME TypeInv, KeysInv, NEW r \in Requests, KeyStep(r)
  PROVE  ListedKeyKilledByKeyDeletion'
<1> USE DEF KeyStep
<1> DEFINE Killer(q, id, k) ==
             /\ call[q].op = "deleteOrganizationApiKey"
             /\ call[q].org = id
             /\ SameIgnoringCase(k.name, call[q].keyName)
             /\ pc[q] \in {"save"} \cup Answered
<1> SUFFICES ASSUME NEW id \in OrgIds, docs'[id] # NoOrg, NEW k \in docs'[id].apiKeys,
                    pairs'[k.keyId] = "deleted"
             PROVE  \E q \in Requests : Killer(q, id, k)'
  BY DEF ListedKeyKilledByKeyDeletion
<1>1. k \in Listed(id)'
  BY DEF Listed
<1>2. CASE k \in Listed(id)
  <2>1. k.keyId \in KeyIds
    BY <1>2, ListedTypes
  <2>2. CASE pairs[k.keyId] = "deleted"
    <3>1. PICK q \in Requests : Killer(q, id, k)
      BY <1>2, <2>2 DEF KeysInv, ListedKeyKilledByKeyDeletion, Listed
    <3>2. call'[q] = call[q] /\ pc'[q] \in {"save"} \cup Answered
      BY <3>1 DEF OthersAlone, MovesOn, Answered
    <3> QED BY <3>1, <3>2
  <2>3. CASE pairs[k.keyId] # "deleted"
    <3>1. k.keyId \in doomed[r] /\ (\/ pc[r] = "purge"
                                    \/ /\ pc[r] = "deletePair" /\ pc'[r] = "save"
                                       /\ call'[r] = call[r])
      BY <2>1, <2>3 DEF PairsMove
    <3>2. pc[r] # "purge"
      BY <1>2, <3>1 DEF KeysInv, DoomedOrganization, TypeInv, StagesMatch
    <3>3. call[r].op = "deleteOrganizationApiKey"
      BY <3>1, <3>2 DEF TypeInv, StagesMatch
    <3>4. id = call[r].org /\ SameIgnoringCase(k.name, call[r].keyName)
      BY <1>2, <3>1, <3>2, <3>3 DEF KeysInv, DoomedKey
    <3>5. Killer(r, id, k)'
      BY <3>1, <3>2, <3>3, <3>4
    <3> QED BY <3>5
  <2> QED BY <2>2, <2>3
<1>3. CASE /\ pc[r] = "save" /\ call[r].op = "addOrganizationApiKey"
           /\ k = BuildApiKey(call[r], r)
  <2>1. k.keyId = r /\ r \in KeyIds /\ pairs[r] = "stored"
    BY <1>3, RequestsAssumption DEF BuildApiKey, KeysInv, FreshPair
  <2> QED BY <1>3, <2>1 DEF PairsMove
<1> QED BY <1>1, <1>2, <1>3 DEF ListsGrow

(* What late tries find.  The stores of a key are late only when it is on its way
   to the list or its request is over, and a deletion is asked for only when it is
   over, of a key that is listed nowhere or that its name has given away. *)
LEMMA LateStores ==
  ASSUME TypeInv, KeysInv, NEW k \in KeyIds, LateStore(k)
  PROVE  /\ pairs' = [pairs EXCEPT ![k] = IF WasDeleted(k) THEN "revived" ELSE "stored"]
         /\ pairs'[k] = IF WasDeleted(k) THEN "revived" ELSE "stored"
         /\ \A l \in KeyIds \ {k} : pairs'[l] = pairs[l]
         /\ IF k \in Requests
            THEN /\ call[k].op = "addOrganizationApiKey"
                 /\ pc[k] \in {"save"} \cup Answered
            ELSE pairs[k] # "absent"
         /\ UNCHANGED <<docs, cas, indexed, pc, call, entity, version, doomed, checked>>
<1>1. UNCHANGED <<docs, cas, indexed, pc, call, entity, version, doomed, checked>>
  BY DEF LateStore, requestVars, repositoryVars
<1>2. pairs' = [pairs EXCEPT ![k] = IF WasDeleted(k) THEN "revived" ELSE "stored"]
  BY DEF LateStore, StoreLate, WasDeleted
<1>3. /\ pairs'[k] = IF WasDeleted(k) THEN "revived" ELSE "stored"
      /\ \A l \in KeyIds \ {k} : pairs'[l] = pairs[l]
  BY <1>2 DEF TypeInv, TypeOK, KeyStoreTypeOK
<1> QED BY <1>1, <1>2, <1>3 DEF LateStore, StoreAsked

LEMMA LateDeletions ==
  ASSUME TypeInv, KeysInv, NEW k \in KeyIds, LateDeletion(k)
  PROVE  /\ pairs'[k] = "deleted"
         /\ \A l \in KeyIds \ {k} : pairs'[l] = pairs[l]
         /\ pairs[k] # "absent" /\ (k \in Requests => pc[k] \in Answered)
         /\ \A id \in OrgIds : \A l \in Listed(id) : l.keyId = k =>
              \E r \in Requests : /\ call[r].op = "deleteOrganizationApiKey"
                                  /\ call[r].org = id
                                  /\ SameIgnoringCase(l.name, call[r].keyName)
                                  /\ pc[r] \in {"save"} \cup Answered
         /\ UNCHANGED <<docs, cas, indexed, pc, call, entity, version, doomed, checked>>
<1>1. UNCHANGED <<docs, cas, indexed, pc, call, entity, version, doomed, checked>>
  BY DEF LateDeletion, requestVars, repositoryVars
<1>2. pairs'[k] = "deleted" /\ \A l \in KeyIds \ {k} : pairs'[l] = pairs[l]
  BY DEF LateDeletion, DeleteKeyPairs
<1>3. PICK r \in Requests : DeletionAsked(r, k)
  BY DEF LateDeletion
<1>4. CASE /\ call[r].op = "deleteOrganizationApiKey"
           /\ pc[r] \in {"save"} \cup Answered
           /\ k \in doomed[r]
  <2>1. pairs[k] # "absent" /\ (k \in Requests => pc[k] \in Answered)
    BY <1>4 DEF KeysInv, DoomedWereAdded
  <2>2. \A id \in OrgIds : \A l \in Listed(id) : l.keyId = k =>
          id = call[r].org /\ SameIgnoringCase(l.name, call[r].keyName)
    BY <1>4 DEF KeysInv, DoomedKey
  <2> QED BY <1>1, <1>2, <1>4, <2>1, <2>2
<1>5. CASE /\ call[r].op = "deleteOrganization"
           /\ entity[r] # NoOrg
           /\ k \in KeyIdsOf(entity[r]) \ doomed[r]
  BY <1>1, <1>2, <1>5 DEF KeysInv, HeldWereAdded
<1> QED BY <1>3, <1>4, <1>5 DEF DeletionAsked

(* All the invariant asks of a late try. *)
LEMMA LateKeysInv ==
  ASSUME TypeInv, KeysInv,
         UNCHANGED <<docs, cas, indexed, pc, call, entity, version, doomed, checked>>,
         \A k \in KeyIds : pairs[k] # "absent" => pairs'[k] # "absent",
         \A k \in KeyIds : WasDeleted(k) => WasDeleted(k)',
         \A r \in Requests : FreshPair(r)',
         ListedKeyKilledByKeyDeletion'
  PROVE  KeysInv'
<1>1. KeysListedOnce' /\ DoomedWereAdded'
  BY DEF KeysInv, KeysListedOnce, DoomedWereAdded, Listed, TypeInv, TypeOK
<1>2. ListedWereAdded'
  <2>1. \A id \in OrgIds : Listed(id)' = Listed(id)
    BY DEF Listed
  <2> QED BY <2>1, ListedTypes DEF KeysInv, ListedWereAdded
<1>3. ASSUME NEW q \in Requests
      PROVE  /\ DoomedKey(q)' /\ DoomedOrganization(q)'
             /\ HeldWereAdded(q)' /\ HoldsNothing(q)'
  <2>1. DoomedKey(q) /\ DoomedOrganization(q) /\ HeldWereAdded(q) /\ HoldsNothing(q)
    BY DEF KeysInv
  <2>2. doomed[q] \subseteq KeyIds
    BY DEF TypeInv, TypeOK
  <2>3. DoomedKey(q)'
    BY <2>1, <2>2 DEF DoomedKey, Listed, IsCurrent
  <2>4. DoomedOrganization(q)'
    BY <2>1 DEF DoomedOrganization, HeldWereAdded, Listed
  <2>5. HeldWereAdded(q)' /\ HoldsNothing(q)'
    BY <2>1 DEF HeldWereAdded, HoldsNothing, Listed
  <2> QED BY <2>3, <2>4, <2>5
<1> QED BY <1>1, <1>2, <1>3 DEF KeysInv

LEMMA LateStoreKeepsKeys ==
  ASSUME TypeInv, KeysInv, NEW k \in KeyIds, LateStore(k)
  PROVE  KeysInv'
<1> USE LateStores
<1>1. \A l \in KeyIds : pairs[l] # "absent" => pairs'[l] # "absent"
  OBVIOUS
<1>2. \A l \in KeyIds : WasDeleted(l) => WasDeleted(l)'
  BY DEF WasDeleted
<1>3. ASSUME NEW r \in Requests PROVE FreshPair(r)'
  <2>1. r \in KeyIds /\ FreshPair(r)
    BY RequestsAssumption DEF KeysInv
  <2> QED BY <2>1 DEF FreshPair, WasDeleted
<1>4. ListedKeyKilledByKeyDeletion'
  <2>1. \A l : pairs'[l] = "deleted" => l # k
    OBVIOUS
  <2>2. ASSUME NEW id \in OrgIds, docs[id] # NoOrg, NEW l \in docs[id].apiKeys,
               pairs'[l.keyId] = "deleted"
        PROVE  pairs[l.keyId] = "deleted"
    <3>1. l.keyId \in KeyIds
      BY <2>2, ListedTypes DEF Listed
    <3> QED BY <2>1, <2>2, <3>1
  <2> QED BY <2>2 DEF KeysInv, ListedKeyKilledByKeyDeletion
<1> QED BY <1>1, <1>2, <1>3, <1>4, LateKeysInv

LEMMA LateDeletionKeepsKeys ==
  ASSUME TypeInv, KeysInv, NEW k \in KeyIds, LateDeletion(k)
  PROVE  KeysInv'
<1> USE LateDeletions
<1>1. \A l \in KeyIds : pairs[l] # "absent" => pairs'[l] # "absent"
  OBVIOUS
<1>2. \A l \in KeyIds : WasDeleted(l) => WasDeleted(l)'
  BY DEF WasDeleted
<1>3. ASSUME NEW r \in Requests PROVE FreshPair(r)'
  <2>1. r \in KeyIds /\ FreshPair(r)
    BY RequestsAssumption DEF KeysInv
  <2> QED BY <2>1 DEF FreshPair, Answered
<1>4. ListedKeyKilledByKeyDeletion'
  <2> SUFFICES ASSUME NEW id \in OrgIds, docs[id] # NoOrg, NEW l \in docs[id].apiKeys,
                      pairs'[l.keyId] = "deleted"
               PROVE  \E r \in Requests :
                        /\ call[r].op = "deleteOrganizationApiKey"
                        /\ call[r].org = id
                        /\ SameIgnoringCase(l.name, call[r].keyName)
                        /\ pc[r] \in {"save"} \cup Answered
    BY DEF ListedKeyKilledByKeyDeletion
  <2>1. l \in Listed(id) /\ l.keyId \in KeyIds
    BY ListedTypes DEF Listed
  <2>2. CASE l.keyId = k
    BY <2>1, <2>2
  <2>3. CASE l.keyId # k
    BY <2>1, <2>3 DEF KeysInv, ListedKeyKilledByKeyDeletion
  <2> QED BY <2>2, <2>3
<1> QED BY <1>1, <1>2, <1>3, <1>4, LateKeysInv

LEMMA KeysNext == TypeInv /\ Coherent /\ KeysInv /\ [Next]_vars => KeysInv'
<1> SUFFICES ASSUME TypeInv, Coherent, KeysInv, [Next]_vars PROVE KeysInv'
  OBVIOUS
<1>1. ASSUME NEW r \in Requests, KeyStep(r), Receive(r) \/ Advance(r) \/ Abort(r)
      PROVE  KeysInv'
  <2>1. KeysListedOnce' /\ ListedWereAdded' /\ DoomedWereAdded'
    BY <1>1, ListedOnceStays, ListedWereAddedStays, DoomedWereAddedStays DEF KeyStep
  <2>2. ASSUME NEW q \in Requests
        PROVE  /\ FreshPair(q)' /\ DoomedKey(q)' /\ DoomedOrganization(q)'
               /\ HeldWereAdded(q)' /\ HoldsNothing(q)'
    <3>1. FreshPair(q)'
      BY <1>1, FreshPairStays
    <3>2. CASE q = r
      BY <1>1, <3>1, <3>2, MoverDooms, MoverHolds
    <3>3. CASE q # r
      <4>1. UNCHANGED <<pc[q], call[q], entity[q], doomed[q]>>
        BY <1>1, <3>3 DEF KeyStep, OthersAlone
      <4>2. HeldWereAdded(q)'
        BY <1>1, <4>1, HeldStays
      <4>3. HoldsNothing(q)'
        BY <4>1 DEF KeysInv, HoldsNothing
      <4> QED
        BY <1>1, <3>1, <3>3, <4>2, <4>3, OthersDoomedKey, OthersDoomedOrganization
    <3> QED BY <3>2, <3>3
  <2>3. ListedKeyKilledByKeyDeletion'
    BY <1>1, KilledStays
  <2> QED BY <2>1, <2>2, <2>3 DEF KeysInv
<1>2. ASSUME UNCHANGED <<docs, cas, pairs, requestVars>> PROVE KeysInv'
  <2>1. UNCHANGED <<docs, cas, pairs, pc, call, entity, version, doomed, checked>>
    BY <1>2 DEF requestVars
  <2>2. KeysListedOnce' /\ ListedWereAdded' /\ DoomedWereAdded'
    BY <2>1 DEF KeysInv, KeysListedOnce, ListedWereAdded, DoomedWereAdded, Listed
  <2>3. ASSUME NEW q \in Requests
        PROVE  /\ FreshPair(q)' /\ DoomedKey(q)' /\ DoomedOrganization(q)'
               /\ HeldWereAdded(q)' /\ HoldsNothing(q)'
    <3>1. /\ FreshPair(q) /\ DoomedKey(q) /\ DoomedOrganization(q)
          /\ HeldWereAdded(q) /\ HoldsNothing(q)
      BY DEF KeysInv
    <3> QED
      BY <2>1, <3>1
      DEF FreshPair, DoomedKey, DoomedOrganization, HeldWereAdded, HoldsNothing,
          WasDeleted, Listed, IsCurrent
  <2>4. ListedKeyKilledByKeyDeletion'
    BY <2>1 DEF KeysInv, ListedKeyKilledByKeyDeletion
  <2> QED BY <2>2, <2>3, <2>4 DEF KeysInv
<1> QED BY <1>1, <1>2, LateStoreKeepsKeys, LateDeletionKeepsKeys, StepsAreKeySteps

LEMMA KeysInductive == Spec => [](TypeInv /\ Coherent /\ KeysInv)
<1>1. Spec => [](TypeInv /\ Coherent)
  BY Inductive
<1> QED BY <1>1, KeysInit, KeysNext, PTL DEF Spec

-----------------------------------------------------------------------------
(* The theorems. *)

(* A key is listed only once its pair has been stored. *)
THEOREM ListedKeysStored == Spec => []ListedKeyWasStored
<1>1. KeysInv => ListedKeyWasStored
  BY DEF KeysInv, ListedWereAdded, Listed, ListedKeyWasStored
<1> QED BY <1>1, KeysInductive, PTL

(* A listed key loses its pair only to deleteOrganizationApiKey. *)
THEOREM OnlyKeyDeletionKills == Spec => []ListedKeyKilledByKeyDeletion
<1>1. KeysInv => ListedKeyKilledByKeyDeletion
  BY DEF KeysInv
<1> QED BY <1>1, KeysInductive, PTL

(* An organization deleted with success has lost the pairs of all its keys, but for
   those a late store has written again. *)
THEOREM PurgesAreComplete == Spec => []PurgeIsComplete
<1>1. KeysInv => PurgeIsComplete
  BY DEF KeysInv, DoomedOrganization, PurgeIsComplete
<1> QED BY <1>1, KeysInductive, PTL

(* A key leaves the list of a living organization when its pair has been deleted,
   unless another key's name differs in case only. *)
THEOREM UnlistedKeysRevoked == Spec => UnlistedKeyIsRevoked
<1> DEFINE A == \A id \in OrgIds : Exists(id) =>
                  \A k \in docs[id].apiKeys \ docs'[id].apiKeys :
                    \/ WasDeleted(k.keyId)
                    \/ \E l \in docs[id].apiKeys \ {k} : SameIgnoringCase(k.name, l.name)
<1>1. TypeInv /\ Coherent /\ KeysInv /\ [Next]_vars => A
  <2> SUFFICES ASSUME TypeInv, Coherent, KeysInv, [Next]_vars, NEW id \in OrgIds,
                      Exists(id), NEW k \in docs[id].apiKeys \ docs'[id].apiKeys,
                      \A l \in docs[id].apiKeys \ {k} : ~SameIgnoringCase(k.name, l.name)
               PROVE  WasDeleted(k.keyId)
    OBVIOUS
  <2>1. PICK r \in Requests :
          /\ Commits(r, id, call[r].op)
          /\ call[r] \in Calls
          /\ call[r].op \notin {"createOrganization", "deleteOrganization"}
          /\ docs[id] \in Organizations
          /\ docs'[id] = Effect(call[r], docs[id], r)
          /\ version[r] = cas[id]
    BY WhoChanges
  <2>2. call[r].op = "deleteOrganizationApiKey" /\ k.name = call[r].keyName
    BY <2>1, EffectOnKeys
  <2>3. k \in MatchingKeys(docs[id], call[r].keyName)
    BY <2>2 DEF MatchingKeys, SameIgnoringCase
  <2>4. /\ doomed[r] \in DoomedKeys(call[r], docs[id])
        /\ \A l \in doomed[r] : WasDeleted(l)
    BY <2>1, <2>2 DEF KeysInv, DoomedKey, Commits, IsCurrent
  <2>5. PICK l \in MatchingKeys(docs[id], call[r].keyName) : doomed[r] = {l.keyId}
    BY <2>2, <2>3, <2>4 DEF DoomedKeys
  <2>6. l = k
    BY <2>2, <2>5 DEF MatchingKeys, SameIgnoringCase
  <2> QED BY <2>4, <2>5, <2>6
<1>2. Spec => [][A]_vars
  BY <1>1, KeysInductive, PTL DEF Spec
<1> QED BY <1>2 DEF UnlistedKeyIsRevoked
-----------------------------------------------------------------------------
(* The life of a key. *)

LEMMA HomesAreLists ==
  ASSUME NEW k
  PROVE  HomesOf(k) = {id \in OrgIds : \E l \in Listed(id) : l.keyId = k}
BY DEF HomesOf, KeyIdsOf, Listed

(* A key has one home at most. *)
LEMMA OneHome ==
  ASSUME KeysListedOnce, NEW k
  PROVE  HomesOf(k) = {} \/ \E id \in OrgIds : HomesOf(k) = {id}
BY HomesAreLists DEF KeysListedOnce

LEMMA HomesStay ==
  ASSUME docs' = docs, NEW k
  PROVE  HomesOf(k)' = HomesOf(k)
BY DEF HomesOf

(* The mapped variables move key by key. *)
LEMMA NothingHappens ==
  ASSUME \A k \in KeyIds : LifeOf(k)' = LifeOf(k) /\ HomesOf(k)' = HomesOf(k)
  PROVE  [Keys!LifeNext]_(Keys!lifeVars)
BY DEF Keys!lifeVars

LEMMA MakeHappens ==
  ASSUME NEW r \in KeyIds, LifeOf(r) = "unborn", LifeOf(r)' = "made",
         \A k \in KeyIds \ {r} : LifeOf(k)' = LifeOf(k),
         \A k \in KeyIds : HomesOf(k)' = HomesOf(k)
  PROVE  Keys!LifeNext
<1>1. Keys!Make(r)
  BY DEF Keys!Make
<1> QED BY <1>1 DEF Keys!LifeNext

LEMMA LoseHappens ==
  ASSUME NEW r \in KeyIds, LifeOf(r) = "made", LifeOf(r)' = "alive",
         \A k \in KeyIds \ {r} : LifeOf(k)' = LifeOf(k),
         \A k \in KeyIds : HomesOf(k)' = HomesOf(k)
  PROVE  Keys!LifeNext
<1>1. Keys!Lose(r)
  BY DEF Keys!Lose
<1> QED BY <1>1 DEF Keys!LifeNext

LEMMA PublishHappens ==
  ASSUME NEW r \in KeyIds, NEW id \in OrgIds,
         LifeOf(r) = "made", LifeOf(r)' = "alive", HomesOf(r)' = {id},
         \A k \in KeyIds \ {r} : LifeOf(k)' = LifeOf(k) /\ HomesOf(k)' = HomesOf(k)
  PROVE  Keys!LifeNext
<1>1. Keys!Publish(r, id)
  BY DEF Keys!Publish
<1> QED BY <1>1 DEF Keys!LifeNext

LEMMA MakeInVainHappens ==
  ASSUME NEW r \in KeyIds, LifeOf(r) = "unborn", LifeOf(r)' = "alive",
         \A k \in KeyIds \ {r} : LifeOf(k)' = LifeOf(k),
         \A k \in KeyIds : HomesOf(k)' = HomesOf(k)
  PROVE  Keys!LifeNext
<1>1. Keys!MakeInVain(r)
  BY DEF Keys!MakeInVain
<1> QED BY <1>1 DEF Keys!LifeNext

LEMMA ReviveHappens ==
  ASSUME NEW r \in KeyIds, LifeOf(r) = "destroyed", LifeOf(r)' = "revived",
         \A k \in KeyIds \ {r} : LifeOf(k)' = LifeOf(k),
         \A k \in KeyIds : HomesOf(k)' = HomesOf(k)
  PROVE  Keys!LifeNext
<1>1. Keys!Revive(r)
  BY DEF Keys!Revive
<1> QED BY <1>1 DEF Keys!LifeNext

LEMMA DestroyHappens ==
  ASSUME NEW keys \in SUBSET KeyIds, \A k \in keys : LifeOf(k) \in {"alive", "revived"},
         \A k \in KeyIds : LifeOf(k)' = IF k \in keys THEN "destroyed" ELSE LifeOf(k),
         \A k \in KeyIds : HomesOf(k)' = HomesOf(k)
  PROVE  Keys!LifeNext
<1>1. Keys!Destroy(keys)
  BY DEF Keys!Destroy
<1> QED BY <1>1 DEF Keys!LifeNext

LEMMA UnlistHappens ==
  ASSUME \A k \in KeyIds : LifeOf(k)' = LifeOf(k),
         \A k \in KeyIds : HomesOf(k)' \in {HomesOf(k), {}}
  PROVE  Keys!LifeNext
<1> DEFINE keys == {k \in KeyIds : HomesOf(k)' = {}}
<1>1. Keys!Unlist(keys)
  BY DEF Keys!Unlist
<1>2. keys \in SUBSET KeyIds
  OBVIOUS
<1> QED BY <1>1, <1>2 DEF Keys!LifeNext

(* What a step of r leaves alone. *)
LEMMA LifeAlone ==
  ASSUME NEW r \in Requests, OthersAlone(r), NEW k \in KeyIds \ {r}, pairs'[k] = pairs[k]
  PROVE  LifeOf(k)' = LifeOf(k)
<1>1. IsBeingAdded(k)' <=> IsBeingAdded(k)
  BY DEF IsBeingAdded, OthersAlone
<1> QED BY <1>1 DEF LifeOf

(* Few steps of a request touch a store. *)
LEMMA StoreSteps ==
  ASSUME NEW r \in Requests, Receive(r) \/ Advance(r) \/ Abort(r)
  PROVE  \/ StorePair(r) \/ DeletePair(r) \/ Purge(r) \/ Commit(r) \/ Remove(r)
         \/ UNCHANGED <<docs, pairs>>
<1> DEFINE Goal == \/ StorePair(r) \/ DeletePair(r) \/ Purge(r) \/ Commit(r) \/ Remove(r)
                   \/ UNCHANGED <<docs, pairs>>
<1>1. ASSUME Refuse(r) PROVE Goal
  BY <1>1 DEF Refuse, repositoryVars
<1>2. ASSUME ProcessStep(r) PROVE Goal
  <2>1. PICK op, stage : ProcessDefs(r, op, stage)
    BY <1>2, ProcessStepIsProcess
  <2> QED BY <1>1, <2>1 DEF ProcessDefs, Process, repositoryVars
<1>3. ASSUME CheckName(r) \/ ValidateRoleUpdate(r) \/ ValidateApiKeyName(r) PROVE Goal
  BY <1>1, <1>3
  DEF CheckName, ValidateRoleUpdate, ValidateApiKeyName, Validate, repositoryVars
<1>4. ASSUME Receive(r) \/ CreateOrganization(r) \/ Purged(r) PROVE Goal
  BY <1>4 DEF Receive, CreateOrganization, Purged, repositoryVars
<1>5. ASSUME Conflict(r) \/ Abort(r) PROVE Goal
  BY <1>1, <1>5 DEF Conflict, Abort
<1> QED BY <1>2, <1>3, <1>4, <1>5 DEF Advance, ProcessStep

(* Storing its pair makes the key of a request. *)
LEMMA StoredIsMade ==
  ASSUME TypeInv, KeysInv, NEW r \in Requests, KeyStep(r), StorePair(r)
  PROVE  Keys!LifeNext
<1> USE DEF KeyStep
<1>1. /\ pc[r] = "storePair" /\ pc'[r] = "save" /\ call' = call /\ docs' = docs
      /\ call[r].op = "addOrganizationApiKey"
      /\ pairs' = [pairs EXCEPT ![r] = "stored"]
  BY DEF StorePair, StoreKeyPair, Continue, TypeInv, TypeOK, StagesMatch, repositoryVars
<1>2. pairs[r] = "absent"
  BY <1>1 DEF KeysInv, FreshPair, Answered
<1>3. r \in KeyIds /\ pairs'[r] = "stored" /\ \A k \in KeyIds \ {r} : pairs'[k] = pairs[k]
  BY <1>1, RequestsAssumption DEF TypeInv, TypeOK, KeyStoreTypeOK
<1>4. LifeOf(r) = "unborn" /\ LifeOf(r)' = "made"
  BY <1>1, <1>2, <1>3 DEF LifeOf, IsBeingAdded
<1>5. \A k \in KeyIds \ {r} : LifeOf(k)' = LifeOf(k)
  BY <1>3, LifeAlone
<1>6. \A k \in KeyIds : HomesOf(k)' = HomesOf(k)
  BY <1>1, HomesStay
<1> QED BY <1>3, <1>4, <1>5, <1>6, MakeHappens

(* Deleting pairs destroys keys whose requests are over. *)
LEMMA DeletedIsDestroyed ==
  ASSUME TypeInv, KeysInv, NEW r \in Requests, KeyStep(r), DeletePair(r) \/ Purge(r)
  PROVE  Keys!LifeNext
<1> USE DEF KeyStep
<1>1. docs' = docs /\ r \in KeyIds
  BY RequestsAssumption DEF DeletePair, Purge, repositoryVars
<1>2. PICK gone \in SUBSET doomed[r] : DeleteKeyPairs(gone)
  <2>1. pairs' = pairs => DeleteKeyPairs({})
    BY DEF DeleteKeyPairs, TypeInv, TypeOK, KeyStoreTypeOK
  <2> QED BY <2>1 DEF DeletePair, Purge
<1>3. gone \in SUBSET KeyIds
  BY <1>2 DEF TypeInv, TypeOK
<1>4. \A k \in KeyIds : pairs'[k] = IF k \in gone THEN "deleted" ELSE pairs[k]
  BY <1>2 DEF DeleteKeyPairs
<1>5. \A k \in gone : /\ pairs[k] \in {"stored", "deleted", "revived"}
                      /\ k \in Requests => pc[k] \in Answered
  BY <1>3 DEF KeysInv, DoomedWereAdded, TypeInv, TypeOK, KeyStoreTypeOK, PairStates
<1>6. r \notin gone /\ ~IsBeingAdded(r) /\ ~IsBeingAdded(r)'
  <2>1. CASE DeletePair(r)
    BY <1>5, <2>1
    DEF DeletePair, Continue, IsBeingAdded, Answered, TypeInv, TypeOK, StagesMatch
  <2>2. CASE Purge(r)
    BY <1>5, <2>2 DEF Purge, IsBeingAdded, Answered, TypeInv, TypeOK
  <2> QED BY <2>1, <2>2
<1> DEFINE keys == {k \in gone : pairs[k] # "deleted"}
<1>7. keys \in SUBSET KeyIds
  BY <1>3
<1>8. \A k \in keys : LifeOf(k) \in {"alive", "revived"}
  BY <1>5 DEF LifeOf, IsBeingAdded, Answered
<1>9. ASSUME NEW k \in KeyIds
      PROVE  LifeOf(k)' = IF k \in keys THEN "destroyed" ELSE LifeOf(k)
  <2>1. CASE k \in gone
    <3>1. LifeOf(k)' = "destroyed"
      BY <1>4, <2>1 DEF LifeOf
    <3>2. k \notin keys => LifeOf(k) = "destroyed"
      BY <1>5, <2>1 DEF LifeOf
    <3> QED BY <3>1, <3>2
  <2>2. CASE k \notin gone
    <3>1. pairs'[k] = pairs[k]
      BY <1>4, <2>2
    <3>2. k = r => LifeOf(k)' = LifeOf(k)
      BY <1>6, <3>1 DEF LifeOf
    <3> QED BY <2>2, <3>1, <3>2, LifeAlone
  <2> QED BY <2>1, <2>2
<1>10. \A k \in KeyIds : HomesOf(k)' = HomesOf(k)
  BY <1>1, HomesStay
<1>11. HIDE DEF keys
<1> QED BY <1>7, <1>8, <1>9, <1>10, DestroyHappens

(* A step that lists no key of its own and touches no pair. *)
LEMMA OnlyUnlisted ==
  ASSUME KeysInv, NEW r \in Requests, OthersAlone(r), pairs' = pairs,
         ~IsBeingAdded(r), ~IsBeingAdded(r)',
         \A id \in OrgIds : Listed(id)' \subseteq Listed(id)
  PROVE  Keys!LifeNext
<1>1. ASSUME NEW k \in KeyIds PROVE LifeOf(k)' = LifeOf(k)
  <2>1. k = r => LifeOf(k)' = LifeOf(k)
    BY DEF LifeOf
  <2> QED BY <2>1, LifeAlone
<1>2. ASSUME NEW k \in KeyIds PROVE HomesOf(k)' \in {HomesOf(k), {}}
  <2>1. HomesOf(k)' = {id \in OrgIds : \E l \in Listed(id)' : l.keyId = k}
    BY DEF HomesOf, KeyIdsOf, Listed
  <2>2. HomesOf(k)' \subseteq HomesOf(k)
    BY <2>1, HomesAreLists
  <2>3. HomesOf(k) = {} \/ \E id \in OrgIds : HomesOf(k) = {id}
    BY OneHome DEF KeysInv
  <2> QED BY <2>2, <2>3
<1> QED BY <1>1, <1>2, UnlistHappens

(* A save that lists the key publishes it; any other one unlists keys at most. *)
LEMMA CommittedIsPublished ==
  ASSUME TypeInv, Coherent, KeysInv, NEW r \in Requests, KeyStep(r), Commit(r)
  PROVE  Keys!LifeNext
<1> USE DEF KeyStep
<1> DEFINE c == call[r]
           o == docs[c.org]
<1>1. /\ c \in Calls /\ c.org \in OrgIds /\ pc[r] = "save" /\ pc'[r] \in Answered
      /\ docs' = [docs EXCEPT ![c.org] = entity[r]]
      /\ docs'[c.org] = entity[r] /\ entity[r] # NoOrg /\ pairs' = pairs
  BY CommitIsAtomic DEF Commit, Continue, TypeInv, TypeOK, StagesMatch, Prepared
<1>2. ~IsBeingAdded(r)'
  BY <1>1 DEF IsBeingAdded, Answered
<1>3. CASE c.op = "addOrganizationApiKey"
  <2>1. pairs[r] = "stored" /\ r \in KeyIds /\ IsBeingAdded(r)
    BY <1>1, <1>3, RequestsAssumption DEF KeysInv, FreshPair, IsBeingAdded
  <2>2. LifeOf(r) = "made" /\ LifeOf(r)' = "alive"
    BY <1>1, <1>2, <2>1 DEF LifeOf
  <2>3. o \in Organizations /\ o # NoOrg /\ entity[r] = Effect(c, o, r)
    BY <1>3, CommitIsAtomic, NoOrgAssumption
  <2>4. entity[r].apiKeys = o.apiKeys \cup {BuildApiKey(c, r)}
    BY <1>3, <2>3 DEF Effect, AddApiKey, Organizations
  <2>5. PICK org \in OrgIds, key \in {BuildApiKey(c, r)} :
          org = c.org /\ key = BuildApiKey(c, r) /\ key.keyId = r
    <3>1. BuildApiKey(c, r).keyId = r
      BY DEF BuildApiKey
    <3> QED BY <1>1, <3>1
  <2>6. Listed(org)' = Listed(org) \cup {key}
    <3>1. docs[org] = o /\ docs'[org] = entity[r]
      BY <1>1, <2>5
    <3>2. Listed(org) = o.apiKeys
      BY <2>3, <3>1 DEF Listed
    <3>3. Listed(org)' = entity[r].apiKeys
      BY <1>1, <3>1 DEF Listed
    <3> QED BY <2>4, <2>5, <3>2, <3>3
  <2>7. \A id \in OrgIds \ {org} : Listed(id)' = Listed(id)
    BY <1>1, <2>5 DEF Listed, TypeInv, TypeOK, RepositoryTypeOK
  <2>8. \A id \in OrgIds : \A l \in Listed(id) : l.keyId # r
    BY <1>1 DEF KeysInv, ListedWereAdded, Answered
  <2>9. \A k : HomesOf(k)' = {id \in OrgIds : \E l \in Listed(id)' : l.keyId = k}
    BY DEF HomesOf, KeyIdsOf, Listed
  <2>10. HomesOf(r)' = {org}
    BY <2>5, <2>6, <2>7, <2>8, <2>9
  <2>11. ASSUME NEW k \in KeyIds \ {r}
         PROVE  LifeOf(k)' = LifeOf(k) /\ HomesOf(k)' = HomesOf(k)
    <3>1. \A id \in OrgIds :
            (\E l \in Listed(id)' : l.keyId = k) <=> (\E l \in Listed(id) : l.keyId = k)
      BY <2>5, <2>6, <2>7
    <3>2. HomesOf(k)' = HomesOf(k)
      BY <2>9, <3>1, HomesAreLists
    <3> QED BY <1>1, <3>2, LifeAlone
  <2> QED BY <2>1, <2>2, <2>10, <2>11, PublishHappens
<1>4. CASE c.op # "addOrganizationApiKey"
  <2>1. ~IsBeingAdded(r)
    BY <1>4 DEF IsBeingAdded
  <2>2. \A id \in OrgIds : Listed(id)' \subseteq Listed(id)
    BY <1>4 DEF ListsGrow
  <2> QED BY <1>1, <1>2, <2>1, <2>2, OnlyUnlisted
<1> QED BY <1>3, <1>4

(* Of every other step only the loss of a key is seen. *)
LEMMA ElsewhereNothing ==
  ASSUME KeysInv, NEW r \in Requests, KeyStep(r), UNCHANGED <<docs, pairs>>
  PROVE  [Keys!LifeNext]_(Keys!lifeVars)
<1> USE DEF KeyStep
<1>1. ~IsBeingAdded(r)'
  BY DEF IsBeingAdded, KeysInv, FreshPair, MovesOn, Answered
<1>2. \A k \in KeyIds \ {r} : LifeOf(k)' = LifeOf(k)
  BY LifeAlone
<1>3. \A k \in KeyIds : HomesOf(k)' = HomesOf(k)
  BY HomesStay
<1>4. CASE IsBeingAdded(r)
  <2>1. pairs[r] = "stored" /\ r \in KeyIds
    BY <1>4, RequestsAssumption DEF KeysInv, FreshPair, IsBeingAdded
  <2>2. LifeOf(r) = "made" /\ LifeOf(r)' = "alive"
    BY <1>1, <1>4, <2>1 DEF LifeOf
  <2> QED BY <1>2, <1>3, <2>1, <2>2, LoseHappens
<1>5. CASE ~IsBeingAdded(r)
  <2>1. LifeOf(r)' = LifeOf(r)
    BY <1>1, <1>5 DEF LifeOf
  <2> QED BY <1>2, <1>3, <2>1, NothingHappens
<1> QED BY <1>4, <1>5

(* A late store makes a key nobody will list, or revives one. *)
LEMMA LateStoreLife ==
  ASSUME TypeInv, KeysInv, NEW k \in KeyIds, LateStore(k)
  PROVE  [Keys!LifeNext]_(Keys!lifeVars)
<1> USE LateStores
<1>1. \A l \in KeyIds : HomesOf(l)' = HomesOf(l)
  BY HomesStay
<1>2. \A l : IsBeingAdded(l)' <=> IsBeingAdded(l)
  BY DEF IsBeingAdded
<1>3. \A l \in KeyIds \ {k} : LifeOf(l)' = LifeOf(l)
  BY <1>2 DEF LifeOf
<1>4. CASE pairs[k] = "absent"
  <2>1. ~IsBeingAdded(k)
    BY <1>4 DEF IsBeingAdded, KeysInv, FreshPair
  <2>2. LifeOf(k) = "unborn" /\ LifeOf(k)' = "alive"
    BY <1>2, <1>4, <2>1 DEF LifeOf, WasDeleted
  <2> QED BY <1>1, <1>3, <2>2, MakeInVainHappens
<1>5. CASE pairs[k] = "deleted"
  <2>1. LifeOf(k) = "destroyed" /\ LifeOf(k)' = "revived"
    BY <1>5 DEF LifeOf, WasDeleted
  <2> QED BY <1>1, <1>3, <2>1, ReviveHappens
<1>6. CASE pairs[k] \in {"stored", "revived"}
  <2>1. pairs'[k] = pairs[k]
    BY <1>6 DEF WasDeleted
  <2>2. LifeOf(k)' = LifeOf(k)
    BY <1>2, <2>1 DEF LifeOf
  <2> QED BY <1>1, <1>3, <2>2, NothingHappens
<1>7. pairs[k] \in PairStates
  BY DEF TypeInv, TypeOK, KeyStoreTypeOK
<1> QED BY <1>4, <1>5, <1>6, <1>7 DEF PairStates

(* A late deletion destroys a key whose request is over. *)
LEMMA LateDeletionLife ==
  ASSUME TypeInv, KeysInv, NEW k \in KeyIds, LateDeletion(k)
  PROVE  [Keys!LifeNext]_(Keys!lifeVars)
<1> USE LateDeletions
<1>1. \A l \in KeyIds : HomesOf(l)' = HomesOf(l)
  BY HomesStay
<1>2. \A l : IsBeingAdded(l)' <=> IsBeingAdded(l)
  BY DEF IsBeingAdded
<1>3. \A l \in KeyIds \ {k} : LifeOf(l)' = LifeOf(l)
  BY <1>2 DEF LifeOf
<1>4. LifeOf(k)' = "destroyed"
  BY DEF LifeOf
<1>5. CASE pairs[k] = "deleted"
  <2>1. LifeOf(k) = "destroyed"
    BY <1>5 DEF LifeOf
  <2> QED BY <1>1, <1>3, <1>4, <2>1, NothingHappens
<1>6. CASE pairs[k] # "deleted"
  <2>1. LifeOf(k) \in {"alive", "revived"}
    BY <1>6 DEF LifeOf, IsBeingAdded, Answered
  <2>2. \A l \in KeyIds : LifeOf(l)' = IF l \in {k} THEN "destroyed" ELSE LifeOf(l)
    BY <1>3, <1>4
  <2> QED BY <1>1, <2>1, <2>2, DestroyHappens
<1> QED BY <1>5, <1>6

LEMMA LifeInitially == Init => Keys!LifeInit
<1> SUFFICES ASSUME Init PROVE Keys!LifeInit
  OBVIOUS
<1>1. KeysInv
  BY KeysInit
<1>2. \A k \in KeyIds : HomesOf(k) \in {{}} \cup {{id} : id \in OrgIds}
  BY <1>1, OneHome DEF KeysInv
<1>3. ASSUME NEW k \in KeyIds
      PROVE  LifeOf(k) = IF HomesOf(k) = {} THEN "unborn" ELSE "alive"
  <2>1. pairs[k] = IF HomesOf(k) = {} THEN "absent" ELSE "stored"
    BY DEF Init, HomesOf
  <2>2. ~IsBeingAdded(k)
    BY DEF Init, IsBeingAdded
  <2> QED BY <2>1, <2>2 DEF LifeOf
<1> QED BY <1>2, <1>3 DEF Keys!LifeInit

LEMMA LifeStep ==
  ASSUME TypeInv, Coherent, KeysInv, [Next]_vars
  PROVE  [Keys!LifeNext]_(Keys!lifeVars)
<1>1. ASSUME NEW r \in Requests, KeyStep(r), Receive(r) \/ Advance(r) \/ Abort(r)
      PROVE  [Keys!LifeNext]_(Keys!lifeVars)
  <2>1. CASE StorePair(r) \/ DeletePair(r) \/ Purge(r) \/ Commit(r)
    BY <1>1, <2>1, StoredIsMade, DeletedIsDestroyed, CommittedIsPublished
  <2>2. CASE Remove(r)
    <3>1. CASE Refuse(r)
      BY <1>1, <3>1, ElsewhereNothing DEF Refuse, repositoryVars
    <3>2. CASE DeleteById(call[r].org) /\ Continue(r, "purge") /\ UNCHANGED pairs
      <4>1. pc[r] = "remove" /\ pc'[r] = "purge"
        BY <2>2, <3>2 DEF Remove, Continue, TypeInv, TypeOK
      <4>2. ~IsBeingAdded(r) /\ ~IsBeingAdded(r)'
        BY <4>1 DEF IsBeingAdded
      <4>3. \A id \in OrgIds : Listed(id)' \subseteq Listed(id)
        BY <1>1, <4>1 DEF KeyStep, ListsGrow
      <4> QED BY <1>1, <3>2, <4>2, <4>3, OnlyUnlisted DEF KeyStep
    <3> QED BY <2>2, <3>1, <3>2 DEF Remove
  <2>3. CASE UNCHANGED <<docs, pairs>>
    BY <1>1, <2>3, ElsewhereNothing
  <2> QED BY <1>1, <2>1, <2>2, <2>3, StoreSteps
<1>2. ASSUME UNCHANGED <<docs, cas, pairs, requestVars>>
      PROVE  [Keys!LifeNext]_(Keys!lifeVars)
  <2>1. \A k \in KeyIds : LifeOf(k)' = LifeOf(k) /\ HomesOf(k)' = HomesOf(k)
    BY <1>2 DEF requestVars, LifeOf, IsBeingAdded, HomesOf
  <2> QED BY <2>1, NothingHappens
<1> QED BY <1>1, <1>2, LateStoreLife, LateDeletionLife, StepsAreKeySteps

(* Bucket and key store implement the life of a key, late tries included: it is
   listed once, after its pair was stored, and its pair is destroyed only after
   that; a late store may revive the pair, but never lists the key again. *)
THEOREM KeyLife == Spec => ImplementsApiKeyLife
<1>1. TypeInv /\ Coherent /\ KeysInv /\ [Next]_vars => [Keys!LifeNext]_(Keys!lifeVars)
  BY LifeStep
<1> QED
  BY <1>1, LifeInitially, KeysInductive, PTL DEF Spec, ImplementsApiKeyLife, Keys!LifeSpec

-----------------------------------------------------------------------------
(* No late store has written a deleted pair again. *)
NothingRevived == \A k \in KeyIds : pairs[k] # "revived"

(* A terminated key is revoked (deleteApiKey.apidoc) where equals and
   equalsIgnoreCase agree on the names of keys, as long as no two keys share one
   and no late store revives a pair: case, the race of KeyNamesWithoutRaces and
   the late stores of VaultKeyStore are the only causes
   (DeleteOrganizationApiKey.process). *)
THEOREM TerminationWithoutCase ==
  (\A name, other \in KeyNames : SameIgnoringCase(name, other) => name = other)
  => (Spec /\ UniqueApiKeyNames /\ KeyAdditionsUnraced /\ []NothingRevived
      => TerminatedKeyIsRevoked)
<1> SUFFICES ASSUME \A name, other \in KeyNames :
                      SameIgnoringCase(name, other) => name = other
             PROVE  Spec /\ UniqueApiKeyNames /\ KeyAdditionsUnraced /\ []NothingRevived
                    => TerminatedKeyIsRevoked
  OBVIOUS
<1> DEFINE A == \A id \in OrgIds : Exists(id) =>
                  \A k \in docs[id].apiKeys \ docs'[id].apiKeys :
                    \/ WasDeleted(k.keyId)
                    \/ \E l \in docs[id].apiKeys \ {k} : SameIgnoringCase(k.name, l.name)
           B == \A id \in OrgIds : Exists(id) =>
                  \A k \in docs[id].apiKeys \ docs'[id].apiKeys :
                    pairs[k.keyId] = "deleted"
<1>1. TypeInv /\ UniqueApiKeyNames /\ NothingRevived /\ [A]_vars => [B]_vars
  <2> SUFFICES ASSUME TypeInv, UniqueApiKeyNames, NothingRevived, A,
                      NEW id \in OrgIds, Exists(id),
                      NEW k \in docs[id].apiKeys \ docs'[id].apiKeys
               PROVE  pairs[k.keyId] = "deleted"
    OBVIOUS
  <2>1. docs[id] \in Organizations
    BY DEF TypeInv, TypeOK, RepositoryTypeOK, Exists
  <2>2. k.keyId \in KeyIds /\ \A l \in docs[id].apiKeys : l.name \in KeyNames
    BY <2>1 DEF Organizations, ApiKeys
  <2>3. WasDeleted(k.keyId)
    BY <2>2 DEF UniqueApiKeyNames, KeyNamesUnique, Exists
  <2> QED
    BY <2>2, <2>3 DEF NothingRevived, WasDeleted
<1>2. Spec => [][A]_vars
  BY UnlistedKeysRevoked DEF UnlistedKeyIsRevoked
<1>3. Spec /\ UniqueApiKeyNames /\ KeyAdditionsUnraced /\ []NothingRevived => [][B]_vars
  BY <1>1, <1>2, KeysInductive, KeyNamesWithoutRaces, PTL
<1> QED BY <1>3 DEF TerminatedKeyIsRevoked
=============================================================================
