---------------------- MODULE OrganizationServiceProofs ----------------------
(***************************************************************************)
(* Theorems about OrganizationService, for all values of its constants.    *)
(***************************************************************************)
EXTENDS OrganizationServiceProperties, ServiceOperationProofs, TLAPS

-----------------------------------------------------------------------------
(* Type correctness.  TypeOK is not inductive by itself: what "save" writes is
   an organization only because "save" is reached with one. *)

TypeInv == TypeOK /\ StagesMatch

LEMMA TypeInit == Init => TypeInv
<1> SUFFICES ASSUME Init PROVE TypeInv
  OBVIOUS
<1>1. docs \in [OrgIds -> Organizations \cup {NoOrg}]
  BY RepositoryAssumption DEF Init, RepositoryInit
<1>2. RepositoryTypeOK
  BY <1>1 DEF Init, RepositoryInit, RepositoryTypeOK
<1>3. KeyStoreTypeOK
  BY DEF Init, KeyStoreTypeOK, PairStates
<1>4. \A r \in Requests : call[r] = NoCall /\ pc[r] = "idle"
  BY DEF Init
<1>5. StagesMatch
  BY <1>4 DEF StagesMatch, Prepared
<1> QED
  BY <1>2, <1>3, <1>4, <1>5
  DEF TypeInv, TypeOK, Init, Stages, InFlight, Prepared, Answered

(* A request that only moves to another stage, and the stores as they are or
   as another type-correct step leaves them. *)
LEMMA TypeContinue ==
  ASSUME TypeInv, NEW r \in Requests, NEW stage \in Answered \cup {"save", "process", "purge"},
         pc[r] # "idle", Continue(r, stage),
         stage = "save" => pc[r] \in Prepared,
         stage = "purge" => call[r].op = "deleteOrganization",
         RepositoryTypeOK', KeyStoreTypeOK'
  PROVE  TypeInv'
<1>1. TypeOK'
  BY DEF TypeInv, TypeOK, Continue, Stages, InFlight, Prepared, Answered
<1>2. StagesMatch'
  BY DEF TypeInv, TypeOK, StagesMatch, Continue, Prepared, Answered
<1> QED BY <1>1, <1>2 DEF TypeInv

LEMMA TypeRefuse ==
  ASSUME TypeInv, NEW r \in Requests, pc[r] # "idle", Refuse(r)
  PROVE  TypeInv'
<1>1. RepositoryTypeOK' /\ KeyStoreTypeOK'
  BY DEF TypeInv, TypeOK, RepositoryTypeOK, KeyStoreTypeOK, Refuse, repositoryVars
<1> QED BY <1>1, TypeContinue DEF Refuse, Answered

LEMMA TypeProcess ==
  ASSUME TypeInv, NEW r \in Requests, NEW op, NEW stage, Process(r, op, stage),
         op \in {"updateOrganization", "deleteOrganization", "leaveOrganization",
                "inviteMember", "kickoutMember", "updateOrganizationMemberRole",
                "addOrganizationApiKey", "deleteOrganizationApiKey"},
         stage = CASE op = "addOrganizationApiKey" -> "storePair"
                   [] op = "deleteOrganizationApiKey" -> "deletePair"
                   [] op = "deleteOrganization" -> "remove"
                   [] OTHER -> "save"
  PROVE  TypeInv'
<1> DEFINE c == call[r]
           o == docs[c.org]
<1>1. c \in Calls /\ c.op = op /\ pc[r] # "idle" /\ c.org \in OrgIds /\ r \in KeyIds
  BY CallFields, RequestsAssumption DEF TypeInv, TypeOK, Process
<1>2. CASE o # NoOrg /\ Permits(c, o)
  <2>1. o \in Organizations
    BY <1>1, <1>2 DEF TypeInv, TypeOK, RepositoryTypeOK
  <2>2. Effect(c, o, r) \in Organizations
    BY <1>1, <1>2, <2>1, EffectType
  <2>3. PICK keys \in DoomedKeys(c, o) : doomed' = [doomed EXCEPT ![r] = keys]
    BY <1>2 DEF Process, FindById
  <2>4. keys \in SUBSET KeyIds
    BY <1>1, <2>1, DoomedKeysType
  <2>5. /\ pc' = [pc EXCEPT ![r] = stage]
        /\ entity' = [entity EXCEPT ![r] = Effect(c, o, r)]
        /\ version' = [version EXCEPT ![r] = cas[c.org]]
        /\ UNCHANGED <<call, checked, pairs, docs, cas, indexed>>
    BY <1>2 DEF Process, FindById, repositoryVars
  <2>6. RepositoryTypeOK' /\ KeyStoreTypeOK'
    BY <2>5 DEF TypeInv, TypeOK, RepositoryTypeOK, KeyStoreTypeOK
  <2>7. stage \in {"storePair", "deletePair", "remove", "save"}
    OBVIOUS
  <2>8. TypeOK'
    BY <1>1, <2>2, <2>3, <2>4, <2>5, <2>6, <2>7
    DEF TypeInv, TypeOK, RepositoryTypeOK, Stages, InFlight, Prepared
  <2>9. StagesMatch'
    BY <1>1, <2>2, <2>5, NoOrgAssumption DEF TypeInv, TypeOK, StagesMatch, Prepared
  <2> QED BY <2>8, <2>9 DEF TypeInv
<1>3. CASE ~(o # NoOrg /\ Permits(c, o))
  BY <1>1, <1>3, TypeRefuse DEF Process, FindById
<1> QED BY <1>2, <1>3

(* The stages of the eight operations that read the organization first. *)
ProcessStep(r) ==
  \/ UpdateOrganization(r) \/ DeleteOrganization(r) \/ LeaveOrganization(r)
  \/ InviteMember(r) \/ KickoutMember(r) \/ UpdateOrganizationMemberRole(r)
  \/ AddOrganizationApiKey(r) \/ DeleteOrganizationApiKey(r)

ProcessDefs(r, op, stage) ==
  /\ Process(r, op, stage)
  /\ op \in {"updateOrganization", "deleteOrganization", "leaveOrganization",
             "inviteMember", "kickoutMember", "updateOrganizationMemberRole",
             "addOrganizationApiKey", "deleteOrganizationApiKey"}
  /\ stage = CASE op = "addOrganizationApiKey" -> "storePair"
               [] op = "deleteOrganizationApiKey" -> "deletePair"
               [] op = "deleteOrganization" -> "remove"
               [] OTHER -> "save"

LEMMA ProcessStepIsProcess ==
  ASSUME NEW r, ProcessStep(r)
  PROVE  \E op, stage : ProcessDefs(r, op, stage)
<1>1. CASE UpdateOrganization(r)
  <2>1. ProcessDefs(r, "updateOrganization", "save")
    BY <1>1 DEF UpdateOrganization, ProcessDefs
  <2> QED BY <2>1
<1>2. CASE DeleteOrganization(r)
  <2>1. ProcessDefs(r, "deleteOrganization", "remove")
    BY <1>2 DEF DeleteOrganization, ProcessDefs
  <2> QED BY <2>1
<1>3. CASE LeaveOrganization(r)
  <2>1. ProcessDefs(r, "leaveOrganization", "save")
    BY <1>3 DEF LeaveOrganization, ProcessDefs
  <2> QED BY <2>1
<1>4. CASE InviteMember(r)
  <2>1. ProcessDefs(r, "inviteMember", "save")
    BY <1>4 DEF InviteMember, ProcessDefs
  <2> QED BY <2>1
<1>5. CASE KickoutMember(r)
  <2>1. ProcessDefs(r, "kickoutMember", "save")
    BY <1>5 DEF KickoutMember, ProcessDefs
  <2> QED BY <2>1
<1>6. CASE UpdateOrganizationMemberRole(r)
  <2>1. ProcessDefs(r, "updateOrganizationMemberRole", "save")
    BY <1>6 DEF UpdateOrganizationMemberRole, ProcessDefs
  <2> QED BY <2>1
<1>7. CASE AddOrganizationApiKey(r)
  <2>1. ProcessDefs(r, "addOrganizationApiKey", "storePair")
    BY <1>7 DEF AddOrganizationApiKey, ProcessDefs
  <2> QED BY <2>1
<1>8. CASE DeleteOrganizationApiKey(r)
  <2>1. ProcessDefs(r, "deleteOrganizationApiKey", "deletePair")
    BY <1>8 DEF DeleteOrganizationApiKey, ProcessDefs
  <2> QED BY <2>1
<1> QED
  BY <1>1, <1>2, <1>3, <1>4, <1>5, <1>6, <1>7, <1>8 DEF ProcessStep

(* Deleting pairs leaves the key store a key store. *)
LEMMA DeleteKeyPairsType ==
  ASSUME KeyStoreTypeOK, NEW keys, DeleteKeyPairs(keys)
  PROVE  KeyStoreTypeOK'
BY DEF KeyStoreTypeOK, DeleteKeyPairs, PairStates

LEMMA TypeNext == TypeInv /\ [Next]_vars => TypeInv'
<1> SUFFICES ASSUME TypeInv, [Next]_vars PROVE TypeInv'
  OBVIOUS
<1> USE DEF TypeInv
<1>1. ASSUME NEW r \in Requests, Receive(r) PROVE TypeInv'
  <2>1. PICK c \in Workload : /\ call' = [call EXCEPT ![r] = c]
                             /\ pc' = [pc EXCEPT ![r] = FirstStage(c.op)]
    BY <1>1 DEF Receive
  <2>2. c \in Calls
    BY WorkloadAssumption
  <2>3. UNCHANGED <<entity, version, doomed, checked, pairs, docs, cas, indexed>>
    BY <1>1 DEF Receive, repositoryVars
  <2>4. FirstStage(c.op) \in {"checkName", "validate", "process"}
    BY DEF FirstStage
  <2>5. TypeOK'
    BY <2>1, <2>2, <2>3, <2>4
    DEF TypeOK, RepositoryTypeOK, KeyStoreTypeOK, Stages, InFlight, Prepared
  <2>6. StagesMatch'
    BY <2>1, <2>2, <2>3 DEF TypeOK, StagesMatch, FirstStage, Prepared
  <2> QED BY <2>5, <2>6
<1>2. ASSUME NEW r \in Requests, CheckName(r) PROVE TypeInv'
  <2>1. CASE Refuse(r)
    BY <1>2, <2>1, TypeRefuse DEF CheckName
  <2>2. CASE Continue(r, "process") /\ UNCHANGED <<pairs, repositoryVars>>
    <3>1. RepositoryTypeOK' /\ KeyStoreTypeOK'
      BY <2>2 DEF TypeOK, RepositoryTypeOK, KeyStoreTypeOK, repositoryVars
    <3> QED BY <1>2, <2>2, <3>1, TypeContinue DEF CheckName
  <2> QED BY <1>2, <2>1, <2>2 DEF CheckName
<1>3. ASSUME NEW r \in Requests, ValidateRoleUpdate(r) \/ ValidateApiKeyName(r)
      PROVE  TypeInv'
  <2>1. CASE Refuse(r)
    BY <1>3, <2>1, TypeRefuse DEF ValidateRoleUpdate, ValidateApiKeyName, Validate
  <2>2. CASE /\ pc' = [pc EXCEPT ![r] = "process"]
             /\ checked' = [checked EXCEPT ![r] = cas[call[r].org]]
             /\ UNCHANGED <<call, entity, version, doomed, pairs, repositoryVars>>
    <3>1. call[r] \in Calls
      BY <1>3 DEF TypeOK, ValidateRoleUpdate, ValidateApiKeyName, Validate
    <3>2. cas[call[r].org] \in Nat
      BY <3>1, CallFields DEF TypeOK, RepositoryTypeOK
    <3>3. TypeOK'
      BY <2>2, <3>1, <3>2
      DEF TypeOK, RepositoryTypeOK, KeyStoreTypeOK, repositoryVars, Stages, InFlight
    <3>4. StagesMatch'
      BY <2>2 DEF TypeOK, StagesMatch, Prepared
    <3> QED BY <3>3, <3>4
  <2> QED
    BY <1>3, <2>1, <2>2 DEF ValidateRoleUpdate, ValidateApiKeyName, Validate
<1>4. ASSUME NEW r \in Requests, CreateOrganization(r) PROVE TypeInv'
  <2>1. /\ pc' = [pc EXCEPT ![r] = "save"]
        /\ entity' = [entity EXCEPT ![r] = NewOrganization(call[r].name, call[r].caller)]
        /\ version' = [version EXCEPT ![r] = 0]
        /\ UNCHANGED <<call, doomed, checked, pairs, docs, cas, indexed>>
    BY <1>4 DEF CreateOrganization, repositoryVars
  <2>2. call[r] \in Calls /\ call[r].op = "createOrganization"
    BY <1>4 DEF CreateOrganization, TypeOK
  <2>3. NewOrganization(call[r].name, call[r].caller) \in Organizations
    BY <2>2, CallFields, NewOrganizationType
  <2>4. TypeOK'
    BY <2>1, <2>2, <2>3
    DEF TypeOK, RepositoryTypeOK, KeyStoreTypeOK, Stages, InFlight, Prepared
  <2>5. StagesMatch'
    BY <2>1, <2>2, <2>3, NoOrgAssumption DEF TypeOK, StagesMatch, Prepared
  <2> QED BY <2>4, <2>5
<1>5. ASSUME NEW r \in Requests, ProcessStep(r) PROVE TypeInv'
  BY <1>5, ProcessStepIsProcess, TypeProcess DEF ProcessDefs
<1>6. ASSUME NEW r \in Requests, StorePair(r) PROVE TypeInv'
  <2>1. RepositoryTypeOK' /\ KeyStoreTypeOK'
    BY <1>6 DEF StorePair, StoreKeyPair, TypeOK, RepositoryTypeOK, KeyStoreTypeOK,
                PairStates, repositoryVars
  <2> QED BY <1>6, <2>1, TypeContinue DEF StorePair, Prepared
<1>7. ASSUME NEW r \in Requests, DeletePair(r) PROVE TypeInv'
  <2>1. RepositoryTypeOK' /\ KeyStoreTypeOK'
    BY <1>7, DeleteKeyPairsType
    DEF DeletePair, TypeOK, RepositoryTypeOK, repositoryVars
  <2> QED BY <1>7, <2>1, TypeContinue DEF DeletePair, Prepared
<1>8. ASSUME NEW r \in Requests, Commit(r) PROVE TypeInv'
  <2>1. call[r].org \in OrgIds /\ entity[r] \in Organizations
    BY <1>8, CallFields DEF Commit, TypeOK, StagesMatch, Prepared
  <2>2. RepositoryTypeOK' /\ KeyStoreTypeOK'
    BY <1>8, <2>1 DEF Commit, Save, TypeOK, RepositoryTypeOK, KeyStoreTypeOK
  <2>3. PICK answer \in Answered : Continue(r, answer)
    BY <1>8 DEF Commit
  <2> QED BY <1>8, <2>2, <2>3, TypeContinue DEF Commit, Answered
<1>9. ASSUME NEW r \in Requests, Conflict(r) PROVE TypeInv'
  BY <1>9, TypeRefuse DEF Conflict
<1>10. ASSUME NEW r \in Requests, Remove(r) PROVE TypeInv'
  <2>1. CASE Refuse(r)
    BY <1>10, <2>1, TypeRefuse DEF Remove
  <2>2. CASE /\ DeleteById(call[r].org)
             /\ Continue(r, "purge")
             /\ UNCHANGED pairs
    <3>1. call[r].op = "deleteOrganization" /\ call[r].org \in OrgIds
      BY <1>10, CallFields DEF Remove, TypeOK, StagesMatch
    <3>2. RepositoryTypeOK' /\ KeyStoreTypeOK'
      BY <2>2, <3>1 DEF DeleteById, TypeOK, RepositoryTypeOK, KeyStoreTypeOK
    <3> QED BY <1>10, <2>2, <3>1, <3>2, TypeContinue DEF Remove
  <2> QED BY <1>10, <2>1, <2>2 DEF Remove
<1>11. ASSUME NEW r \in Requests, Purge(r) PROVE TypeInv'
  <2>1. PICK k \in doomed[r] :
          /\ doomed' = [doomed EXCEPT ![r] = @ \ {k}]
          /\ \/ DeleteKeyPairs({k}) /\ UNCHANGED pc
             \/ pc' = [pc EXCEPT ![r] = "failed"] /\ UNCHANGED pairs
    BY <1>11 DEF Purge
  <2>2. UNCHANGED <<call, entity, version, checked, docs, cas, indexed>>
    BY <1>11 DEF Purge, repositoryVars
  <2>3. RepositoryTypeOK'
    BY <2>2 DEF TypeOK, RepositoryTypeOK
  <2>4. KeyStoreTypeOK'
    BY <2>1, DeleteKeyPairsType DEF TypeOK, KeyStoreTypeOK
  <2>5. TypeOK'
    BY <1>11, <2>1, <2>2, <2>3, <2>4 DEF TypeOK, Stages, Answered, Purge
  <2>6. StagesMatch'
    BY <2>1, <2>2 DEF StagesMatch, TypeOK, Prepared
  <2> QED BY <2>5, <2>6
<1>12. ASSUME NEW r \in Requests, Purged(r) PROVE TypeInv'
  <2>1. RepositoryTypeOK' /\ KeyStoreTypeOK'
    BY <1>12 DEF Purged, TypeOK, RepositoryTypeOK, KeyStoreTypeOK, repositoryVars
  <2> QED BY <1>12, <2>1, TypeContinue DEF Purged, Answered
<1>13. ASSUME NEW r \in Requests, Abort(r) PROVE TypeInv'
  BY <1>13, TypeRefuse DEF Abort, InFlight, Prepared
<1>14. ASSUME NEW id \in OrgIds, CatchUp(id) PROVE TypeInv'
  <2>1. UNCHANGED <<docs, cas, pairs, pc, call, entity, version, doomed, checked>>
    BY <1>14 DEF CatchUp, Reindex, requestVars
  <2>2. indexed' \in SUBSET OrgIds
    BY <1>14 DEF CatchUp, Reindex, TypeOK, RepositoryTypeOK
  <2> QED
    BY <2>1, <2>2 DEF TypeOK, RepositoryTypeOK, KeyStoreTypeOK, StagesMatch
<1>15. ASSUME NEW k \in KeyIds, LateStore(k) \/ LateDeletion(k) PROVE TypeInv'
  <2>1. UNCHANGED <<docs, cas, indexed, pc, call, entity, version, doomed, checked>>
    BY <1>15 DEF LateStore, LateDeletion, requestVars, repositoryVars
  <2>2. KeyStoreTypeOK'
    BY <1>15, DeleteKeyPairsType
    DEF LateStore, LateDeletion, StoreLate, TypeOK, KeyStoreTypeOK, PairStates
  <2> QED
    BY <2>1, <2>2 DEF TypeOK, RepositoryTypeOK, StagesMatch
<1>16. ASSUME UNCHANGED vars PROVE TypeInv'
  BY <1>16 DEF vars, TypeOK, RepositoryTypeOK, KeyStoreTypeOK, StagesMatch
<1> QED
  BY <1>1, <1>2, <1>3, <1>4, <1>5, <1>6, <1>7, <1>8, <1>9, <1>10, <1>11, <1>12,
     <1>13, <1>14, <1>15, <1>16
  DEF Next, Advance, ProcessStep, Idle

(* Every variable keeps its type. *)
THEOREM TypeCorrect == Spec => []TypeOK
<1>1. TypeInv => TypeOK
  BY DEF TypeInv
<1> QED
  BY <1>1, TypeInit, TypeNext, PTL DEF Spec

-----------------------------------------------------------------------------
(* Coherence.  A step touches one request; to the others it is a step of the
   repository, which either leaves a document alone or gives it a new CAS. *)

RepositoryStep ==
  \A id \in OrgIds :
    \/ docs'[id] = docs[id] /\ cas'[id] = cas[id]
    \/ cas'[id] = cas[id] + 1

Knows(r) == PreparedIsCurrent(r) /\ RemoveIsCurrent(r) /\ CheckedIsCurrent(r)

(* A request the step does not touch knows what it knew. *)
LEMMA OthersKeepKnowing ==
  ASSUME TypeInv, NEW q \in Requests, Knows(q), RepositoryStep,
         UNCHANGED <<pc[q], call[q], entity[q], version[q], doomed[q], checked[q]>>
  PROVE  Knows(q)'
<1> DEFINE id == call[q].org
<1>1. CASE pc[q] = "idle"
  BY <1>1 DEF Knows, PreparedIsCurrent, RemoveIsCurrent, CheckedIsCurrent, Prepared
<1>2. CASE pc[q] # "idle"
  <2>1. /\ id \in OrgIds /\ cas[id] \in Nat /\ call'[q].org = id
        /\ version[q] \in Nat /\ checked[q] \in Nat
    BY <1>2, CallFields DEF TypeInv, TypeOK, RepositoryTypeOK
  <2>2. CASE docs'[id] = docs[id] /\ cas'[id] = cas[id]
    BY <2>1, <2>2
    DEF Knows, PreparedIsCurrent, RemoveIsCurrent, CheckedIsCurrent, IsCurrent
  <2>3. CASE cas'[id] = cas[id] + 1
    BY <2>1, <2>3
    DEF Knows, PreparedIsCurrent, RemoveIsCurrent, CheckedIsCurrent, IsCurrent
  <2> QED BY <2>1, <2>2, <2>3 DEF RepositoryStep
<1> QED BY <1>1, <1>2

(* A request that has been answered, or purges, claims to know nothing. *)
LEMMA AnsweredKnowsNothing ==
  ASSUME NEW r, pc[r] \in Answered \cup {"purge", "checkName", "validate"}
  PROVE  Knows(r)
BY DEF Knows, PreparedIsCurrent, RemoveIsCurrent, CheckedIsCurrent, Prepared, Answered

(* All that is left to show of a step of r. *)
LEMMA OneRequestSteps ==
  ASSUME TypeInv, Coherent, StagesMatch', NEW r \in Requests,
         RepositoryStep, UnwrittenIsAbsent', Knows(r)',
         \A q \in Requests \ {r} :
           UNCHANGED <<pc[q], call[q], entity[q], version[q], doomed[q], checked[q]>>
  PROVE  Coherent'
<1>1. ASSUME NEW q \in Requests PROVE Knows(q)'
  BY <1>1, OthersKeepKnowing DEF Coherent, Knows
<1> QED BY <1>1 DEF Coherent, Knows

LEMMA CoherentInit == Init => Coherent
<1> SUFFICES ASSUME Init PROVE Coherent
  OBVIOUS
<1>1. UnwrittenIsAbsent
  BY DEF Init, RepositoryInit, UnwrittenIsAbsent
<1>2. \A r \in Requests : pc[r] = "idle"
  BY DEF Init
<1>3. \A r \in Requests : Knows(r)
  BY <1>2 DEF Knows, PreparedIsCurrent, RemoveIsCurrent, CheckedIsCurrent, Prepared
<1> QED BY <1>1, <1>3, TypeInit DEF Coherent, TypeInv, Knows

(* A step that leaves the documents and the objects alone. *)
LEMMA CoherentContinue ==
  ASSUME TypeInv, Coherent, StagesMatch', NEW r \in Requests, NEW stage,
         pc[r] # "idle", Continue(r, stage),
         RepositoryStep, UnwrittenIsAbsent',
         stage \in Answered \cup {"purge"} \/ Knows(r)'
  PROVE  Coherent'
<1>1. pc'[r] = stage
  BY DEF Continue, TypeInv, TypeOK
<1>2. Knows(r)'
  BY <1>1, AnsweredKnowsNothing
     DEF Knows, PreparedIsCurrent, RemoveIsCurrent, CheckedIsCurrent, Prepared, Answered
<1>3. \A q \in Requests \ {r} :
        UNCHANGED <<pc[q], call[q], entity[q], version[q], doomed[q], checked[q]>>
  BY DEF Continue, TypeInv, TypeOK
<1> QED BY <1>2, <1>3, OneRequestSteps

LEMMA SameDocuments ==
  ASSUME Coherent, UNCHANGED <<docs, cas>>
  PROVE  RepositoryStep /\ UnwrittenIsAbsent'
BY DEF RepositoryStep, UnwrittenIsAbsent, Coherent

LEMMA CoherentRefuse ==
  ASSUME TypeInv, Coherent, StagesMatch', NEW r \in Requests, pc[r] # "idle", Refuse(r)
  PROVE  Coherent'
<1>1. RepositoryStep /\ UnwrittenIsAbsent'
  BY SameDocuments DEF Refuse, repositoryVars
<1> QED BY <1>1, CoherentContinue DEF Refuse, Answered

LEMMA CoherentProcess ==
  ASSUME TypeInv, Coherent, StagesMatch', NEW r \in Requests,
         NEW op, NEW stage, ProcessDefs(r, op, stage)
  PROVE  Coherent'
<1> DEFINE c == call[r]
           o == docs[c.org]
<1>1. /\ c \in Calls /\ c.op = op /\ pc[r] = "process" /\ c.org \in OrgIds
      /\ cas[c.org] \in Nat /\ o \in Organizations \cup {NoOrg}
  BY CallFields DEF TypeInv, TypeOK, RepositoryTypeOK, ProcessDefs, Process
<1>2. CASE ~(o # NoOrg /\ Permits(c, o))
  BY <1>1, <1>2, CoherentRefuse DEF ProcessDefs, Process, FindById
<1>3. CASE o # NoOrg /\ Permits(c, o)
  <2>1. PICK keys \in DoomedKeys(c, o) : doomed' = [doomed EXCEPT ![r] = keys]
    BY <1>3 DEF ProcessDefs, Process, FindById
  <2>2. /\ pc' = [pc EXCEPT ![r] = stage]
        /\ entity' = [entity EXCEPT ![r] = Effect(c, o, r)]
        /\ version' = [version EXCEPT ![r] = cas[c.org]]
        /\ UNCHANGED <<call, checked, pairs, docs, cas, indexed>>
    BY <1>3 DEF ProcessDefs, Process, FindById, repositoryVars
  <2>3. /\ pc'[r] = stage /\ entity'[r] = Effect(c, o, r) /\ doomed'[r] = keys
        /\ version'[r] = cas[c.org] /\ checked'[r] = checked[r] /\ call'[r] = c
        /\ docs'[c.org] = o /\ cas'[c.org] = cas[c.org]
    BY <2>1, <2>2 DEF TypeInv, TypeOK
  <2>4. cas[c.org] \in 1..cas[c.org]
    BY <1>1, <1>3 DEF Coherent, UnwrittenIsAbsent
  <2>5. RepositoryStep /\ UnwrittenIsAbsent'
    BY <2>2, SameDocuments
  <2>6. PreparedIsCurrent(r)'
    BY <1>1, <1>3, <2>3, <2>4 DEF PreparedIsCurrent, ProcessDefs
  <2>7. RemoveIsCurrent(r)'
    <3>1. CASE op = "deleteOrganization"
      <4>1. IsOwner(o, c.caller)
        BY <1>1, <1>3, <3>1 DEF Permits
      <4>2. keys = KeyIdsOf(o)
        BY <1>1, <2>1, <3>1 DEF DoomedKeys
      <4> QED BY <1>3, <2>3, <2>4, <4>1, <4>2 DEF RemoveIsCurrent
    <3>2. CASE op # "deleteOrganization"
      <4>1. stage # "remove"
        BY <3>2 DEF ProcessDefs
      <4> QED BY <2>3, <4>1 DEF RemoveIsCurrent
    <3> QED BY <3>1, <3>2
  <2>8. CheckedIsCurrent(r)'
    <3>1. CheckedIsCurrent(r)
      BY DEF Coherent
    <3> QED BY <1>1, <2>3, <3>1 DEF CheckedIsCurrent
  <2>9. \A q \in Requests \ {r} :
          UNCHANGED <<pc[q], call[q], entity[q], version[q], doomed[q], checked[q]>>
    BY <2>1, <2>2 DEF TypeInv, TypeOK
  <2> QED BY <2>5, <2>6, <2>7, <2>8, <2>9, OneRequestSteps DEF Knows
<1> QED BY <1>2, <1>3

LEMMA CoherentNext == TypeInv /\ Coherent /\ [Next]_vars => Coherent'
<1> SUFFICES ASSUME TypeInv, Coherent, [Next]_vars PROVE Coherent'
  OBVIOUS
<1>0. StagesMatch'
  BY TypeNext DEF TypeInv
<1>1. ASSUME NEW r \in Requests, Receive(r) PROVE Coherent'
  <2>1. PICK c \in Workload : /\ call' = [call EXCEPT ![r] = c]
                             /\ pc' = [pc EXCEPT ![r] = FirstStage(c.op)]
    BY <1>1 DEF Receive
  <2>2. UNCHANGED <<entity, version, doomed, checked, docs, cas>>
    BY <1>1 DEF Receive, repositoryVars
  <2>3. pc'[r] = FirstStage(c.op) /\ call'[r] = c
    BY <2>1 DEF TypeInv, TypeOK
  <2>4. RepositoryStep /\ UnwrittenIsAbsent'
    BY <2>2, SameDocuments
  <2>5. Knows(r)'
    BY <2>3 DEF Knows, PreparedIsCurrent, RemoveIsCurrent, CheckedIsCurrent,
                FirstStage, Prepared
  <2>6. \A q \in Requests \ {r} :
          UNCHANGED <<pc[q], call[q], entity[q], version[q], doomed[q], checked[q]>>
    BY <2>1, <2>2 DEF TypeInv, TypeOK
  <2> QED BY <1>0, <2>4, <2>5, <2>6, OneRequestSteps
<1>2. ASSUME NEW r \in Requests, CheckName(r) PROVE Coherent'
  <2>1. CASE Refuse(r)
    BY <1>0, <1>2, <2>1, CoherentRefuse DEF CheckName
  <2>2. CASE Continue(r, "process") /\ UNCHANGED <<pairs, repositoryVars>>
    <3>1. RepositoryStep /\ UnwrittenIsAbsent'
      BY <2>2, SameDocuments DEF repositoryVars
    <3>2. call[r].op \in {"createOrganization", "updateOrganization"}
      BY <1>2 DEF CheckName, TypeInv, StagesMatch
    <3>3. pc'[r] = "process" /\ call'[r] = call[r]
      BY <2>2 DEF Continue, TypeInv, TypeOK
    <3>4. Knows(r)'
      BY <3>2, <3>3
      DEF Knows, PreparedIsCurrent, RemoveIsCurrent, CheckedIsCurrent, Prepared
    <3> QED BY <1>0, <1>2, <2>2, <3>1, <3>4, CoherentContinue DEF CheckName
  <2> QED BY <1>2, <2>1, <2>2 DEF CheckName
<1>3. ASSUME NEW r \in Requests, NEW op, NEW accepted, Validate(r, op, accepted),
             \/ /\ op = "updateOrganizationMemberRole"
                /\ accepted => MayUpdateRole(docs[call[r].org], call[r])
             \/ /\ op = "addOrganizationApiKey"
                /\ accepted => IsFreeKeyName(docs[call[r].org], call[r].keyName)
      PROVE  Coherent'
  <2> DEFINE c == call[r]
             o == docs[c.org]
  <2>1. CASE Refuse(r)
    BY <1>0, <1>3, <2>1, CoherentRefuse DEF Validate
  <2>2. CASE /\ o # NoOrg /\ accepted
             /\ pc' = [pc EXCEPT ![r] = "process"]
             /\ checked' = [checked EXCEPT ![r] = cas[c.org]]
             /\ UNCHANGED <<call, entity, version, doomed, pairs, repositoryVars>>
    <3>1. c \in Calls /\ c.op = op
      BY <1>3 DEF Validate, TypeInv, TypeOK
    <3>2. c.org \in OrgIds /\ cas[c.org] \in 1..cas[c.org]
      BY <2>2, <3>1, CallFields
      DEF TypeInv, TypeOK, RepositoryTypeOK, Coherent, UnwrittenIsAbsent
    <3>3. RepositoryStep /\ UnwrittenIsAbsent'
      BY <2>2, SameDocuments DEF repositoryVars
    <3>4. /\ pc'[r] = "process" /\ checked'[r] = cas[c.org] /\ call'[r] = c
          /\ docs'[c.org] = o /\ cas'[c.org] = cas[c.org]
      BY <2>2 DEF TypeInv, TypeOK, repositoryVars
    <3>5. CheckedIsCurrent(r)'
      BY <1>3, <2>2, <3>1, <3>2, <3>4 DEF CheckedIsCurrent
    <3>6. PreparedIsCurrent(r)' /\ RemoveIsCurrent(r)'
      BY <3>4 DEF PreparedIsCurrent, RemoveIsCurrent, Prepared
    <3>7. \A q \in Requests \ {r} :
            UNCHANGED <<pc[q], call[q], entity[q], version[q], doomed[q], checked[q]>>
      BY <2>2 DEF TypeInv, TypeOK
    <3> QED BY <1>0, <3>3, <3>5, <3>6, <3>7, OneRequestSteps DEF Knows
  <2> QED BY <1>3, <2>1, <2>2 DEF Validate, FindById
<1>4. ASSUME NEW r \in Requests, ValidateRoleUpdate(r) PROVE Coherent'
  BY <1>3, <1>4 DEF ValidateRoleUpdate, FindById
<1>5. ASSUME NEW r \in Requests, ValidateApiKeyName(r) PROVE Coherent'
  BY <1>3, <1>5 DEF ValidateApiKeyName, FindById
<1>6. ASSUME NEW r \in Requests, CreateOrganization(r) PROVE Coherent'
  <2>1. /\ pc' = [pc EXCEPT ![r] = "save"]
        /\ entity' = [entity EXCEPT ![r] = NewOrganization(call[r].name, call[r].caller)]
        /\ version' = [version EXCEPT ![r] = 0]
        /\ UNCHANGED <<call, doomed, checked, docs, cas>>
        /\ call[r].op = "createOrganization"
    BY <1>6 DEF CreateOrganization, repositoryVars
  <2>2. RepositoryStep /\ UnwrittenIsAbsent'
    BY <2>1, SameDocuments
  <2>3. Knows(r)'
    BY <2>1 DEF Knows, PreparedIsCurrent, RemoveIsCurrent, CheckedIsCurrent, TypeInv, TypeOK
  <2>4. \A q \in Requests \ {r} :
          UNCHANGED <<pc[q], call[q], entity[q], version[q], doomed[q], checked[q]>>
    BY <2>1 DEF TypeInv, TypeOK
  <2> QED BY <1>0, <2>2, <2>3, <2>4, OneRequestSteps
<1>7. ASSUME NEW r \in Requests, ProcessStep(r) PROVE Coherent'
  BY <1>0, <1>7, ProcessStepIsProcess, CoherentProcess
<1>8. ASSUME NEW r \in Requests, StorePair(r) \/ DeletePair(r) PROVE Coherent'
  <2>1. /\ Continue(r, "save") /\ UNCHANGED <<docs, cas>>
        /\ pc[r] \in {"storePair", "deletePair"}
    BY <1>8 DEF StorePair, DeletePair, repositoryVars
  <2>2. RepositoryStep /\ UnwrittenIsAbsent'
    BY <2>1, SameDocuments
  <2>3. Knows(r)
    BY DEF Coherent, Knows
  <2>4. /\ pc'[r] = "save"
        /\ UNCHANGED <<call[r], entity[r], version[r], doomed[r], checked[r], docs, cas>>
    BY <2>1 DEF Continue, TypeInv, TypeOK
  <2>5. Knows(r)'
    BY <2>1, <2>3, <2>4
    DEF Knows, PreparedIsCurrent, RemoveIsCurrent, CheckedIsCurrent, IsCurrent, Prepared
  <2> QED BY <1>0, <2>1, <2>2, <2>5, CoherentContinue
<1>9. ASSUME NEW r \in Requests, Commit(r) PROVE Coherent'
  <2>1. PICK answer \in Answered : Continue(r, answer)
    BY <1>9 DEF Commit
  <2>2. call[r].org \in OrgIds
    BY <1>9, CallFields DEF Commit, TypeInv, TypeOK
  <2>3. RepositoryStep /\ UnwrittenIsAbsent'
    BY <1>9, <2>2
    DEF Commit, Save, RepositoryStep, UnwrittenIsAbsent, Coherent, TypeInv, TypeOK,
        RepositoryTypeOK
  <2> QED BY <1>0, <1>9, <2>1, <2>3, CoherentContinue DEF Commit
<1>10. ASSUME NEW r \in Requests, Conflict(r) PROVE Coherent'
  BY <1>0, <1>10, CoherentRefuse DEF Conflict
<1>11. ASSUME NEW r \in Requests, Remove(r) PROVE Coherent'
  <2>1. CASE Refuse(r)
    BY <1>0, <1>11, <2>1, CoherentRefuse DEF Remove
  <2>2. CASE DeleteById(call[r].org) /\ Continue(r, "purge")
    <3>1. call[r].org \in OrgIds
      BY <1>11, CallFields DEF Remove, TypeInv, TypeOK
    <3>2. RepositoryStep /\ UnwrittenIsAbsent'
      BY <2>2, <3>1
      DEF DeleteById, RepositoryStep, UnwrittenIsAbsent, Coherent, TypeInv, TypeOK,
          RepositoryTypeOK
    <3> QED BY <1>0, <1>11, <2>2, <3>2, CoherentContinue DEF Remove
  <2> QED BY <1>11, <2>1, <2>2 DEF Remove
<1>12. ASSUME NEW r \in Requests, Purge(r) PROVE Coherent'
  <2>1. /\ \E k \in doomed[r] : doomed' = [doomed EXCEPT ![r] = @ \ {k}]
        /\ pc' = pc \/ pc' = [pc EXCEPT ![r] = "failed"]
    BY <1>12 DEF Purge
  <2>2. UNCHANGED <<call, entity, version, checked, docs, cas>> /\ pc[r] = "purge"
    BY <1>12 DEF Purge, repositoryVars
  <2>3. RepositoryStep /\ UnwrittenIsAbsent'
    BY <2>2, SameDocuments
  <2>4. Knows(r)'
    <3>1. pc'[r] \in {"purge", "failed"}
      BY <2>1, <2>2 DEF TypeInv, TypeOK
    <3> QED
      BY <3>1 DEF Knows, PreparedIsCurrent, RemoveIsCurrent, CheckedIsCurrent, Prepared
  <2>5. \A q \in Requests \ {r} :
          UNCHANGED <<pc[q], call[q], entity[q], version[q], doomed[q], checked[q]>>
    BY <2>1, <2>2 DEF TypeInv, TypeOK
  <2> QED BY <1>0, <2>3, <2>4, <2>5, OneRequestSteps
<1>13. ASSUME NEW r \in Requests, Purged(r) PROVE Coherent'
  <2>1. RepositoryStep /\ UnwrittenIsAbsent'
    BY <1>13, SameDocuments DEF Purged, repositoryVars
  <2> QED BY <1>0, <1>13, <2>1, CoherentContinue DEF Purged, Answered
<1>14. ASSUME NEW r \in Requests, Abort(r) PROVE Coherent'
  BY <1>0, <1>14, CoherentRefuse DEF Abort, InFlight, Prepared
<1>15. ASSUME UNCHANGED <<docs, cas, requestVars>> PROVE Coherent'
  <2>1. UNCHANGED <<docs, cas, pc, call, entity, version, doomed, checked>>
    BY <1>15 DEF requestVars
  <2>2. \A r \in Requests : Knows(r)'
    BY <2>1 DEF Coherent, Knows, PreparedIsCurrent, RemoveIsCurrent, CheckedIsCurrent,
                IsCurrent
  <2>3. RepositoryStep /\ UnwrittenIsAbsent'
    BY <2>1, SameDocuments
  <2> QED BY <1>0, <2>2, <2>3 DEF Coherent, Knows
<1>16. ASSUME NEW id \in OrgIds, CatchUp(id) PROVE Coherent'
  BY <1>15, <1>16 DEF CatchUp, Reindex
<1>17. ASSUME NEW k \in KeyIds, LateStore(k) \/ LateDeletion(k) PROVE Coherent'
  BY <1>15, <1>17 DEF LateStore, LateDeletion, repositoryVars
<1>18. ASSUME UNCHANGED vars PROVE Coherent'
  BY <1>15, <1>18 DEF vars, requestVars
<1> QED
  BY <1>1, <1>2, <1>4, <1>5, <1>6, <1>7, <1>8, <1>9, <1>10, <1>11, <1>12, <1>13,
     <1>14, <1>16, <1>17, <1>18
  DEF Next, Advance, ProcessStep, Idle

(* The inductive invariant. *)
LEMMA Inductive == Spec => [](TypeInv /\ Coherent)
<1>1. Init => TypeInv /\ Coherent
  BY TypeInit, CoherentInit
<1>2. TypeInv /\ Coherent /\ [Next]_vars => (TypeInv /\ Coherent)'
  BY TypeNext, CoherentNext
<1> QED
  BY <1>1, <1>2, PTL DEF Spec

(* What a request has read and checked holds for as long as the CAS does. *)
THEOREM Coherence == Spec => []Coherent
BY Inductive, PTL

-----------------------------------------------------------------------------
(* Which step may do what to a document. *)

(* Only a commit or a removal touches the documents. *)
LEMMA WhoWrites ==
  ASSUME TypeInv, [Next]_vars, docs' # docs
  PROVE  \E r \in Requests : Commit(r) \/ (Remove(r) /\ CanDelete(call[r].org))
<1> SUFFICES ASSUME \A r \in Requests :
                      ~Commit(r) /\ ~(Remove(r) /\ CanDelete(call[r].org))
             PROVE  docs' = docs
  OBVIOUS
<1>1. ASSUME NEW r \in Requests, Receive(r) PROVE docs' = docs
  BY <1>1 DEF Receive, repositoryVars
<1>2. ASSUME NEW r, Refuse(r) PROVE docs' = docs
  BY <1>2 DEF Refuse, repositoryVars
<1>3. ASSUME NEW r \in Requests,
             CheckName(r) \/ CreateOrganization(r) \/ Conflict(r) \/ Abort(r)
      PROVE  docs' = docs
  BY <1>2, <1>3 DEF CheckName, CreateOrganization, Conflict, Abort, repositoryVars
<1>4. ASSUME NEW r \in Requests, ValidateRoleUpdate(r) \/ ValidateApiKeyName(r)
      PROVE  docs' = docs
  BY <1>2, <1>4 DEF ValidateRoleUpdate, ValidateApiKeyName, Validate, repositoryVars
<1>5. ASSUME NEW r \in Requests, ProcessStep(r) PROVE docs' = docs
  <2>1. PICK op, stage : Process(r, op, stage)
    BY <1>5, ProcessStepIsProcess DEF ProcessDefs
  <2> QED BY <1>2, <2>1 DEF Process, repositoryVars
<1>6. ASSUME NEW r \in Requests, StorePair(r) \/ DeletePair(r) \/ Purge(r) \/ Purged(r)
      PROVE  docs' = docs
  BY <1>6 DEF StorePair, DeletePair, Purge, Purged, repositoryVars
<1>7. ASSUME NEW r \in Requests, Remove(r) PROVE docs' = docs
  BY <1>2, <1>7 DEF Remove
<1>8. ASSUME NEW id \in OrgIds, CatchUp(id) PROVE docs' = docs
  BY <1>8 DEF CatchUp, Reindex
<1>9. ASSUME NEW k \in KeyIds, LateStore(k) \/ LateDeletion(k) PROVE docs' = docs
  BY <1>9 DEF LateStore, LateDeletion, repositoryVars
<1>10. ASSUME UNCHANGED vars PROVE docs' = docs
  BY <1>10 DEF vars
<1> QED
  BY <1>1, <1>3, <1>4, <1>5, <1>6, <1>7, <1>8, <1>9, <1>10 DEF Next, Advance, ProcessStep, Idle

(* A commit creates an organization where there is none, or applies one call to
   the organization as it is stored, with the checks of the call holding of it. *)
LEMMA CommitIsAtomic ==
  ASSUME TypeInv, Coherent, NEW r \in Requests, Commit(r)
  PROVE  LET c == call[r]
             o == docs[c.org]
         IN /\ c \in Calls /\ c.org \in OrgIds /\ pc[r] = "save" /\ pc'[r] # "save"
            /\ docs' = [docs EXCEPT ![c.org] = entity[r]]
            /\ docs'[c.org] = entity[r]
            /\ \/ /\ c.op = "createOrganization"
                  /\ o = NoOrg
                  /\ entity[r] = NewOrganization(c.name, c.caller)
               \/ /\ c.op \notin {"createOrganization", "deleteOrganization"}
                  /\ o \in Organizations
                  /\ version[r] = cas[c.org]
                  /\ Permits(c, o)
                  /\ entity[r] = Effect(c, o, r)
<1> DEFINE c == call[r]
           o == docs[c.org]
<1>1. c \in Calls /\ c.org \in OrgIds /\ pc[r] = "save" /\ o \in Organizations \cup {NoOrg}
  BY CallFields DEF Commit, TypeInv, TypeOK, RepositoryTypeOK
<1>2. docs' = [docs EXCEPT ![c.org] = entity[r]] /\ docs'[c.org] = entity[r]
  BY <1>1 DEF Commit, Save, TypeInv, TypeOK, RepositoryTypeOK
<1>3. pc'[r] # "save"
  BY DEF Commit, Continue, Answered, TypeInv, TypeOK
<1>4. c.op # "deleteOrganization" /\ PreparedIsCurrent(r)
  BY <1>1 DEF Coherent, StagesMatch
<1>5. CASE c.op = "createOrganization"
  BY <1>1, <1>2, <1>3, <1>4, <1>5 DEF PreparedIsCurrent, Prepared, Commit, CanSave
<1>6. CASE c.op # "createOrganization"
  <2>1. version[r] # 0 /\ (IsCurrent(r) => /\ o # NoOrg
                                          /\ Permits(c, o)
                                          /\ entity[r] = Effect(c, o, r))
    BY <1>1, <1>4, <1>6 DEF PreparedIsCurrent, Prepared
  <2>2. version[r] = cas[c.org]
    BY <2>1 DEF Commit, CanSave
  <2> QED BY <1>1, <1>2, <1>3, <1>4, <1>6, <2>1, <2>2 DEF IsCurrent
<1> QED BY <1>5, <1>6

(* How an organization that stays comes to be another one. *)
LEMMA WhoChanges ==
  ASSUME TypeInv, Coherent, [Next]_vars, NEW id \in OrgIds,
         Exists(id), docs'[id] # docs[id]
  PROVE  \E r \in Requests :
           /\ Commits(r, id, call[r].op)
           /\ call[r] \in Calls
           /\ call[r].op \notin {"createOrganization", "deleteOrganization"}
           /\ docs[id] \in Organizations
           /\ Permits(call[r], docs[id])
           /\ docs'[id] = Effect(call[r], docs[id], r)
           /\ version[r] = cas[id]
<1>1. PICK r \in Requests : Commit(r) \/ (Remove(r) /\ CanDelete(call[r].org))
  BY WhoWrites
<1>2. CASE Commit(r)
  <2>1. id = call[r].org
    BY <1>2, CommitIsAtomic DEF TypeInv, TypeOK, RepositoryTypeOK
  <2> QED BY <1>2, <2>1, CommitIsAtomic DEF Exists, Commits
<1>3. CASE Remove(r) /\ CanDelete(call[r].org)
  BY <1>3 DEF Remove, DeleteById, Exists, TypeInv, TypeOK, RepositoryTypeOK
<1> QED BY <1>1, <1>2, <1>3

-----------------------------------------------------------------------------
(* Owners and roles. *)

(* An unraced change of role commits with its checks holding. *)
LEMMA UnracedRoleUpdate ==
  ASSUME TypeInv, Coherent, NEW r \in Requests, pc[r] = "save",
         call[r].op = "updateOrganizationMemberRole",
         version[r] = cas[call[r].org], ~Raced(r)
  PROVE  MayUpdateRole(docs[call[r].org], call[r])
BY DEF Coherent, CheckedIsCurrent, Raced, Prepared

(* The last owner of an organization is lost only by a change of role whose
   checks were made on an older document than the one it changed. *)
THEOREM LastOwnerProtected == Spec => LastOwnerLostOnlyByRace
<1> DEFINE A == \A id \in OrgIds :
                  Exists(id) /\ HasOwner(docs[id]) /\ ~HasOwner(docs'[id]) =>
                    \E r \in Requests :
                      Commits(r, id, "updateOrganizationMemberRole") /\ Raced(r)
<1>1. TypeInv /\ Coherent /\ [Next]_vars => A
  <2> SUFFICES ASSUME TypeInv, Coherent, [Next]_vars, NEW id \in OrgIds,
                      Exists(id), HasOwner(docs[id]), ~HasOwner(docs'[id])
               PROVE  \E r \in Requests :
                        Commits(r, id, "updateOrganizationMemberRole") /\ Raced(r)
    OBVIOUS
  <2>1. PICK r \in Requests :
          /\ Commits(r, id, call[r].op)
          /\ call[r] \in Calls
          /\ call[r].op \notin {"createOrganization", "deleteOrganization"}
          /\ docs[id] \in Organizations
          /\ Permits(call[r], docs[id])
          /\ docs'[id] = Effect(call[r], docs[id], r)
          /\ version[r] = cas[id]
    BY WhoChanges
  <2>2. ~(call[r].op = "updateOrganizationMemberRole" => MayUpdateRole(docs[id], call[r]))
    BY <2>1, OwnersKept
  <2>3. Raced(r)
    BY <2>1, <2>2, UnracedRoleUpdate DEF Commits
  <2> QED BY <2>1, <2>2, <2>3
<1>2. Spec => [][A]_vars
  BY <1>1, Inductive, PTL DEF Spec
<1> QED BY <1>2 DEF LastOwnerLostOnlyByRace

(* Roles are changed from above, but for one's own leaving and for changes of
   role whose checks were made on an older document. *)
THEOREM RolesProtected == Spec => RolesChangedFromAbove
<1> DEFINE FromAbove(r, id, u) ==
             /\ \E op \in {"inviteMember", "kickoutMember", "leaveOrganization",
                           "updateOrganizationMemberRole"} : Commits(r, id, op)
             /\ \/ call[r].op = "leaveOrganization" /\ call[r].caller = u
                \/ call[r].op = "updateOrganizationMemberRole" /\ Raced(r)
                \/ /\ IsSuperUser(docs[id], call[r].caller)
                   /\ \A role \in {GetRole(docs[id], u), GetRole(docs'[id], u)} \cap Roles :
                        ~IsHigherThan(role, GetRole(docs[id], call[r].caller))
           A == \A id \in OrgIds : Exists(id) =>
                  \A u \in Users :
                    GetRole(docs[id], u) # GetRole(docs'[id], u) =>
                      \E r \in Requests : FromAbove(r, id, u)
<1>1. TypeInv /\ Coherent /\ [Next]_vars => A
  <2> SUFFICES ASSUME TypeInv, Coherent, [Next]_vars, NEW id \in OrgIds, Exists(id),
                      NEW u \in Users, GetRole(docs[id], u) # GetRole(docs'[id], u)
               PROVE  \E r \in Requests : FromAbove(r, id, u)
    OBVIOUS
  <2>1. PICK r \in Requests :
          /\ Commits(r, id, call[r].op)
          /\ call[r] \in Calls
          /\ call[r].op \notin {"createOrganization", "deleteOrganization"}
          /\ docs[id] \in Organizations
          /\ Permits(call[r], docs[id])
          /\ docs'[id] = Effect(call[r], docs[id], r)
          /\ version[r] = cas[id]
    BY WhoChanges
  <2> DEFINE c == call[r]
             o == docs[id]
  <2>2. Effect(c, o, r).members[u] # o.members[u]
    BY <2>1 DEF GetRole
  <2>3. /\ c.op \in {"inviteMember", "kickoutMember", "leaveOrganization",
                     "updateOrganizationMemberRole"}
        /\ c.op = "leaveOrganization" => c.caller = u
    BY <2>1, <2>2, EffectOnMembers
  <2>4. c.op = "updateOrganizationMemberRole" => Raced(r) \/ MayUpdateRole(o, c)
    BY <2>1, UnracedRoleUpdate DEF Commits
  <2>5. CASE c.op = "leaveOrganization" \/ (c.op = "updateOrganizationMemberRole" /\ Raced(r))
    BY <2>1, <2>3, <2>5
  <2>6. CASE /\ c.op # "leaveOrganization"
             /\ c.op = "updateOrganizationMemberRole" => MayUpdateRole(o, c)
    <3>1. /\ IsSuperUser(o, c.caller)
          /\ \A role \in {GetRole(o, u), GetRole(Effect(c, o, r), u)} \cap Roles :
               ~IsHigherThan(role, GetRole(o, c.caller))
      BY <2>1, <2>2, <2>6, ChangedFromAbove
    <3> QED BY <2>1, <2>3, <3>1
  <2> QED BY <2>4, <2>5, <2>6
<1>2. Spec => [][A]_vars
  BY <1>1, Inductive, PTL DEF Spec
<1> QED BY <1>2 DEF RolesChangedFromAbove

(* An organization that has lost its owners gets one back only by such a change. *)
THEOREM OwnerlessForGood == Spec => OwnerlessStaysOwnerless
<1> DEFINE A == \A id \in OrgIds :
                  Exists(id) /\ ~HasOwner(docs[id]) /\ HasOwner(docs'[id]) =>
                    \E r \in Requests :
                      Commits(r, id, "updateOrganizationMemberRole") /\ Raced(r)
<1>1. TypeInv /\ Coherent /\ [Next]_vars => A
  <2> SUFFICES ASSUME TypeInv, Coherent, [Next]_vars, NEW id \in OrgIds,
                      Exists(id), ~HasOwner(docs[id]), HasOwner(docs'[id])
               PROVE  \E r \in Requests :
                        Commits(r, id, "updateOrganizationMemberRole") /\ Raced(r)
    OBVIOUS
  <2>1. PICK r \in Requests :
          /\ Commits(r, id, call[r].op)
          /\ call[r] \in Calls
          /\ call[r].op \notin {"createOrganization", "deleteOrganization"}
          /\ docs[id] \in Organizations
          /\ Permits(call[r], docs[id])
          /\ docs'[id] = Effect(call[r], docs[id], r)
          /\ version[r] = cas[id]
    BY WhoChanges
  <2>2. ~(call[r].op = "updateOrganizationMemberRole" => MayUpdateRole(docs[id], call[r]))
    BY <2>1, OwnerlessKept
  <2>3. Raced(r)
    BY <2>1, <2>2, UnracedRoleUpdate DEF Commits
  <2> QED BY <2>1, <2>2, <2>3
<1>2. Spec => [][A]_vars
  BY <1>1, Inductive, PTL DEF Spec
<1> QED BY <1>2 DEF OwnerlessStaysOwnerless

-----------------------------------------------------------------------------
(* API keys. *)

(* Names stay unique under every operation but adding a key whose name is taken. *)
LEMMA UniqueNamesKept ==
  ASSUME NEW c \in Calls, NEW o \in Organizations, NEW keyId, KeyNamesUnique(o),
         c.op \notin {"createOrganization", "deleteOrganization"},
         c.op = "addOrganizationApiKey" => IsFreeKeyName(o, c.keyName)
  PROVE  KeyNamesUnique(Effect(c, o, keyId))
<1>1. o.apiKeys \in SUBSET ApiKeys
  BY OrganizationFields
<1>2. CASE c.op = "addOrganizationApiKey"
  <2>1. Effect(c, o, keyId).apiKeys = o.apiKeys \cup {BuildApiKey(c, keyId)}
    BY <1>2 DEF Effect, AddApiKey, Organizations
  <2>2. BuildApiKey(c, keyId).name = c.keyName
    BY DEF BuildApiKey
  <2> QED BY <1>2, <2>1, <2>2 DEF KeyNamesUnique, IsFreeKeyName
<1>3. CASE c.op # "addOrganizationApiKey"
  <2>1. Effect(c, o, keyId).apiKeys \subseteq o.apiKeys
    BY <1>3, CallFields
    DEF Effect, ChangeName, RemoveMember, AddMember, UpdateMemberRole, RemoveApiKey,
        Organizations
  <2> QED BY <2>1 DEF KeyNamesUnique
<1> QED BY <1>2, <1>3

(* Two keys come to share a name only by adding one to a newer document than the
   one its name was looked up in. *)
THEOREM KeyNamesProtected == Spec => KeyNameTakenTwiceOnlyByRace
<1> DEFINE A == \A id \in OrgIds :
                  Exists(id) /\ KeyNamesUnique(docs[id]) /\ ~KeyNamesUnique(docs'[id]) =>
                    \E r \in Requests :
                      Commits(r, id, "addOrganizationApiKey") /\ Raced(r)
<1>1. TypeInv /\ Coherent /\ [Next]_vars => A
  <2> SUFFICES ASSUME TypeInv, Coherent, [Next]_vars, NEW id \in OrgIds, Exists(id),
                      KeyNamesUnique(docs[id]), ~KeyNamesUnique(docs'[id])
               PROVE  \E r \in Requests :
                        Commits(r, id, "addOrganizationApiKey") /\ Raced(r)
    OBVIOUS
  <2>1. PICK r \in Requests :
          /\ Commits(r, id, call[r].op)
          /\ call[r] \in Calls
          /\ call[r].op \notin {"createOrganization", "deleteOrganization"}
          /\ docs[id] \in Organizations
          /\ Permits(call[r], docs[id])
          /\ docs'[id] = Effect(call[r], docs[id], r)
          /\ version[r] = cas[id]
    BY WhoChanges
  <2>2. ~(call[r].op = "addOrganizationApiKey"
            => IsFreeKeyName(docs[id], call[r].keyName))
    BY <2>1, UniqueNamesKept
  <2>3. Raced(r)
    BY <2>1, <2>2 DEF Coherent, CheckedIsCurrent, Raced, Prepared, Commits
  <2> QED BY <2>1, <2>2, <2>3
<1>2. Spec => [][A]_vars
  BY <1>1, Inductive, PTL DEF Spec
<1> QED BY <1>2 DEF KeyNameTakenTwiceOnlyByRace

-----------------------------------------------------------------------------
(* The service implements the directory. *)

(* The directory's operators are those of the service. *)
LEMMA DirectoryCalls == Directory!Calls = Calls
BY DEF Directory!Calls, Calls, Directory!RoleNames, RoleNames, Directory!Roles, Roles,
       Directory!UnknownRole, UnknownRole, Directory!NoRole, NoRole

LEMMA DirectoryNewOrganization ==
  ASSUME NEW name, NEW creator
  PROVE  Directory!NewOrganization(name, creator) = NewOrganization(name, creator)
BY DEF Directory!NewOrganization, NewOrganization, Directory!NoRole, NoRole

LEMMA DirectoryPermits ==
  ASSUME NEW c, NEW o, c \in Calls, Permits(c, o),
         c.op \notin {"createOrganization", "deleteOrganization"}
  PROVE  Directory!Permits(c, o)
<1> USE DEF Permits, Directory!Permits, IsSuperUser, Directory!IsSuperUser,
            IsOwner, Directory!IsOwner, IsLastOwner, Directory!IsLastOwner,
            IsHigherThan, Directory!IsHigherThan, GetRole, Directory!GetRole,
            IsMember, Directory!IsMember, Rank, Directory!Rank,
            Roles, Directory!Roles, NoRole, Directory!NoRole
<1>1. CASE c.op \in {"updateOrganization", "deleteOrganizationApiKey"}
  BY <1>1
<1>2. CASE c.op = "leaveOrganization"
  BY <1>2 DEF MayLeave, Directory!MayLeave
<1>3. CASE c.op = "inviteMember"
  BY <1>3 DEF MayInvite, Directory!MayInvite
<1>4. CASE c.op = "kickoutMember"
  BY <1>4 DEF MayKickout, Directory!MayKickout
<1>5. CASE c.op = "updateOrganizationMemberRole"
  BY <1>5
<1>6. CASE c.op = "addOrganizationApiKey"
  BY <1>6 DEF MayAddApiKey, Directory!MayAddApiKey
<1> QED BY <1>1, <1>2, <1>3, <1>4, <1>5, <1>6, CallFields

LEMMA DirectoryEffect ==
  ASSUME NEW c \in Calls, NEW o, NEW keyId,
         c.op \notin {"createOrganization", "deleteOrganization"}
  PROVE  Directory!Effect(c, o, keyId) = Effect(c, o, keyId)
<1> USE DEF Effect, Directory!Effect
<1>1. CASE c.op = "updateOrganization"
  BY <1>1 DEF ChangeName, Directory!ChangeName
<1>2. CASE c.op \in {"leaveOrganization", "kickoutMember"}
  BY <1>2 DEF RemoveMember, Directory!RemoveMember, NoRole, Directory!NoRole
<1>3. CASE c.op = "inviteMember"
  BY <1>3 DEF AddMember, Directory!AddMember, IsMember, Directory!IsMember,
              NoRole, Directory!NoRole
<1>4. CASE c.op = "updateOrganizationMemberRole"
  BY <1>4 DEF UpdateMemberRole, Directory!UpdateMemberRole
<1>5. CASE c.op = "addOrganizationApiKey"
  BY <1>5 DEF AddApiKey, Directory!AddApiKey, BuildApiKey, Directory!BuildApiKey,
              NoRole, Directory!NoRole
<1>6. CASE c.op = "deleteOrganizationApiKey"
  BY <1>6 DEF RemoveApiKey, Directory!RemoveApiKey
<1> QED BY <1>1, <1>2, <1>3, <1>4, <1>5, <1>6, CallFields

(* Every commit and every removal is a step of the directory. *)
LEMMA CommitIsDirectoryStep ==
  ASSUME TypeInv, Coherent, NEW r \in Requests, Commit(r)
  PROVE  Directory!Create(call[r]) \/ Directory!Change(call[r])
<1> DEFINE c == call[r]
           o == docs[c.org]
<1>1. c \in Calls /\ docs' = [docs EXCEPT ![c.org] = entity[r]]
  BY CommitIsAtomic
<1>2. CASE /\ c.op = "createOrganization"
           /\ o = NoOrg
           /\ entity[r] = NewOrganization(c.name, c.caller)
  BY <1>1, <1>2, DirectoryNewOrganization DEF Directory!Create
<1>3. CASE /\ c.op \notin {"createOrganization", "deleteOrganization"}
           /\ o \in Organizations
           /\ Permits(c, o)
           /\ entity[r] = Effect(c, o, r)
  <2>1. o # NoOrg
    BY <1>3, NoOrgAssumption
  <2>2. Directory!Permits(c, o)
    BY <1>1, <1>3, DirectoryPermits
  <2>3. docs' = [docs EXCEPT ![c.org] = Directory!Effect(c, o, r)]
    BY <1>1, <1>3, DirectoryEffect
  <2>4. r \in KeyIds
    BY RequestsAssumption
  <2> QED BY <1>3, <2>1, <2>2, <2>3, <2>4 DEF Directory!Change
<1> QED BY <1>2, <1>3, CommitIsAtomic

LEMMA RemoveIsDirectoryStep ==
  ASSUME TypeInv, NEW r \in Requests, Remove(r), CanDelete(call[r].org)
  PROVE  call[r] \in Calls /\ Directory!Delete(call[r])
<1>1. call[r] \in Calls /\ call[r].op = "deleteOrganization"
  BY DEF Remove, TypeInv, TypeOK, StagesMatch
<1> QED BY <1>1 DEF Remove, CanDelete, DeleteById, Directory!Delete

LEMMA DirectoryStep ==
  ASSUME TypeInv, Coherent, [Next]_vars
  PROVE  [Directory!Next]_docs
<1> SUFFICES ASSUME docs' # docs PROVE Directory!Next
  OBVIOUS
<1>1. PICK r \in Requests : Commit(r) \/ (Remove(r) /\ CanDelete(call[r].org))
  BY WhoWrites
<1>2. call[r] \in Calls
  BY <1>1, CommitIsAtomic, RemoveIsDirectoryStep
<1>3. Directory!Create(call[r]) \/ Directory!Change(call[r]) \/ Directory!Delete(call[r])
  BY <1>1, CommitIsDirectoryStep, RemoveIsDirectoryStep
<1> QED BY <1>2, <1>3, DirectoryCalls DEF Directory!Next

(* The service implements the directory: every change of the stored
   organizations is one atomic, authorised step of it. *)
THEOREM Refinement == Spec => ImplementsDirectory
<1>1. Init => Directory!Init
  BY DEF Init, RepositoryInit, Directory!Init
<1>2. TypeInv /\ Coherent /\ [Next]_vars => [Directory!Next]_docs
  BY DirectoryStep
<1> QED
  BY <1>1, <1>2, Inductive, PTL DEF Spec, ImplementsDirectory, Directory!Spec

(* A call that takes effect is a change, with a CAS the document never had. *)
LEMMA ChangeStep ==
  ASSUME TypeInv, Coherent, NEW r \in Requests,
         Commit(r) \/ (Remove(r) /\ CanDelete(call[r].org))
  PROVE  Mutate(call[r])
<1> DEFINE c == call[r]
<1>1. CASE Commit(r)
  <2>1. cas' = [cas EXCEPT ![c.org] = @ + 1] /\ UNCHANGED indexed
    BY <1>1 DEF Commit, Save
  <2>2. Directory!Create(c) \/ Directory!Change(c)
    BY <1>1, CommitIsDirectoryStep
  <2> QED BY <2>1, <2>2 DEF Mutate
<1>2. CASE Remove(r) /\ CanDelete(c.org)
  <2>1. cas' = [cas EXCEPT ![c.org] = @ + 1] /\ UNCHANGED indexed
    BY <1>2 DEF Remove, DeleteById
  <2>2. Directory!Delete(c)
    BY <1>2, RemoveIsDirectoryStep
  <2> QED BY <2>1, <2>2 DEF Mutate
<1> QED BY <1>1, <1>2

(* Whatever else happens leaves the bucket alone, or lets the index catch up. *)
LEMMA OtherSteps ==
  ASSUME [Next]_vars
  PROVE  \/ \E r \in Requests : Commit(r) \/ (Remove(r) /\ CanDelete(call[r].org))
         \/ \E id \in OrgIds : Reindex(id)
         \/ UNCHANGED repositoryVars
<1> DEFINE Goal == \/ \E r \in Requests : Commit(r) \/ (Remove(r) /\ CanDelete(call[r].org))
                   \/ \E id \in OrgIds : Reindex(id)
                   \/ UNCHANGED repositoryVars
<1>1. ASSUME NEW r \in Requests, ProcessStep(r) PROVE Goal
  <2>1. PICK op, stage : ProcessDefs(r, op, stage)
    BY <1>1, ProcessStepIsProcess
  <2> QED BY <2>1 DEF ProcessDefs, Process, Refuse
<1>2. ASSUME NEW r \in Requests,
             CheckName(r) \/ ValidateRoleUpdate(r) \/ ValidateApiKeyName(r)
      PROVE  Goal
  BY <1>2 DEF CheckName, ValidateRoleUpdate, ValidateApiKeyName, Validate, Refuse
<1>3. ASSUME NEW r \in Requests,
             \/ Receive(r) \/ CreateOrganization(r) \/ StorePair(r) \/ DeletePair(r)
             \/ Purge(r) \/ Purged(r)
      PROVE  Goal
  BY <1>3 DEF Receive, CreateOrganization, StorePair, DeletePair, Purge, Purged
<1>4. ASSUME NEW r \in Requests, Conflict(r) \/ Abort(r) \/ Commit(r) \/ Remove(r)
      PROVE  Goal
  BY <1>4 DEF Conflict, Abort, Remove, Refuse
<1>5. ASSUME NEW id \in OrgIds, CatchUp(id) PROVE Goal
  BY <1>5 DEF CatchUp
<1>6. ASSUME NEW k \in KeyIds, LateStore(k) \/ LateDeletion(k) PROVE Goal
  BY <1>6 DEF LateStore, LateDeletion
<1>7. ASSUME UNCHANGED vars PROVE Goal
  BY <1>7 DEF vars, repositoryVars
<1> QED
  BY <1>1, <1>2, <1>3, <1>4, <1>5, <1>6, <1>7 DEF Next, Advance, ProcessStep, Idle

(* To whoever reads the bucket the service is what the queries are checked
   against. *)
THEOREM ChangesMade == Spec => ChangesSpec
<1>1. Init => RepositoryInit
  BY DEF Init
<1>2. TypeInv /\ Coherent /\ [Next]_vars => [ChangesNext]_repositoryVars
  <2> SUFFICES ASSUME TypeInv, Coherent, [Next]_vars
               PROVE  ChangesNext \/ UNCHANGED repositoryVars
    OBVIOUS
  <2>1. ASSUME NEW r \in Requests,
               Commit(r) \/ (Remove(r) /\ CanDelete(call[r].org))
        PROVE  ChangesNext
    <3>1. call[r] \in Calls
      BY <2>1, CommitIsAtomic, RemoveIsDirectoryStep
    <3> QED BY <2>1, <3>1, ChangeStep DEF ChangesNext
  <2> QED BY <2>1, OtherSteps DEF ChangesNext
<1> QED
  BY <1>1, <1>2, Inductive, PTL DEF Spec, ChangesSpec

-----------------------------------------------------------------------------
(* Every step leads on.  A step is that of one request or of none; of the one
   request it is enough to know where it comes from and where it goes. *)

(* What a step of request r may do. *)
GoesOn(r) ==
  /\ LeadsOn(r)
  /\ Memory(r)' # Memory(r) => Progress(pc[r]) < 3
  /\ call'[r] # call[r] => pc[r] = "idle"
  /\ docs' # docs \/ pairs' # pairs => Progress(pc[r]) > 2
  /\ \A q \in Requests \ {r} :
       UNCHANGED <<pc[q], call[q], entity[q], version[q], doomed[q], checked[q]>>

LEMMA StagesInOrder ==
  /\ Progress("idle") = 0
  /\ Progress("checkName") = 1 /\ Progress("validate") = 1
  /\ Progress("process") = 2
  /\ Progress("storePair") = 3 /\ Progress("deletePair") = 3 /\ Progress("remove") = 3
  /\ Progress("save") = 4 /\ Progress("purge") = 4
  /\ Progress("succeeded") = 5 /\ Progress("failed") = 5
BY DEF Progress

(* A later stage, and nothing else of the request. *)
LEMMA ContinueGoesOn ==
  ASSUME TypeOK, NEW r \in Requests, NEW stage, Continue(r, stage),
         Progress(stage) > Progress(pc[r]),
         docs' # docs \/ pairs' # pairs => Progress(pc[r]) > 2
  PROVE  GoesOn(r)
BY DEF Continue, TypeOK, GoesOn, LeadsOn, Memory

(* An exception. *)
LEMMA RefuseGoesOn ==
  ASSUME TypeOK, NEW r \in Requests, pc[r] \in InFlight, Refuse(r)
  PROVE  GoesOn(r)
<1>1. Progress("failed") > Progress(pc[r])
  BY StagesInOrder DEF InFlight, Prepared
<1>2. Continue(r, "failed") /\ docs' = docs /\ pairs' = pairs
  BY DEF Refuse, repositoryVars
<1> QED BY <1>1, <1>2, ContinueGoesOn

LEMMA ProcessGoesOn ==
  ASSUME TypeOK, NEW r \in Requests, NEW op, NEW stage, ProcessDefs(r, op, stage)
  PROVE  GoesOn(r)
<1>1. CASE Refuse(r)
  BY <1>1, RefuseGoesOn DEF ProcessDefs, Process, InFlight
<1>2. CASE /\ pc' = [pc EXCEPT ![r] = stage]
           /\ entity' = [entity EXCEPT ![r] = Effect(call[r], FindById(call[r].org), r)]
           /\ version' = [version EXCEPT ![r] = cas[call[r].org]]
           /\ \E keys \in DoomedKeys(call[r], FindById(call[r].org)) :
                doomed' = [doomed EXCEPT ![r] = keys]
           /\ UNCHANGED <<call, checked, pairs, docs, cas, indexed>>
  <2>1. pc[r] = "process"
    BY DEF ProcessDefs, Process
  <2>2. Progress(stage) > 2 /\ Progress(pc[r]) = 2
    BY <2>1, StagesInOrder DEF ProcessDefs
  <2>3. LeadsOn(r)
    BY <1>2, <2>2 DEF LeadsOn, TypeOK
  <2>4. \A q \in Requests \ {r} :
          UNCHANGED <<pc[q], call[q], entity[q], version[q], doomed[q], checked[q]>>
    BY <1>2 DEF TypeOK
  <2> QED BY <1>2, <2>2, <2>3, <2>4 DEF GoesOn
<1> QED
  BY <1>1, <1>2 DEF ProcessDefs, Process, repositoryVars

LEMMA AdvanceGoesOn ==
  ASSUME TypeOK, NEW r \in Requests, Receive(r) \/ Advance(r) \/ Abort(r)
  PROVE  GoesOn(r)
<1>1. CASE Receive(r)
  <2>1. PICK c \in Workload : /\ call' = [call EXCEPT ![r] = c]
                              /\ pc' = [pc EXCEPT ![r] = FirstStage(c.op)]
    BY <1>1 DEF Receive
  <2>2. /\ pc[r] = "idle"
        /\ UNCHANGED <<entity, version, doomed, checked, pairs, docs>>
    BY <1>1 DEF Receive, repositoryVars
  <2>3. Progress(FirstStage(c.op)) > 0
    BY StagesInOrder DEF FirstStage
  <2> QED
    BY <2>1, <2>2, <2>3, StagesInOrder DEF GoesOn, LeadsOn, TypeOK
<1>2. CASE CheckName(r)
  <2>1. CASE Refuse(r)
    BY <1>2, <2>1, RefuseGoesOn DEF CheckName, InFlight
  <2>2. CASE Continue(r, "process") /\ docs' = docs /\ pairs' = pairs
    BY <1>2, <2>2, StagesInOrder, ContinueGoesOn DEF CheckName
  <2> QED BY <1>2, <2>1, <2>2 DEF CheckName, repositoryVars
<1>3. CASE ValidateRoleUpdate(r) \/ ValidateApiKeyName(r)
  <2>1. pc[r] = "validate"
    BY <1>3 DEF ValidateRoleUpdate, ValidateApiKeyName, Validate
  <2>2. CASE Refuse(r)
    BY <2>1, <2>2, RefuseGoesOn DEF InFlight
  <2>3. CASE /\ pc' = [pc EXCEPT ![r] = "process"]
             /\ checked' = [checked EXCEPT ![r] = cas[call[r].org]]
             /\ UNCHANGED <<call, entity, version, doomed, pairs, docs>>
    BY <2>1, <2>3, StagesInOrder DEF GoesOn, LeadsOn, TypeOK
  <2> QED
    BY <1>3, <2>2, <2>3
    DEF ValidateRoleUpdate, ValidateApiKeyName, Validate, repositoryVars
<1>4. CASE CreateOrganization(r)
  <2>1. /\ pc[r] = "process" /\ pc' = [pc EXCEPT ![r] = "save"]
        /\ UNCHANGED <<call, doomed, checked, pairs, docs>>
    BY <1>4 DEF CreateOrganization, repositoryVars
  <2>2. \A q \in Requests \ {r} : UNCHANGED <<entity[q], version[q]>>
    BY <1>4 DEF CreateOrganization, TypeOK
  <2> QED
    BY <2>1, <2>2, StagesInOrder DEF GoesOn, LeadsOn, TypeOK
<1>5. CASE ProcessStep(r)
  BY <1>5, ProcessStepIsProcess, ProcessGoesOn
<1>6. CASE StorePair(r) \/ DeletePair(r)
  <2>1. pc[r] \in {"storePair", "deletePair"} /\ Continue(r, "save")
    BY <1>6 DEF StorePair, DeletePair
  <2>2. Progress(pc[r]) = 3 /\ Progress("save") = 4
    BY <2>1, StagesInOrder
  <2> QED BY <2>1, <2>2, ContinueGoesOn
<1>7. CASE Commit(r)
  <2>1. PICK answer \in Answered : Continue(r, answer)
    BY <1>7 DEF Commit
  <2>2. Progress(pc[r]) = 4 /\ Progress(answer) = 5
    BY <1>7, StagesInOrder DEF Commit, Answered
  <2> QED BY <2>1, <2>2, ContinueGoesOn
<1>8. CASE Conflict(r) \/ Abort(r)
  BY <1>8, RefuseGoesOn DEF Conflict, Abort, InFlight, Prepared
<1>9. CASE Remove(r)
  <2>1. CASE Refuse(r)
    BY <1>9, <2>1, RefuseGoesOn DEF Remove, InFlight
  <2>2. CASE Continue(r, "purge")
    <3>1. Progress(pc[r]) = 3 /\ Progress("purge") = 4
      BY <1>9, StagesInOrder DEF Remove
    <3> QED BY <2>2, <3>1, ContinueGoesOn
  <2> QED BY <1>9, <2>1, <2>2 DEF Remove
<1>10. CASE Purge(r)
  <2>1. /\ \E k \in doomed[r] : doomed' = [doomed EXCEPT ![r] = doomed[r] \ {k}]
        /\ pc' = pc \/ pc' = [pc EXCEPT ![r] = "failed"]
    BY <1>10 DEF Purge
  <2>2. /\ pc[r] = "purge"
        /\ UNCHANGED <<call, entity, version, checked>>
    BY <1>10 DEF Purge
  <2>3. LeadsOn(r)
    BY <2>1, <2>2, StagesInOrder DEF LeadsOn, TypeOK
  <2>4. \A q \in Requests \ {r} : UNCHANGED <<pc[q], doomed[q]>>
    BY <2>1 DEF TypeOK
  <2> QED
    BY <2>2, <2>3, <2>4, StagesInOrder DEF GoesOn, Memory, TypeOK
<1>11. CASE Purged(r)
  <2>1. Progress(pc[r]) = 4 /\ Progress("succeeded") = 5
    BY <1>11, StagesInOrder DEF Purged
  <2> QED BY <1>11, <2>1, ContinueGoesOn DEF Purged
<1> QED
  BY <1>1, <1>2, <1>3, <1>4, <1>5, <1>6, <1>7, <1>8, <1>9, <1>10, <1>11
  DEF Advance, ProcessStep

(* Without any fairness: whatever the stores answer and whoever interferes, a
   request goes through its stages once, and what changes in a store changes for
   the sake of a request that comes closer to its answer by it; only in the key
   store may a late try do again what has been asked for. *)
THEOREM StepsLeadOn == Spec => EveryStepLeadsOn
<1> DEFINE AtItsStores == \E r \in Requests : LeadsOn(r) /\ Progress(pc[r]) > 2
           Asked ==
      /\ \A r \in Requests :
           /\ pc'[r] # pc[r] \/ doomed'[r] # doomed[r] => LeadsOn(r)
           /\ Memory(r)' # Memory(r) => LeadsOn(r) /\ Progress(pc[r]) < 3
           /\ call'[r] # call[r] => pc[r] = "idle"
      /\ LET atItsStores == AtItsStores IN
         /\ docs' # docs => atItsStores
         /\ \A k \in KeyIds : pairs'[k] # pairs[k] =>
              \/ atItsStores
              \/ pairs'[k] = "deleted" /\ \E r \in Requests : DeletionAsked(r, k)
              \/ pairs'[k] # "deleted" /\ StoreAsked(k)
<1>1. TypeInv /\ [Next]_vars => Asked
  <2> SUFFICES ASSUME TypeInv, [Next]_vars
               PROVE  Asked
    OBVIOUS
  <2>1. ASSUME NEW r \in Requests, GoesOn(r)
        PROVE  Asked
    <3>1. docs' # docs \/ pairs' # pairs => AtItsStores
      BY <2>1 DEF GoesOn
    <3> QED BY <2>1, <3>1 DEF GoesOn, Memory
  <2>2. CASE UNCHANGED <<docs, pairs, requestVars>>
    BY <2>2 DEF requestVars, Memory
  <2>3. ASSUME NEW k \in KeyIds, LateStore(k)
        PROVE  Asked
    <3>1. StoreAsked(k) /\ UNCHANGED <<docs, requestVars>>
      BY <2>3 DEF LateStore, repositoryVars
    <3>2. \A l \in KeyIds : pairs'[l] # pairs[l] => l = k /\ pairs'[l] # "deleted"
      BY <2>3 DEF LateStore, StoreLate, TypeInv, TypeOK, KeyStoreTypeOK
    <3> QED BY <3>1, <3>2 DEF requestVars, Memory
  <2>4. ASSUME NEW k \in KeyIds, LateDeletion(k)
        PROVE  Asked
    <3>1. /\ \E r \in Requests : DeletionAsked(r, k)
          /\ UNCHANGED <<docs, requestVars>>
      BY <2>4 DEF LateDeletion, repositoryVars
    <3>2. \A l \in KeyIds : pairs'[l] # pairs[l] => l = k /\ pairs'[l] = "deleted"
      BY <2>4 DEF LateDeletion, DeleteKeyPairs
    <3> QED BY <3>1, <3>2 DEF requestVars, Memory
  <2>5. TypeOK
    BY DEF TypeInv
  <2> QED
    BY <2>1, <2>2, <2>3, <2>4, <2>5, AdvanceGoesOn
    DEF Next, CatchUp, Reindex, Idle, vars, requestVars
<1> QED
  BY <1>1, Inductive, PTL DEF Spec, EveryStepLeadsOn

-----------------------------------------------------------------------------
(* What the documents say and the code does not keep, it would keep if the two
   operations that read the organization twice did not meet a change between
   their reads: the race is the only cause. *)

(* Commits of an operation change the organization its checks were made on. *)
Unraced(op) ==
  \A id \in OrgIds, r \in Requests : Commits(r, id, op) => ~Raced(r)

(* Checks and change of UpdateOrganizationMemberRole see one document. *)
RoleUpdatesUnraced == [][Unraced("updateOrganizationMemberRole")]_vars

(* Those of AddOrganizationApiKey do. *)
KeyAdditionsUnraced == [][Unraced("addOrganizationApiKey")]_vars

(* An organization that appears is a new one. *)
LEMMA WhatAppears ==
  ASSUME TypeInv, Coherent, [Next]_vars, NEW id \in OrgIds,
         docs[id] = NoOrg, docs'[id] # NoOrg
  PROVE  \E r \in Requests : /\ call[r] \in Calls
                              /\ call[r].op = "createOrganization"
                              /\ docs'[id] = NewOrganization(call[r].name, call[r].caller)
<1>1. PICK r \in Requests : Commit(r) \/ (Remove(r) /\ CanDelete(call[r].org))
  BY WhoWrites
<1>2. CASE Commit(r)
  <2>1. id = call[r].org
    BY <1>2, CommitIsAtomic DEF TypeInv, TypeOK, RepositoryTypeOK
  <2> QED BY <1>2, <2>1, CommitIsAtomic, NoOrgAssumption
<1>3. CASE Remove(r) /\ CanDelete(call[r].org)
  BY <1>3 DEF Remove, DeleteById, TypeInv, TypeOK, RepositoryTypeOK
<1> QED BY <1>1, <1>2, <1>3

(* "At least one Owner should be persisted" holds of organizations that have one
   for as long as no change of role commits on another document than its checks
   were made on (updateOrganizationMemberRole.apidoc; process and validate of
   UpdateOrganizationMemberRole). *)
THEOREM OwnersWithoutRaces ==
  Spec /\ AtLeastOneOwner /\ RoleUpdatesUnraced => []AtLeastOneOwner
<1> DEFINE A == \A id \in OrgIds :
                  Exists(id) /\ HasOwner(docs[id]) /\ ~HasOwner(docs'[id]) =>
                    \E r \in Requests :
                      Commits(r, id, "updateOrganizationMemberRole") /\ Raced(r)
           U == Unraced("updateOrganizationMemberRole")
<1>1. /\ TypeInv /\ Coherent /\ AtLeastOneOwner
      /\ [Next]_vars /\ [A]_vars /\ [U]_vars
      => AtLeastOneOwner'
  <2> SUFFICES ASSUME TypeInv, Coherent, AtLeastOneOwner, [Next]_vars, A, U,
                      NEW id \in OrgIds, docs'[id] # NoOrg
               PROVE  HasOwner(docs'[id])
    BY DEF vars, AtLeastOneOwner, HasOwner
  <2>1. CASE docs[id] = NoOrg
    <3>1. PICK r \in Requests :
            /\ call[r] \in Calls
            /\ call[r].op = "createOrganization"
            /\ docs'[id] = NewOrganization(call[r].name, call[r].caller)
      BY <2>1, WhatAppears
    <3>2. call[r].caller \in Users
      BY <3>1, CallFields
    <3> QED BY <3>1, <3>2 DEF NewOrganization, HasOwner
  <2>2. CASE docs[id] # NoOrg
    BY <2>2 DEF AtLeastOneOwner, Exists, Unraced
  <2> QED BY <2>1, <2>2
<1>2. Spec => [][A]_vars
  BY LastOwnerProtected DEF LastOwnerLostOnlyByRace
<1> QED
  BY <1>1, <1>2, Inductive, PTL DEF Spec, RoleUpdatesUnraced

(* "Each API key got the unique name" holds for as long as no key is added to
   another document than its name was looked up in (addApiKey.apidoc; process and
   validate of AddOrganizationApiKey). *)
THEOREM KeyNamesWithoutRaces ==
  Spec /\ UniqueApiKeyNames /\ KeyAdditionsUnraced => []UniqueApiKeyNames
<1> DEFINE A == \A id \in OrgIds :
                  Exists(id) /\ KeyNamesUnique(docs[id]) /\ ~KeyNamesUnique(docs'[id]) =>
                    \E r \in Requests :
                      Commits(r, id, "addOrganizationApiKey") /\ Raced(r)
           U == Unraced("addOrganizationApiKey")
<1>1. /\ TypeInv /\ Coherent /\ UniqueApiKeyNames
      /\ [Next]_vars /\ [A]_vars /\ [U]_vars
      => UniqueApiKeyNames'
  <2> SUFFICES ASSUME TypeInv, Coherent, UniqueApiKeyNames, [Next]_vars, A, U,
                      NEW id \in OrgIds, docs'[id] # NoOrg
               PROVE  KeyNamesUnique(docs'[id])
    BY DEF vars, UniqueApiKeyNames
  <2>1. CASE docs[id] = NoOrg
    <3>1. PICK r \in Requests :
            docs'[id] = NewOrganization(call[r].name, call[r].caller)
      BY <2>1, WhatAppears
    <3>2. docs'[id].apiKeys = {}
      BY <3>1 DEF NewOrganization
    <3> QED BY <3>2 DEF KeyNamesUnique
  <2>2. CASE docs[id] # NoOrg
    BY <2>2 DEF UniqueApiKeyNames, Exists, Unraced
  <2> QED BY <2>1, <2>2
<1>2. Spec => [][A]_vars
  BY KeyNamesProtected DEF KeyNameTakenTwiceOnlyByRace
<1> QED
  BY <1>1, <1>2, Inductive, PTL DEF Spec, KeyAdditionsUnraced
=============================================================================
