------------------------ MODULE OrganizationService ------------------------
(***************************************************************************)
(* The service: OrganizationServiceImpl running its operations             *)
(* concurrently over one bucket and one key store.                         *)
(*                                                                         *)
(* A request is one execution of ServiceOperation.execute.  It passes      *)
(* through the stages of its reactive pipeline, and every stage that       *)
(* touches the bucket or the key store is a step of its own: between two   *)
(* of them any other request, of this instance of the service or of        *)
(* another one, may run.  A request may be given up at every stage: its    *)
(* token or its arguments are refused, a store fails, the instance stops.  *)
(***************************************************************************)
EXTENDS CouchbaseRepository, KeyStore

CONSTANTS
  Requests,     \* executions; each one is also the fresh UUID it may draw
  Workload,     \* the calls clients make
  QueryFaults,  \* whether a N1QL query may fail and be taken for an empty one
  LateTries     \* whether requests of ended key store calls may still arrive

ASSUME RequestsAssumption == Requests \subseteq KeyIds

ASSUME WorkloadAssumption == Workload \subseteq Calls

ASSUME QueryFaultsAssumption == QueryFaults \in BOOLEAN

ASSUME LateTriesAssumption == LateTries \in BOOLEAN

(* A key id is that of one key, and no id in use is drawn again. *)
ASSUME InitialDocsAssumption ==
  \A d \in InitialDocs :
    /\ \A id \in OrgIds :
         d[id] # NoOrg => KeyIdsOf(d[id]) \cap Requests = {}
    /\ \A id, other \in OrgIds : d[id] # NoOrg /\ d[other] # NoOrg =>
         \A k \in d[id].apiKeys, l \in d[other].apiKeys :
           k.keyId = l.keyId => id = other /\ k = l

VARIABLES
  pc,           \* stage of each request
  call,         \* the call it executes
  entity,       \* the Organization object it holds
  version,      \* Entity.version of that object: the CAS it was read with
  doomed,       \* key pairs it still has to delete
  checked       \* history: the CAS of the document "validate" has read

requestVars == <<pc, call, entity, version, doomed, checked>>
vars == <<docs, cas, indexed, pairs, pc, call, entity, version, doomed, checked>>

NoCall == [op |-> "none"]

Answered == {"succeeded", "failed"}

(* Stages in which the request holds a modified entity on its way to "save". *)
Prepared == {"storePair", "deletePair", "save"}

InFlight == {"checkName", "validate", "process", "remove", "purge"} \cup Prepared

Stages == {"idle"} \cup InFlight \cup Answered

-----------------------------------------------------------------------------
Init ==
  /\ RepositoryInit
  /\ pairs = [k \in KeyIds |->
                IF \E id \in OrgIds : docs[id] # NoOrg /\ k \in KeyIdsOf(docs[id])
                THEN "stored" ELSE "absent"]
  /\ pc = [r \in Requests |-> "idle"]
  /\ call = [r \in Requests |-> NoCall]
  /\ entity = [r \in Requests |-> NoOrg]
  /\ version = [r \in Requests |-> 0]
  /\ doomed = [r \in Requests |-> {}]
  /\ checked = [r \in Requests |-> 0]

(* FirstStage that checks the names of new organizations only. *)
FirstStageByName(op) ==
  CASE op = "createOrganization" -> "checkName"
    [] op \in {"updateOrganizationMemberRole", "addOrganizationApiKey"} -> "validate"
    [] OTHER -> "process"

(* Where the pipeline of an operation starts, after the token and the arguments
   have been accepted. *)
FirstStage(op) ==
  CASE op \in {"createOrganization", "updateOrganization"} -> "checkName"
    [] op \in {"updateOrganizationMemberRole", "addOrganizationApiKey"} -> "validate"
    [] OTHER -> "process"

Receive(r) ==
  /\ pc[r] = "idle"
  /\ \E c \in Workload :
       /\ call' = [call EXCEPT ![r] = c]
       /\ pc' = [pc EXCEPT ![r] = FirstStage(c.op)]
  /\ UNCHANGED <<entity, version, doomed, checked, pairs, repositoryVars>>

Continue(r, stage) ==
  /\ pc' = [pc EXCEPT ![r] = stage]
  /\ UNCHANGED <<call, entity, version, doomed, checked>>

(* An exception ends the pipeline with onError. *)
Refuse(r) == Continue(r, "failed") /\ UNCHANGED <<pairs, repositoryVars>>

Abort(r) == pc[r] \in InFlight /\ Refuse(r)

-----------------------------------------------------------------------------
(* "validate". *)

(* OrganizationInfoOperation.validate.  An empty answer passes like "false". *)
CheckName(r) ==
  /\ pc[r] = "checkName"
  /\ \/ /\ ExistsByName(call[r].name)
        /\ Refuse(r)
     \/ /\ ~ExistsByName(call[r].name) \/ QueryFaults
        /\ Continue(r, "process")
        /\ UNCHANGED <<pairs, repositoryVars>>

(* Reads the organization, checks it and lets go of it. *)
Validate(r, op, accepted) ==
  /\ pc[r] = "validate"
  /\ call[r].op = op
  /\ LET id == call[r].org IN
     IF FindById(id) # NoOrg /\ accepted
     THEN /\ pc' = [pc EXCEPT ![r] = "process"]
          /\ checked' = [checked EXCEPT ![r] = cas[id]]
          /\ UNCHANGED <<call, entity, version, doomed, pairs, repositoryVars>>
     ELSE Refuse(r)

ValidateRoleUpdate(r) ==
  Validate(r, "updateOrganizationMemberRole",
           MayUpdateRole(FindById(call[r].org), call[r]))

ValidateApiKeyName(r) ==
  Validate(r, "addOrganizationApiKey",
           IsFreeKeyName(FindById(call[r].org), call[r].keyName))

-----------------------------------------------------------------------------
(* "process", up to its first call of a store that changes something. *)

CreateOrganization(r) ==
  /\ pc[r] = "process"
  /\ call[r].op = "createOrganization"
  /\ pc' = [pc EXCEPT ![r] = "save"]
  /\ entity' = [entity EXCEPT ![r] = NewOrganization(call[r].name, call[r].caller)]
  /\ version' = [version EXCEPT ![r] = 0]
  /\ UNCHANGED <<call, doomed, checked, pairs, repositoryVars>>

(* Process without the checks of the operation. *)
ProcessUnchecked(r, op, stage) ==
  /\ pc[r] = "process"
  /\ call[r].op = op
  /\ LET c == call[r]
         o == FindById(c.org)
     IN
     IF o # NoOrg
     THEN /\ pc' = [pc EXCEPT ![r] = stage]
          /\ entity' = [entity EXCEPT ![r] = Effect(c, o, r)]
          /\ version' = [version EXCEPT ![r] = cas[c.org]]
          /\ \E keys \in DoomedKeys(c, o) : doomed' = [doomed EXCEPT ![r] = keys]
          /\ UNCHANGED <<call, checked, pairs, repositoryVars>>
     ELSE Refuse(r)

(* Every other operation reads the organization, makes its checks and changes
   the object it has read. *)
Process(r, op, stage) ==
  /\ pc[r] = "process"
  /\ call[r].op = op
  /\ LET c == call[r]
         o == FindById(c.org)
     IN
     IF o # NoOrg /\ Permits(c, o)
     THEN /\ pc' = [pc EXCEPT ![r] = stage]
          /\ entity' = [entity EXCEPT ![r] = Effect(c, o, r)]
          /\ version' = [version EXCEPT ![r] = cas[c.org]]
          /\ \E keys \in DoomedKeys(c, o) : doomed' = [doomed EXCEPT ![r] = keys]
          /\ UNCHANGED <<call, checked, pairs, repositoryVars>>
     ELSE Refuse(r)

UpdateOrganization(r) == Process(r, "updateOrganization", "save")

(* DeleteOrganization that deletes the keys and forgets the document. *)
DeleteOrganizationKeys(r) == Process(r, "deleteOrganization", "purge")

DeleteOrganization(r) == Process(r, "deleteOrganization", "remove")

LeaveOrganization(r) == Process(r, "leaveOrganization", "save")

InviteMember(r) == Process(r, "inviteMember", "save")

KickoutMember(r) == Process(r, "kickoutMember", "save")

UpdateOrganizationMemberRole(r) ==
  Process(r, "updateOrganizationMemberRole", "save")

(* AddOrganizationApiKey that never stores the pair. *)
AddOrganizationApiKeyAlone(r) == Process(r, "addOrganizationApiKey", "save")

AddOrganizationApiKey(r) == Process(r, "addOrganizationApiKey", "storePair")

DeleteOrganizationApiKey(r) ==
  Process(r, "deleteOrganizationApiKey", "deletePair")

-----------------------------------------------------------------------------
(* The calls that change a store.  A call that takes effect and still fails
   for the caller, a lost answer or a timeout, is the call followed by Abort;
   Commit is the last stage, so it has both outcomes itself. *)

StorePair(r) ==
  /\ pc[r] = "storePair"
  /\ StoreKeyPair(r)
  /\ Continue(r, "save")
  /\ UNCHANGED repositoryVars

DeletePair(r) ==
  /\ pc[r] = "deletePair"
  /\ DeleteKeyPairs(doomed[r])
  /\ Continue(r, "save")
  /\ UNCHANGED repositoryVars

Commit(r) ==
  /\ pc[r] = "save"
  /\ CanSave(call[r].org, version[r])
  /\ Save(call[r].org, entity[r])
  /\ \E answer \in Answered : Continue(r, answer)
  /\ UNCHANGED pairs

(* Conflict that starts "process" again. *)
ConflictTriedAgain(r) ==
  /\ pc[r] = "save"
  /\ ~CanSave(call[r].org, version[r])
  /\ Continue(r, "process")
  /\ UNCHANGED <<pairs, repositoryVars>>

(* The insert meets a document, or the replace none or one with another CAS.
   Nothing is tried again. *)
Conflict(r) ==
  /\ pc[r] = "save"
  /\ ~CanSave(call[r].org, version[r])
  /\ Refuse(r)

Remove(r) ==
  /\ pc[r] = "remove"
  /\ IF CanDelete(call[r].org)
     THEN /\ DeleteById(call[r].org)
          /\ Continue(r, "purge")
          /\ UNCHANGED pairs
     ELSE Refuse(r)

(* The keys of the organization as it was read, one after the other.  A call
   that throws ends the pipeline; what it has asked for may be done later. *)
Purge(r) ==
  /\ pc[r] = "purge"
  /\ \E k \in doomed[r] :
       /\ doomed' = [doomed EXCEPT ![r] = @ \ {k}]
       /\ \/ DeleteKeyPairs({k}) /\ UNCHANGED pc
          \/ pc' = [pc EXCEPT ![r] = "failed"] /\ UNCHANGED pairs
  /\ UNCHANGED <<call, entity, version, checked, repositoryVars>>

(* Purged that does not wait for the last key. *)
PurgedEarly(r) ==
  /\ pc[r] = "purge"
  /\ Continue(r, "succeeded")
  /\ UNCHANGED <<pairs, repositoryVars>>

Purged(r) ==
  /\ pc[r] = "purge"
  /\ doomed[r] = {}
  /\ Continue(r, "succeeded")
  /\ UNCHANGED <<pairs, repositoryVars>>

-----------------------------------------------------------------------------
(* Late tries.  A call of the key store makes several tries, and one that the
   client has given up may be performed when the call has long returned or
   thrown.  How many there are is not counted: what was asked for once may be
   done at any time after. *)

(* The pairs of the keys that are there from the start were stored before. *)
StoreAsked(k) ==
  IF k \in Requests
  THEN /\ call[k].op = "addOrganizationApiKey"
       /\ entity[k] # NoOrg
       /\ pc[k] \in {"save"} \cup Answered
  ELSE pairs[k] # "absent"

DeletionAsked(r, k) ==
  \/ /\ call[r].op = "deleteOrganizationApiKey"
     /\ pc[r] \in {"save"} \cup Answered
     /\ k \in doomed[r]
  \/ /\ call[r].op = "deleteOrganization"
     /\ entity[r] # NoOrg
     /\ k \in KeyIdsOf(entity[r]) \ doomed[r]

LateStore(k) ==
  /\ LateTries
  /\ StoreAsked(k)
  /\ StoreLate(k)
  /\ UNCHANGED <<requestVars, repositoryVars>>

LateDeletion(k) ==
  /\ LateTries
  /\ \E r \in Requests : DeletionAsked(r, k)
  /\ DeleteKeyPairs({k})
  /\ UNCHANGED <<requestVars, repositoryVars>>

-----------------------------------------------------------------------------
(* What the scheduler runs once a request has been received. *)
Advance(r) ==
  \/ CheckName(r) \/ ValidateRoleUpdate(r) \/ ValidateApiKeyName(r)
  \/ CreateOrganization(r) \/ UpdateOrganization(r) \/ DeleteOrganization(r)
  \/ LeaveOrganization(r) \/ InviteMember(r) \/ KickoutMember(r)
  \/ UpdateOrganizationMemberRole(r)
  \/ AddOrganizationApiKey(r) \/ DeleteOrganizationApiKey(r)
  \/ StorePair(r) \/ DeletePair(r) \/ Commit(r) \/ Conflict(r)
  \/ Remove(r) \/ Purge(r) \/ Purged(r)

CatchUp(id) == Reindex(id) /\ UNCHANGED <<requestVars, pairs>>

(* All the requests have been answered. *)
Idle == (\A r \in Requests : pc[r] \in Answered) /\ UNCHANGED vars

Next ==
  \/ \E r \in Requests : Receive(r) \/ Advance(r) \/ Abort(r)
  \/ \E id \in OrgIds : CatchUp(id)
  \/ \E k \in KeyIds : LateStore(k) \/ LateDeletion(k)
  \/ Idle

Spec == Init /\ [][Next]_vars

(* Where a request waits for Vault, and holds its thread meanwhile. *)
VaultStages == {"storePair", "deletePair", "purge"}

(* Fairness is that of the steps that do not wait for Vault: the Couchbase client
   answers each call or times it out, and the threads go on with it.  For the
   calls of Vault nothing is assumed: no timeout is set for them (AppConfiguration),
   so one of them may never come back.  Nobody has to send a request, nothing has
   to fail, no late try has to arrive, and the index need never catch up. *)
AdvanceWithoutVault(r) == pc[r] \notin VaultStages /\ Advance(r)

Fairness == \A r \in Requests : WF_vars(AdvanceWithoutVault(r))

FairSpec == Spec /\ Fairness
=============================================================================
