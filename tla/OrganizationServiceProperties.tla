-------------------- MODULE OrganizationServiceProperties --------------------
(***************************************************************************)
(* What is asked of the service.  The invariants come first, then what a   *)
(* step may do, then liveness, and last the statements of the repository's *)
(* documents that the code does not keep.                                  *)
(***************************************************************************)
EXTENDS OrganizationService, OrganizationChanges

(* Every variable has its type, and a request that has started has a call. *)
TypeOK ==
  /\ RepositoryTypeOK
  /\ KeyStoreTypeOK
  /\ pc \in [Requests -> Stages]
  /\ call \in [Requests -> Calls \cup {NoCall}]
  /\ entity \in [Requests -> Organizations \cup {NoOrg}]
  /\ version \in [Requests -> Nat]
  /\ doomed \in [Requests -> SUBSET KeyIds]
  /\ checked \in [Requests -> Nat]
  /\ \A r \in Requests : pc[r] # "idle" => call[r] \in Calls

(* A stage is reached only by the operations that have it, and "save" with an
   organization to save. *)
StagesMatch ==
  \A r \in Requests :
    LET op == call[r].op IN
    /\ pc[r] = "checkName"  => op \in {"createOrganization", "updateOrganization"}
    /\ pc[r] = "validate"   => op \in {"updateOrganizationMemberRole",
                                      "addOrganizationApiKey"}
    /\ pc[r] = "storePair"  => op = "addOrganizationApiKey"
    /\ pc[r] = "deletePair" => op = "deleteOrganizationApiKey"
    /\ pc[r] \in {"remove", "purge"} => op = "deleteOrganization"
    /\ pc[r] = "save"       => op # "deleteOrganization"
    /\ pc[r] \in Prepared   => entity[r] # NoOrg

(* The request holds the organization as it is stored now. *)
IsCurrent(r) == version[r] = cas[call[r].org]

(* The CAS does its work: while the document still has the CAS an operation has
   read, the checks the operation made hold of the stored organization, and the
   object it is about to save is that organization with its change and nothing
   else; only a new organization is saved without having been read.  (Every
   process method from getOrganization to save; CouchbaseRepository.save.) *)
PreparedIsCurrent(r) ==
  LET c == call[r]
      o == docs[c.org]
  IN pc[r] \in Prepared =>
       IF c.op = "createOrganization"
       THEN version[r] = 0 /\ entity[r] = NewOrganization(c.name, c.caller)
       ELSE /\ version[r] \in 1..cas[c.org]
            /\ IsCurrent(r) =>
                 o # NoOrg /\ Permits(c, o) /\ entity[r] = Effect(c, o, r)

(* Likewise for the organization an owner is about to delete. *)
RemoveIsCurrent(r) ==
  LET c == call[r]
      o == docs[c.org]
  IN pc[r] = "remove" =>
       /\ version[r] \in 1..cas[c.org]
       /\ IsCurrent(r) =>
            o # NoOrg /\ IsOwner(o, c.caller) /\ doomed[r] = KeyIdsOf(o)

(* The two operations that check one read of the organization and change
   another are safe when the checked document is still there. *)
CheckedIsCurrent(r) ==
  LET c == call[r]
      o == docs[c.org]
  IN /\ pc[r] \in {"process"} \cup Prepared
     /\ c.op \in {"updateOrganizationMemberRole", "addOrganizationApiKey"}
     => /\ checked[r] \in 1..cas[c.org]
        /\ checked[r] = cas[c.org] =>
             /\ o # NoOrg
             /\ c.op = "updateOrganizationMemberRole" => MayUpdateRole(o, c)
             /\ c.op = "addOrganizationApiKey" => IsFreeKeyName(o, c.keyName)

(* A document that was never written has CAS 0. *)
UnwrittenIsAbsent == \A id \in OrgIds : cas[id] = 0 => docs[id] = NoOrg

(* The inductive invariant the theorems rest on: at every stage a request knows
   what it has read, and its knowledge holds for as long as the CAS does. *)
Coherent ==
  /\ StagesMatch
  /\ UnwrittenIsAbsent
  /\ \A r \in Requests :
       PreparedIsCurrent(r) /\ RemoveIsCurrent(r) /\ CheckedIsCurrent(r)

(* A key is listed only once its pair is in the key store: what comes first
   when a key is added is the pair (AddOrganizationApiKey.process). *)
ListedKeyWasStored ==
  \A id \in OrgIds : docs[id] # NoOrg =>
    \A k \in docs[id].apiKeys : pairs[k.keyId] # "absent"

(* A listed key without its pair is the work of a deleteOrganizationApiKey
   that went on to save: a key of a living organization never loses its pair
   to the deletion of an organization or to any other call
   (DeleteOrganizationApiKey.process, DeleteOrganization.process). *)
ListedKeyKilledByKeyDeletion ==
  \A id \in OrgIds : docs[id] # NoOrg =>
    \A k \in docs[id].apiKeys : pairs[k.keyId] = "deleted" =>
      \E r \in Requests :
        /\ call[r].op = "deleteOrganizationApiKey"
        /\ call[r].org = id
        /\ SameIgnoringCase(k.name, call[r].keyName)
        /\ pc[r] \in {"save"} \cup Answered

(* When deleting an organization is answered with success, the pair of every key
   it listed when it was read has been deleted; where one is there again, a late
   store has written it (DeleteOrganization.process, doOnSuccess over the keys of
   the organization it holds). *)
PurgeIsComplete ==
  \A r \in Requests :
    pc[r] = "succeeded" /\ call[r].op = "deleteOrganization" =>
      \A k \in KeyIdsOf(entity[r]) : WasDeleted(k)

-----------------------------------------------------------------------------
(* Steps. *)

(* r's change of organization id takes effect in this step. *)
Commits(r, id, op) ==
  /\ call[r].op = op
  /\ call[r].org = id
  /\ pc[r] = "save"
  /\ docs'[id] = entity[r]
  /\ pc'[r] # "save"

(* r's "validate" and "process" have read two different documents. *)
Raced(r) == checked[r] # version[r]

Exists(id) == docs[id] # NoOrg /\ docs'[id] # NoOrg

(* An organization that has an owner keeps one, whatever is called in whatever
   order, but for a change of role whose checks were made on an older document
   (checkLastOwner in Leave, Kickout and UpdateOrganizationMemberRole). *)
LastOwnerLostOnlyByRace ==
  [][\A id \in OrgIds :
       Exists(id) /\ HasOwner(docs[id]) /\ ~HasOwner(docs'[id]) =>
         \E r \in Requests :
           Commits(r, id, "updateOrganizationMemberRole") /\ Raced(r)]_vars

(* Once it has no owner nothing gives it one, but for another such race: nobody
   may invite an owner, and everybody counts as the last one. *)
OwnerlessStaysOwnerless ==
  [][\A id \in OrgIds :
       Exists(id) /\ ~HasOwner(docs[id]) /\ HasOwner(docs'[id]) =>
         \E r \in Requests :
           Commits(r, id, "updateOrganizationMemberRole") /\ Raced(r)]_vars

(* Nobody's role is changed, given or taken by a caller ranked lower than the
   old or the new role, but for oneself leaving and for raced changes of role
   (the comparisons with the caller's role in Invite, Kickout and
   UpdateOrganizationMemberRole). *)
RolesChangedFromAbove ==
  [][\A id \in OrgIds : Exists(id) =>
       \A u \in Users :
         LET was == GetRole(docs[id], u)
             is  == GetRole(docs'[id], u)
         IN was # is =>
              \E r \in Requests :
                /\ \E op \in {"inviteMember", "kickoutMember", "leaveOrganization",
                              "updateOrganizationMemberRole"} : Commits(r, id, op)
                /\ \/ call[r].op = "leaveOrganization" /\ call[r].caller = u
                   \/ call[r].op = "updateOrganizationMemberRole" /\ Raced(r)
                   \/ /\ IsSuperUser(docs[id], call[r].caller)
                      /\ \A role \in {was, is} \cap Roles :
                           ~IsHigherThan(role, GetRole(docs[id], call[r].caller))]_vars

KeyNamesUnique(o) == \A k, l \in o.apiKeys : k.name = l.name => k = l

(* Two keys come to share a name only when the name was looked up in an older
   document than the one the key is added to (AddOrganizationApiKey.validate). *)
KeyNameTakenTwiceOnlyByRace ==
  [][\A id \in OrgIds :
       Exists(id) /\ KeyNamesUnique(docs[id]) /\ ~KeyNamesUnique(docs'[id]) =>
         \E r \in Requests :
           Commits(r, id, "addOrganizationApiKey") /\ Raced(r)]_vars

(* The pair of a key that leaves the list of a living organization has been
   deleted by then, and only a late store may have written it again, unless the
   list held another key findAny could have met instead
   (DeleteOrganizationApiKey.process: equalsIgnoreCase against equals). *)
UnlistedKeyIsRevoked ==
  [][\A id \in OrgIds : Exists(id) =>
       \A k \in docs[id].apiKeys \ docs'[id].apiKeys :
         \/ WasDeleted(k.keyId)
         \/ \E l \in docs[id].apiKeys \ {k} : SameIgnoringCase(k.name, l.name)]_vars

-----------------------------------------------------------------------------
(* The service implements the directory: the bucket's content moves only by the
   directory's steps, however the stages of the requests interleave, fail or
   stop halfway.  So no update is lost, no new organization replaces another,
   no deleted organization comes back, and all changes but two are authorised
   by the very document they replace. *)
ImplementsDirectory == Directory!Spec

(* The life of a key, from its pair and from the request that has drawn its id:
   between the two stores it is made and not yet listed. *)
IsBeingAdded(k) ==
  k \in Requests /\ pc[k] = "save" /\ call[k].op = "addOrganizationApiKey"

LifeOf(k) ==
  CASE pairs[k] = "absent"  -> "unborn"
    [] pairs[k] = "deleted" -> "destroyed"
    [] pairs[k] = "revived" -> "revived"
    [] OTHER -> IF IsBeingAdded(k) THEN "made" ELSE "alive"

HomesOf(k) == {id \in OrgIds : docs[id] # NoOrg /\ k \in KeyIdsOf(docs[id])}

Keys == INSTANCE ApiKeyLife WITH life <- [k \in KeyIds |-> LifeOf(k)],
                                 home <- [k \in KeyIds |-> HomesOf(k)]

(* Bucket and key store together implement the life of a key, although no step
   changes both, every request may stop between two of them, and their calls of
   the key store may be performed again when they are long over: each key is
   listed at most once, by one organization, and by no save that comes late; a
   key is on its way to the list with its pair or not at all; and a pair is
   destroyed only when the request that stored it is over.  What is not promised
   is that a destroyed pair stays destroyed: a late store revives it, listed or
   not, and nobody notices (the key store calls of AddOrganizationApiKey,
   DeleteOrganizationApiKey and DeleteOrganization, with the CAS of their
   saves). *)
ImplementsApiKeyLife == Keys!LifeSpec

(* How far a request has come. *)
Progress(stage) ==
  CASE stage = "idle" -> 0
    [] stage \in {"checkName", "validate"} -> 1
    [] stage = "process" -> 2
    [] stage \in {"storePair", "deletePair", "remove"} -> 3
    [] stage \in {"save", "purge"} -> 4
    [] OTHER -> 5

(* It goes on to a later stage, or has one key less to delete. *)
LeadsOn(r) ==
  \/ Progress(pc'[r]) > Progress(pc[r])
  \/ /\ pc[r] = "purge" /\ pc'[r] = "purge"
     /\ \E k \in doomed[r] : doomed'[r] = doomed[r] \ {k}

Memory(r) == <<call[r], entity[r], version[r], checked[r]>>

(* What no fairness is needed for: nothing is done twice.  A request never goes
   back and never stays where it is, whatever it meets, so that a conflict is
   answered and not tried again and a key is deleted once; what it has read is
   read again by nobody once it is at its stores; the bucket changes only for a
   request that comes closer to its answer, and so does the key store, but for
   what late tries repeat there (the pipelines of execute, which have no retry,
   and the loop over the keys in DeleteOrganization). *)
EveryStepLeadsOn ==
  [][/\ \A r \in Requests :
          /\ pc'[r] # pc[r] \/ doomed'[r] # doomed[r] => LeadsOn(r)
          /\ Memory(r)' # Memory(r) => LeadsOn(r) /\ Progress(pc[r]) < 3
          /\ call'[r] # call[r] => pc[r] = "idle"
     /\ LET atItsStores == \E r \in Requests : LeadsOn(r) /\ Progress(pc[r]) > 2 IN
        /\ docs' # docs => atItsStores
        /\ \A k \in KeyIds : pairs'[k] # pairs[k] =>
             \/ atItsStores
             \/ pairs'[k] = "deleted" /\ \E r \in Requests : DeletionAsked(r, k)
             \/ pairs'[k] # "deleted" /\ StoreAsked(k)]_vars

(* No call of the key store holds its thread for ever.  Nothing in the code makes
   it so: this is for Vault and the network to keep. *)
VaultComesBack == \A r \in Requests : []<>(pc[r] \notin VaultStages)

(* As long as Vault keeps it, every request is answered: conflicts are failures and
   not loops, nobody waits for anybody, and the deletion of keys comes to its end
   (the pipelines of execute). *)
EveryRequestIsAnswered ==
  VaultComesBack => \A r \in Requests : pc[r] \in InFlight ~> pc[r] \in Answered

-----------------------------------------------------------------------------
(* Statements of the documents. *)

(* "Furthermore at least one Owner (origin or granted one) should be persisted
   in the organization." (updateOrganizationMemberRole.apidoc) *)
AtLeastOneOwner == \A id \in OrgIds : docs[id] # NoOrg => HasOwner(docs[id])

(* "Each API key got the unique name which couldn't be duplicated."
   (addApiKey.apidoc) *)
UniqueApiKeyNames ==
  \A id \in OrgIds : docs[id] # NoOrg => KeyNamesUnique(docs[id])

(* "All relevant API keys issued for organization also deleted thus become
   invalid after specific period of time" (deleteOrganization.apidoc): a key
   added with success to an organization deleted with success loses its pair in
   the end. *)
DeletedOrganizationLosesItsKeys ==
  \A r, s \in Requests :
    /\ pc[r] = "succeeded" /\ call[r].op = "deleteOrganization"
    /\ pc[s] = "succeeded" /\ call[s].op = "addOrganizationApiKey"
    /\ call[r].org = call[s].org
    ~> pairs[s] # "stored"

(* "write or read rights will be revoked from the consumers ... using the
   related terminated API key" (deleteApiKey.apidoc). *)
TerminatedKeyIsRevoked ==
  [][\A id \in OrgIds : Exists(id) =>
       \A k \in docs[id].apiKeys \ docs'[id].apiKeys :
         pairs[k.keyId] = "deleted"]_vars
=============================================================================
