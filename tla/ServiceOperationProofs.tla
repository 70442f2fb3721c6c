------------------------ MODULE ServiceOperationProofs ------------------------
(***************************************************************************)
(* Lemmas about the operations as functions of a call and an organization. *)
(* The theorems about the service and its queries rest on them.            *)
(***************************************************************************)
EXTENDS ServiceOperation, TLAPS

-----------------------------------------------------------------------------
(* Types. *)

(* A call has the arguments of its operation. *)
LEMMA CallFields ==
  ASSUME NEW c \in Calls
  PROVE  /\ c.org \in OrgIds
         /\ c.caller \in Users
         /\ c.op \in {"createOrganization", "updateOrganization"} => c.name \in Names
         /\ c.op \in {"inviteMember", "updateOrganizationMemberRole", "kickoutMember"}
              => c.user \in Users
         /\ c.op \in {"inviteMember", "updateOrganizationMemberRole"}
              => c.role \in RoleNames
         /\ c.op = "addOrganizationApiKey" => c.role \in RoleNames \cup {NoRole}
         /\ c.op \in {"addOrganizationApiKey", "deleteOrganizationApiKey"}
              => c.keyName \in KeyNames
         /\ c.op \in {"createOrganization", "updateOrganization", "deleteOrganization",
                      "leaveOrganization", "inviteMember", "kickoutMember",
                      "updateOrganizationMemberRole", "addOrganizationApiKey",
                      "deleteOrganizationApiKey"}
  BY DEF Calls

(* A new organization is one. *)
LEMMA NewOrganizationType ==
  ASSUME NEW name \in Names, NEW creator \in Users
  PROVE  NewOrganization(name, creator) \in Organizations
  BY DEF NewOrganization, Organizations, Roles, NoRole

(* The fields of an organization and of its updates. *)
LEMMA OrganizationFields ==
  ASSUME NEW o \in Organizations
  PROVE  /\ o.name \in Names
         /\ o.members \in [Users -> Roles \cup {NoRole}]
         /\ o.apiKeys \in SUBSET ApiKeys
  BY DEF Organizations

(* What an operation saves is an organization, if its checks were made. *)
LEMMA EffectType ==
  ASSUME NEW c \in Calls, c.op # "createOrganization",
         NEW o \in Organizations, Permits(c, o),
         NEW keyId \in KeyIds
  PROVE  Effect(c, o, keyId) \in Organizations
<1> DEFINE e == Effect(c, o, keyId)
<1>1. CASE c.op = "updateOrganization"
  BY <1>1, CallFields DEF Effect, ChangeName, Organizations
<1>2. CASE c.op = "deleteOrganization"
  BY <1>2 DEF Effect
<1>3. CASE c.op = "leaveOrganization"
  BY <1>3, CallFields DEF Effect, RemoveMember, Organizations
<1>4. CASE c.op = "inviteMember"
  <2>1. c.role \in Roles
    BY <1>4 DEF Permits, MayInvite
  <2> QED BY <1>4, <2>1, CallFields DEF Effect, AddMember, Organizations
<1>5. CASE c.op = "kickoutMember"
  BY <1>5, CallFields DEF Effect, RemoveMember, Organizations
<1>6. CASE c.op = "updateOrganizationMemberRole"
  <2>1. c.role \in Roles
    BY <1>6 DEF Permits
  <2> QED BY <1>6, <2>1, CallFields DEF Effect, UpdateMemberRole, Organizations
<1>7. CASE c.op = "addOrganizationApiKey"
  <2>1. c.role \in Roles \cup {NoRole}
    BY <1>7 DEF Permits, MayAddApiKey
  <2>2. BuildApiKey(c, keyId) \in ApiKeys
    BY <1>7, <2>1, CallFields DEF BuildApiKey, ApiKeys, Roles, NoRole
  <2> QED BY <1>7, <2>2 DEF Effect, AddApiKey, Organizations
<1>8. CASE c.op = "deleteOrganizationApiKey"
  BY <1>8 DEF Effect, RemoveApiKey, Organizations
<1> QED BY <1>1, <1>2, <1>3, <1>4, <1>5, <1>6, <1>7, <1>8, CallFields

(* The pairs an operation destroys have ids. *)
LEMMA DoomedKeysType ==
  ASSUME NEW c \in Calls, NEW o \in Organizations, NEW keys \in DoomedKeys(c, o)
  PROVE  keys \in SUBSET KeyIds
<1>1. \A k \in o.apiKeys : k.keyId \in KeyIds
  BY DEF Organizations, ApiKeys
<1>2. KeyIdsOf(o) \in SUBSET KeyIds
  BY <1>1 DEF KeyIdsOf
<1>3. \A k \in MatchingKeys(o, c.keyName) : {k.keyId} \in SUBSET KeyIds
  BY <1>1 DEF MatchingKeys
<1> QED BY <1>2, <1>3 DEF DoomedKeys

-----------------------------------------------------------------------------
(* What an operation changes. *)

(* The members of an organization after a call. *)
LEMMA EffectOnMembers ==
  ASSUME NEW c \in Calls, NEW o \in Organizations, NEW keyId,
         c.op \notin {"createOrganization", "deleteOrganization"},
         NEW u \in Users, Effect(c, o, keyId).members[u] # o.members[u]
  PROVE  \/ /\ c.op = "leaveOrganization" /\ u = c.caller
            /\ Effect(c, o, keyId).members[u] = NoRole
         \/ /\ c.op = "kickoutMember" /\ u = c.user
            /\ Effect(c, o, keyId).members[u] = NoRole
         \/ /\ c.op = "inviteMember" /\ u = c.user /\ o.members[u] = NoRole
            /\ Effect(c, o, keyId).members[u] = c.role
         \/ /\ c.op = "updateOrganizationMemberRole" /\ u = c.user
            /\ Effect(c, o, keyId).members[u] = c.role
<1>1. o.members \in [Users -> Roles \cup {NoRole}]
  BY OrganizationFields
<1>2. CASE c.op \in {"updateOrganization", "addOrganizationApiKey", "deleteOrganizationApiKey"}
  BY <1>2 DEF Effect, ChangeName, AddApiKey, RemoveApiKey, Organizations
<1>3. CASE c.op = "leaveOrganization"
  BY <1>1, <1>3, CallFields DEF Effect, RemoveMember, Organizations
<1>4. CASE c.op = "kickoutMember"
  BY <1>1, <1>4, CallFields DEF Effect, RemoveMember, Organizations
<1>5. CASE c.op = "inviteMember"
  BY <1>1, <1>5, CallFields DEF Effect, AddMember, IsMember, Organizations
<1>6. CASE c.op = "updateOrganizationMemberRole"
  BY <1>1, <1>6, CallFields DEF Effect, UpdateMemberRole, Organizations
<1> QED BY <1>2, <1>3, <1>4, <1>5, <1>6, CallFields

(* The keys of an organization after a call are those before it, less the keys
   deleted, and the key added. *)
LEMMA EffectOnKeys ==
  ASSUME NEW c \in Calls, NEW o \in Organizations, NEW keyId,
         c.op \notin {"createOrganization", "deleteOrganization"}
  PROVE  /\ c.op = "addOrganizationApiKey" =>
              Effect(c, o, keyId).apiKeys = o.apiKeys \cup {BuildApiKey(c, keyId)}
         /\ c.op = "deleteOrganizationApiKey" =>
              Effect(c, o, keyId).apiKeys = {k \in o.apiKeys : k.name # c.keyName}
         /\ c.op \notin {"addOrganizationApiKey", "deleteOrganizationApiKey"} =>
              Effect(c, o, keyId).apiKeys = o.apiKeys
<1>1. CASE c.op = "addOrganizationApiKey"
  BY <1>1 DEF Effect, AddApiKey, Organizations
<1>2. CASE c.op = "deleteOrganizationApiKey"
  BY <1>2 DEF Effect, RemoveApiKey, Organizations
<1>3. CASE c.op \notin {"addOrganizationApiKey", "deleteOrganizationApiKey"}
  BY <1>3, CallFields
  DEF Effect, ChangeName, RemoveMember, AddMember, UpdateMemberRole, Organizations
<1> QED BY <1>1, <1>2, <1>3

(* Whoever is allowed a call that changes the role of another user ranks as
   high as the role taken and the role given. *)
LEMMA ChangedFromAbove ==
  ASSUME NEW c \in Calls, NEW o \in Organizations, NEW keyId,
         c.op \notin {"createOrganization", "deleteOrganization", "leaveOrganization"},
         Permits(c, o), c.op = "updateOrganizationMemberRole" => MayUpdateRole(o, c),
         NEW u \in Users, Effect(c, o, keyId).members[u] # o.members[u]
  PROVE  /\ IsSuperUser(o, c.caller)
         /\ \A role \in {GetRole(o, u), GetRole(Effect(c, o, keyId), u)} \cap Roles :
              ~IsHigherThan(role, GetRole(o, c.caller))
<1>1. NoRole \notin Roles
  BY DEF NoRole, Roles
<1>2. CASE c.op = "kickoutMember" /\ u = c.user /\ Effect(c, o, keyId).members[u] = NoRole
  BY <1>1, <1>2 DEF Permits, MayKickout, GetRole
<1>3. CASE /\ c.op = "inviteMember" /\ o.members[u] = NoRole
           /\ Effect(c, o, keyId).members[u] = c.role
  BY <1>1, <1>3 DEF Permits, MayInvite, GetRole
<1>4. CASE /\ c.op = "updateOrganizationMemberRole" /\ u = c.user
           /\ Effect(c, o, keyId).members[u] = c.role
  BY <1>4 DEF MayUpdateRole, GetRole
<1> QED BY <1>2, <1>3, <1>4, EffectOnMembers

(* The last owner survives every operation whose checks hold of the organization
   it changes, if the checks are those of "validate" for a change of role. *)
LEMMA OwnersKept ==
  ASSUME NEW c \in Calls, NEW o \in Organizations, NEW keyId, HasOwner(o),
         c.op \notin {"createOrganization", "deleteOrganization"},
         Permits(c, o),
         c.op = "updateOrganizationMemberRole" => MayUpdateRole(o, c)
  PROVE  HasOwner(Effect(c, o, keyId))
<1>1. PICK owner \in Users : o.members[owner] = "Owner"
  BY DEF HasOwner
<1>2. o.members \in [Users -> Roles \cup {NoRole}]
  BY OrganizationFields
<1>3. CASE c.op \in {"updateOrganization", "addOrganizationApiKey", "deleteOrganizationApiKey"}
  <2>1. Effect(c, o, keyId).members = o.members
    BY <1>3 DEF Effect, ChangeName, AddApiKey, RemoveApiKey, Organizations
  <2> QED BY <1>1, <2>1 DEF HasOwner
<1>4. CASE c.op = "inviteMember"
  <2>1. Effect(c, o, keyId).members[owner] = "Owner"
    BY <1>1, <1>2, <1>4, CallFields DEF Effect, AddMember, IsMember, NoRole, Organizations
  <2> QED BY <2>1 DEF HasOwner
<1>5. ASSUME NEW user \in Users, NEW role, ~IsLastOwner(o, user),
             Effect(c, o, keyId) = [o EXCEPT !.members[user] = role]
      PROVE  HasOwner(Effect(c, o, keyId))
  <2>1. PICK other \in Users \ {user} : o.members[other] = "Owner"
    BY <1>5 DEF IsLastOwner
  <2>2. Effect(c, o, keyId).members[other] = "Owner"
    BY <1>2, <1>5, <2>1 DEF Organizations
  <2> QED BY <2>2 DEF HasOwner
<1>6. CASE c.op = "leaveOrganization"
  <2>1. ~IsLastOwner(o, c.caller)
    BY <1>6 DEF Permits, MayLeave
  <2>2. Effect(c, o, keyId) = [o EXCEPT !.members[c.caller] = NoRole]
    BY <1>6 DEF Effect, RemoveMember
  <2> QED BY <1>5, <2>1, <2>2, CallFields
<1>7. CASE c.op = "kickoutMember"
  <2>1. ~IsLastOwner(o, c.user)
    BY <1>7 DEF Permits, MayKickout
  <2>2. Effect(c, o, keyId) = [o EXCEPT !.members[c.user] = NoRole]
    BY <1>7 DEF Effect, RemoveMember
  <2> QED BY <1>5, <1>7, <2>1, <2>2, CallFields
<1>8. CASE c.op = "updateOrganizationMemberRole"
  <2>1. ~IsLastOwner(o, c.user)
    BY <1>8 DEF MayUpdateRole
  <2>2. Effect(c, o, keyId) = [o EXCEPT !.members[c.user] = c.role]
    BY <1>8 DEF Effect, UpdateMemberRole
  <2> QED BY <1>5, <1>8, <2>1, <2>2, CallFields
<1> QED BY <1>3, <1>4, <1>6, <1>7, <1>8, CallFields

(* An organization without owner gets none from a call whose checks hold of it:
   to lower-ranked callers nobody is an owner, and to everybody the last one. *)
LEMMA OwnerlessKept ==
  ASSUME NEW c \in Calls, NEW o \in Organizations, NEW keyId, ~HasOwner(o),
         c.op \notin {"createOrganization", "deleteOrganization"},
         Permits(c, o), c.op = "updateOrganizationMemberRole" => MayUpdateRole(o, c)
  PROVE  ~HasOwner(Effect(c, o, keyId))
<1> SUFFICES ASSUME NEW u \in Users, Effect(c, o, keyId).members[u] = "Owner" PROVE FALSE
  BY DEF HasOwner
<1>1. o.members[u] # "Owner" /\ o.members[c.caller] # "Owner"
  BY CallFields DEF HasOwner
<1>2. "Owner" # NoRole /\ "Owner" \in Roles
  BY DEF NoRole, Roles
<1>3. c.op \in {"inviteMember", "updateOrganizationMemberRole"}
  BY <1>1, <1>2, EffectOnMembers
<1>4. /\ IsSuperUser(o, c.caller)
      /\ ~IsHigherThan("Owner", GetRole(o, c.caller))
  BY <1>1, <1>2, <1>3, ChangedFromAbove DEF GetRole
<1>5. o.members[c.caller] = "Admin"
  BY <1>1, <1>4 DEF IsSuperUser, IsOwner
<1> QED BY <1>4, <1>5 DEF IsHigherThan, GetRole, Rank
=============================================================================
