-------------------------- MODULE ServiceOperation --------------------------
(***************************************************************************)
(* What the operations of OrganizationServiceImpl check and do, as         *)
(* functions of a call and of the organization the operation has read:     *)
(* the access checks of ServiceOperation.java and the bodies of the        *)
(* doOnNext blocks of the operation classes.                               *)
(***************************************************************************)
EXTENDS Organization

CONSTANT OrgIds     \* ids the documents of organizations are stored under

(* A call names the operation, the caller the token was verified for, and the
   arguments.  IdGenerator picks the id of a new organization at random: it is
   part of the call, so that any id may come out of it. *)
Calls ==
       [op : {"createOrganization", "updateOrganization"},
        org : OrgIds, caller : Users, name : Names]
  \cup [op : {"deleteOrganization", "leaveOrganization"},
        org : OrgIds, caller : Users]
  \cup [op : {"inviteMember", "updateOrganizationMemberRole"},
        org : OrgIds, caller : Users, user : Users, role : RoleNames]
  \cup [op : {"kickoutMember"}, org : OrgIds, caller : Users, user : Users]
  \cup [op : {"addOrganizationApiKey"}, org : OrgIds, caller : Users,
        keyName : KeyNames, role : RoleNames \cup {NoRole}]
  \cup [op : {"deleteOrganizationApiKey"}, org : OrgIds, caller : Users,
        keyName : KeyNames]

-----------------------------------------------------------------------------
(* Access checks. *)
IsOwner(o, user) == o.members[user] = "Owner"

IsSuperUser(o, user) == IsOwner(o, user) \/ o.members[user] = "Admin"

(* IsLastOwner without the filter that leaves the user out. *)
IsLastOwnerOfAll(o, user) == \A u \in Users : o.members[u] # "Owner"

(* Nobody else is an owner: true of every user when there is no owner at all. *)
IsLastOwner(o, user) == \A u \in Users \ {user} : o.members[u] # "Owner"

(* MayInvite without the comparison with the caller's role. *)
MayInviteToAnyRole(o, c) == IsSuperUser(o, c.caller) /\ c.role \in Roles

MayInvite(o, c) ==
  /\ IsSuperUser(o, c.caller)
  /\ c.role \in Roles
  /\ ~IsHigherThan(c.role, GetRole(o, c.caller))

MayKickout(o, c) ==
  /\ IsSuperUser(o, c.caller)
  /\ IsMember(o, c.user)
  /\ ~IsHigherThan(GetRole(o, c.user), GetRole(o, c.caller))
  /\ ~IsLastOwner(o, c.user)

(* Membership of the caller is not asked for. *)
MayLeave(o, c) == ~IsLastOwner(o, c.caller)

(* MayUpdateRole without checkIfAdminCallerIsTryingToDowngradeAnOwner. *)
MayUpdateAnyRole(o, c) ==
  /\ IsMember(o, c.user)
  /\ IsSuperUser(o, c.caller)
  /\ c.role \in Roles
  /\ ~IsHigherThan(c.role, GetRole(o, c.caller))
  /\ ~IsLastOwner(o, c.user)

(* The checks of UpdateOrganizationMemberRole.validate. *)
MayUpdateRole(o, c) ==
  /\ IsMember(o, c.user)
  /\ IsSuperUser(o, c.caller)
  /\ c.role \in Roles
  /\ ~IsHigherThan(c.role, GetRole(o, c.caller))
  /\ ~IsHigherThan(GetRole(o, c.user), GetRole(o, c.caller))
  /\ ~IsLastOwner(o, c.user)

MayAddApiKey(o, c) ==
  /\ IsSuperUser(o, c.caller)
  /\ \/ c.role = NoRole
     \/ c.role \in Roles /\ ~IsHigherThan(c.role, GetRole(o, c.caller))

(* IsFreeKeyName with anyMatch where noneMatch belongs. *)
IsNameNotOfAllKeys(o, name) ==
  o.apiKeys = {} \/ \E k \in o.apiKeys : k.name # name

(* The check of AddOrganizationApiKey.validate, on the names as they are. *)
IsFreeKeyName(o, name) == \A k \in o.apiKeys : k.name # name

(* The checks "process" makes on the organization it has read.  Changing a role
   looks at the argument alone: the organization was checked by "validate", on
   an earlier read. *)
Permits(c, o) ==
  CASE c.op = "updateOrganization"           -> IsSuperUser(o, c.caller)
    [] c.op = "deleteOrganization"           -> IsOwner(o, c.caller)
    [] c.op = "leaveOrganization"            -> MayLeave(o, c)
    [] c.op = "inviteMember"                 -> MayInvite(o, c)
    [] c.op = "kickoutMember"                -> MayKickout(o, c)
    [] c.op = "updateOrganizationMemberRole" -> c.role \in Roles
    [] c.op = "addOrganizationApiKey"        -> MayAddApiKey(o, c)
    [] c.op = "deleteOrganizationApiKey"     -> IsSuperUser(o, c.caller)

-----------------------------------------------------------------------------
(* BuildApiKey without the default role. *)
BuildApiKeyAsClaimed(c, keyId) ==
  [keyId |-> keyId, name |-> c.keyName, role |-> c.role]

(* ApiKeyBuilder.build: a key without role claim is given the lowest role. *)
BuildApiKey(c, keyId) ==
  [keyId |-> keyId, name |-> c.keyName,
   role  |-> IF c.role = NoRole THEN "Member" ELSE c.role]

(* The organization "process" saves, from the one it has read.  keyId is the
   fresh id an added API key gets.  Deleting an organization saves nothing. *)
Effect(c, o, keyId) ==
  CASE c.op = "updateOrganization"           -> ChangeName(o, c.name)
    [] c.op = "deleteOrganization"           -> o
    [] c.op = "leaveOrganization"            -> RemoveMember(o, c.caller)
    [] c.op = "inviteMember"                 -> AddMember(o, c.user, c.role)
    [] c.op = "kickoutMember"                -> RemoveMember(o, c.user)
    [] c.op = "updateOrganizationMemberRole" -> UpdateMemberRole(o, c.user, c.role)
    [] c.op = "addOrganizationApiKey"        -> AddApiKey(o, BuildApiKey(c, keyId))
    [] c.op = "deleteOrganizationApiKey"     -> RemoveApiKey(o, c.keyName)

(* MatchingKeys without the filter on the name. *)
AllKeys(o, name) == o.apiKeys

(* The key pairs an operation destroys, one set for each choice it may make:
   all the keys of a deleted organization; for a deleted key the first one that
   findAny meets among those whose name matches with the case ignored. *)
MatchingKeys(o, name) == {k \in o.apiKeys : SameIgnoringCase(k.name, name)}

DoomedKeys(c, o) ==
  CASE c.op = "deleteOrganization" -> {KeyIdsOf(o)}
    [] c.op = "deleteOrganizationApiKey" ->
         IF MatchingKeys(o, c.keyName) = {}
         THEN {{}}
         ELSE {{k.keyId} : k \in MatchingKeys(o, c.keyName)}
    [] OTHER -> {{}}
=============================================================================
