---------------------------- MODULE Organization ----------------------------
(***************************************************************************)
(* The entity of the service: domain/Organization.java with the types of   *)
(* the API it is built from (Role, ApiKey, OrganizationMember).            *)
(*                                                                         *)
(* The entity keeps its members in a HashSet whose elements are equal when *)
(* their ids are, so a set of members is a function from users to roles,   *)
(* with NoRole for a user who is not a member.  The email travels with the *)
(* name through every operation and no property reads it: it is left out.  *)
(***************************************************************************)
EXTENDS Integers, FiniteSets

CONSTANTS
  Users,      \* user ids, as Profile.userId() gives them
  Names,      \* names of organizations
  KeyNames,   \* names of API keys
  KeyIds,     \* ids of key pairs (random UUIDs)
  Lower,      \* the name equalsIgnoreCase compares, for each key name
  NoOrg       \* no organization: what a lookup that finds nothing returns

ASSUME LowerAssumption == Lower \in [KeyNames -> KeyNames]

-----------------------------------------------------------------------------
(* Role.java: the enum and the order of its ids. *)
Roles == {"Owner", "Admin", "Member"}

Rank == [Owner |-> 300, Admin |-> 200, Member |-> 100]

(* No role: a user who is not a member, or a key request without role claim. *)
NoRole == "none"

(* What a request may carry in its role field: Role.valueOf knows the first
   three and throws on anything else. *)
UnknownRole == "unknown"
RoleNames == Roles \cup {UnknownRole}

IsHigherThan(role, other) == Rank[role] > Rank[other]

-----------------------------------------------------------------------------
(* The key's token is left out: it is a function of the fields kept. *)
ApiKeys == [keyId : KeyIds, name : KeyNames, role : Roles]

Organizations ==
  [name : Names, members : [Users -> Roles \cup {NoRole}], apiKeys : SUBSET ApiKeys]

ASSUME NoOrgAssumption == NoOrg \notin Organizations

IsMember(o, user) == o.members[user] # NoRole

GetRole(o, user) == o.members[user]

HasOwner(o) == \E u \in Users : o.members[u] = "Owner"

KeyIdsOf(o) == {k.keyId : k \in o.apiKeys}

SameIgnoringCase(name, other) == Lower[name] = Lower[other]

-----------------------------------------------------------------------------
(* The entity's own operations. *)
NewOrganization(name, creator) ==
  [name    |-> name,
   members |-> [u \in Users |-> IF u = creator THEN "Owner" ELSE NoRole],
   apiKeys |-> {}]

ChangeName(o, name) == [o EXCEPT !.name = name]

RemoveMember(o, user) == [o EXCEPT !.members[user] = NoRole]

UpdateMemberRole(o, user, role) == [o EXCEPT !.members[user] = role]

(* HashSet.add leaves the set alone when it holds an equal element: inviting a
   member again does not change the role. *)
AddMember(o, user, role) ==
  IF IsMember(o, user) THEN o ELSE [o EXCEPT !.members[user] = role]

AddApiKey(o, key) == [o EXCEPT !.apiKeys = @ \cup {key}]

(* Every key of exactly this name goes. *)
RemoveApiKey(o, name) == [o EXCEPT !.apiKeys = {k \in @ : k.name # name}]
=============================================================================
