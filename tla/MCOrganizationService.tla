----------------------- MODULE MCOrganizationService -----------------------
(* Instances of OrganizationService for TLC. *)
EXTENDS OrganizationServiceProperties, TLC

CONSTANTS o1, o2, alice, bob, carol, n1, n2, k1, k2, r1, r2, r3

(* Two key names that equalsIgnoreCase takes for one, and a third. *)
MCKeyNames == {"key", "Key", "other"}
MCLower == [n \in MCKeyNames |-> IF n = "Key" THEN "key" ELSE n]

Symmetry == Permutations(Requests)

Staff(owners, admins, members) ==
  [u \in Users |-> CASE u \in owners  -> "Owner"
                     [] u \in admins  -> "Admin"
                     [] u \in members -> "Member"
                     [] OTHER         -> NoRole]

Org(name, members, keys) == [name |-> name, members |-> members, apiKeys |-> keys]

Key(id, name) == [keyId |-> id, name |-> name, role |-> "Member"]

Only(o) == [id \in OrgIds |-> IF id = o1 THEN o ELSE NoOrg]

Ops(names) == {x \in Calls : x.op \in names}

MemberOps ==
  {"inviteMember", "kickoutMember", "leaveOrganization",
   "updateOrganizationMemberRole"}

KeyOps ==
  {"addOrganizationApiKey", "deleteOrganizationApiKey", "deleteOrganization"}

-----------------------------------------------------------------------------
(* Members: one organization whose members act on each other; it may have lost
   its owners already. *)
MembershipDocs ==
  {Only(Org(n1, Staff({alice, bob}, {}, {carol}), {})),
   Only(Org(n1, Staff({alice}, {bob}, {}), {})),
   Only(Org(n1, Staff({}, {alice, bob}, {}), {}))}

MembershipWorkload == Ops(MemberOps)

(* Two owners, and nobody but owners and admins. *)
OwnersDocs ==
  {Only(Org(n1, Staff({alice, bob}, {}, {}), {})), Only(Org(n1, Staff({alice}, {bob}, {}), {}))}

OwnersWorkload ==
  {x \in Ops(MemberOps) :
     /\ x.op = "inviteMember" => x.role = "Owner"
     /\ x.op = "updateOrganizationMemberRole" => x.role \in {"Owner", "Admin"}}

(* API keys: an owner, an admin and two keys, whose names differ in case only or
   altogether; the third name is there to be taken twice.  Once deleted, the
   organization may be created anew under its id.  Late tries make this the
   largest instance, so the admin only adds a key. *)
ApiKeyDocs ==
  {Only(Org(n1, Staff({alice}, {bob}, {}), {Key(k1, "key"), Key(k2, "Key")})),
   Only(Org(n1, Staff({alice}, {bob}, {}), {Key(k1, "key"), Key(k2, "other")}))}

ApiKeyWorkload ==
  {x \in Ops(KeyOps \cup {"createOrganization"}) :
     /\ x.op = "addOrganizationApiKey" => x.keyName # "other" /\ x.role = NoRole
     /\ x.op = "deleteOrganizationApiKey" => x.keyName # "other"
     /\ x.caller = bob => x.op = "addOrganizationApiKey" /\ x.keyName = "key"}

(* One owner and one name, so that all that is left is the race. *)
SingleOwnerDocs == {Only(Org(n1, Staff({alice}, {}, {}), {}))}

OneKeyWorkload ==
  {x \in Ops({"addOrganizationApiKey", "deleteOrganization"}) :
     x.op = "addOrganizationApiKey" => x.keyName = "key" /\ x.role = NoRole}

KeyDeletionWorkload == Ops({"deleteOrganizationApiKey"})
=============================================================================
