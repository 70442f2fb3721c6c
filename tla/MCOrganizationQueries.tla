----------------------- MODULE MCOrganizationQueries -----------------------
(* Instances of OrganizationQueries for TLC. *)
EXTENDS OrganizationQueries, TLC

CONSTANTS o1, o2, alice, bob, n1, k1, q1, q2

OneKeyName == {"key"}
SameCase == [n \in OneKeyName |-> n]

Symmetry == Permutations(Readers)

Staff(owners, admins) ==
  [u \in Users |-> IF u \in owners THEN "Owner" ELSE IF u \in admins THEN "Admin" ELSE NoRole]

Team(owners, admins, keys) ==
  [name |-> n1, members |-> Staff(owners, admins), apiKeys |-> keys]

Key(role) == [keyId |-> k1, name |-> "key", role |-> role]

(* Two organizations, or one and room for another. *)
QueriesDocs ==
  {[id \in OrgIds |-> IF id = o1 THEN Team({alice}, {bob}, {Key("Owner"), Key("Member")})
                                 ELSE Team({bob}, {}, {Key("Admin")})],
   [id \in OrgIds |-> IF id = o1 THEN Team({alice}, {bob}, {}) ELSE NoOrg]}

(* Bob comes and goes, rises and falls; keys come and go. *)
QueriesWorkload ==
  {c \in Calls :
     /\ c.op # "updateOrganization"
     /\ c.op \notin {"createOrganization", "leaveOrganization"} => c.caller = alice
     /\ c.op \in {"createOrganization", "leaveOrganization"} => c.caller = bob
     /\ c.op \in {"inviteMember", "kickoutMember", "updateOrganizationMemberRole"} =>
          c.user = bob
     /\ c.op = "addOrganizationApiKey" => c.role \in {NoRole, "Owner"}}
=============================================================================
