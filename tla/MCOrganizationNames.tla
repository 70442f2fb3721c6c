------------------------ MODULE MCOrganizationNames ------------------------
(* The instance of everything at once, with the history of OrganizationNames. *)
EXTENDS OrganizationNames, MCOrganizationService

(* Room for two organizations, none, one or both of which are there already. *)
DirectoryDocs ==
  {Only(NoOrg),
   Only(Org(n1, Staff({alice}, {bob}, {}), {Key(k1, "key")})),
   [id \in OrgIds |-> Org(IF id = o1 THEN n1 ELSE n2, Staff({alice}, {}, {}), {})]}

DirectoryWorkload ==
  {x \in Calls :
     /\ x.op = "addOrganizationApiKey" =>
          x.keyName = "key" /\ x.role \in {"Owner", NoRole}
     /\ x.op = "deleteOrganizationApiKey" => x.keyName # "other"
     /\ x.op = "inviteMember" => x.role # "Admin"}
=============================================================================
