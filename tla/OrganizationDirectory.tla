----------------------- MODULE OrganizationDirectory -----------------------
(***************************************************************************)
(* What the service promises about the organizations it keeps: every       *)
(* successful call takes effect in one step, on the organization as it is  *)
(* at that moment, and only if the checks of the operation hold of it at   *)
(* that moment.  Two steps promise less, because the code does: changing a *)
(* role and deleting an organization take effect whatever has become of    *)
(* the organization since they were checked.                               *)
(***************************************************************************)
EXTENDS ServiceOperation

CONSTANT InitialDocs    \* the contents the directory may start with

VARIABLE orgs           \* the organization each id stands for, or NoOrg

Init == orgs \in InitialDocs

(* A new organization never takes the place of another one. *)
Create(c) ==
  /\ c.op = "createOrganization"
  /\ orgs[c.org] = NoOrg
  /\ orgs' = [orgs EXCEPT ![c.org] = NewOrganization(c.name, c.caller)]

(* Every other change is made by somebody entitled to it now. *)
Change(c) ==
  /\ c.op \notin {"createOrganization", "deleteOrganization"}
  /\ orgs[c.org] # NoOrg
  /\ Permits(c, orgs[c.org])
  /\ \E keyId \in KeyIds :
       orgs' = [orgs EXCEPT ![c.org] = Effect(c, orgs[c.org], keyId)]

Delete(c) ==
  /\ c.op = "deleteOrganization"
  /\ orgs[c.org] # NoOrg
  /\ orgs' = [orgs EXCEPT ![c.org] = NoOrg]

Next == \E c \in Calls : Create(c) \/ Change(c) \/ Delete(c)

Spec == Init /\ [][Next]_orgs
=============================================================================
