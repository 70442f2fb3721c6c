-------------------------- MODULE OrganizationNames --------------------------
(***************************************************************************)
(* The names of organizations.  Nothing but a query keeps them unique: the *)
(* first stage of createOrganization and updateOrganization looks for a    *)
(* document of the new name, through an index that lags and with failures  *)
(* that count as nothing found, and the name is taken stages later.        *)
(*                                                                         *)
(* The specification is that of OrganizationService with a history of what *)
(* may have escaped the check of each request.                             *)
(***************************************************************************)
EXTENDS OrganizationServiceProperties

VARIABLE escaped    \* ids that may bear the request's name unnoticed

namesVars == <<vars, escaped>>

Bears(o, name) == o # NoOrg /\ o.name = name

(* The ids that bear the name while the check passes: those the index does not
   have, and all of them when the query would have found one but failed. *)
Overlooked(name) ==
  {id \in OrgIds : Bears(docs[id], name) /\ (ExistsByName(name) \/ id \notin indexed)}

(* The ids that take the name in this step. *)
Taking(name) == {id \in OrgIds : ~Bears(docs[id], name) /\ Bears(docs'[id], name)}

IsNamed(r) ==
  call[r].op \in {"createOrganization", "updateOrganization"} /\ pc[r] \in InFlight

Remember ==
  escaped' = [r \in Requests |->
                IF ~IsNamed(r) THEN escaped[r]
                ELSE IF pc[r] = "checkName" THEN Overlooked(call[r].name)
                ELSE escaped[r] \cup Taking(call[r].name)]

NamesInit == Init /\ escaped = [r \in Requests |-> {}]

NamesNext == Next /\ Remember

NamesSpec == NamesInit /\ [][NamesNext]_namesVars

(* Remembering hinders nobody: the fairness of the service. *)
FairNamesSpec ==
  NamesSpec /\ \A r \in Requests : WF_namesVars(AdvanceWithoutVault(r) /\ Remember)
-----------------------------------------------------------------------------
(* r's document takes the name that another one bears. *)
TakesNameOf(r, other) ==
  /\ call[r].org \in Taking(call[r].name)
  /\ other # call[r].org
  /\ Bears(docs'[other], call[r].name)

(* A name is taken only by the save of a creation or an update, and it is taken
   from another organization only if that one has escaped the check: its name
   is younger than the check, it was not in the index yet, or the query failed
   (OrganizationInfoOperation.validate before CreateOrganization.process and
   UpdateOrganization.process). *)
NameTakenTwiceOnlyIfEscaped ==
  [][\A id \in OrgIds, name \in Names : id \in Taking(name) =>
       \E r \in Requests :
         /\ \E op \in {"createOrganization", "updateOrganization"} : Commits(r, id, op)
         /\ call[r].name = name
         /\ \A other \in OrgIds : TakesNameOf(r, other) => other \in escaped[r]]_namesVars
=============================================================================
