------------------------ MODULE OrganizationChanges ------------------------
(***************************************************************************)
(* What whoever reads the bucket meets there: organizations change by the  *)
(* steps of the directory, every step gives its document a new CAS, and    *)
(* the index follows.  The service implements it, stage by stage; the      *)
(* queries run beside it.                                                  *)
(***************************************************************************)
EXTENDS CouchbaseRepository

Directory == INSTANCE OrganizationDirectory WITH orgs <- docs

(* A call of one of the operations takes effect. *)
Mutate(c) ==
  /\ cas' = [cas EXCEPT ![c.org] = @ + 1]
  /\ UNCHANGED indexed
  /\ Directory!Create(c) \/ Directory!Change(c) \/ Directory!Delete(c)

ChangesNext ==
  \/ \E id \in OrgIds : Reindex(id)
  \/ \E c \in Calls : Mutate(c)

ChangesSpec == RepositoryInit /\ [][ChangesNext]_repositoryVars
=============================================================================
