------------------------ MODULE CouchbaseRepository ------------------------
(***************************************************************************)
(* CouchbaseRepository.java: the documents, their CAS values, and the      *)
(* index the N1QL queries go through.  Key-value operations are atomic per *)
(* document; the query index follows the documents with a delay, because   *)
(* N1qlQuery.simple asks for no consistency.                               *)
(***************************************************************************)
EXTENDS ServiceOperation

CONSTANT InitialDocs    \* the contents the bucket may start with

ASSUME RepositoryAssumption ==
  InitialDocs \subseteq [OrgIds -> Organizations \cup {NoOrg}]

VARIABLES
  docs,       \* the organization stored under each id, or NoOrg
  cas,        \* its CAS value: every mutation gives a new one
  indexed     \* ids the index has entries for

repositoryVars == <<docs, cas, indexed>>

RepositoryTypeOK ==
  /\ docs \in [OrgIds -> Organizations \cup {NoOrg}]
  /\ cas \in [OrgIds -> Nat]
  /\ indexed \in SUBSET OrgIds

-----------------------------------------------------------------------------
RepositoryInit ==
  /\ docs \in InitialDocs
  /\ cas = [id \in OrgIds |-> IF docs[id] = NoOrg THEN 0 ELSE 1]
  /\ indexed = {id \in OrgIds : docs[id] # NoOrg}

FindById(id) == docs[id]

(* CanSave as an upsert would have it: whatever is there is replaced. *)
CanUpsert(id, version) == version = 0 \/ docs[id] # NoOrg

(* Version 0 inserts, any other version replaces the document that still has
   this CAS. *)
CanSave(id, version) ==
  IF version = 0 THEN docs[id] = NoOrg ELSE docs[id] # NoOrg /\ cas[id] = version

Save(id, entity) ==
  /\ docs' = [docs EXCEPT ![id] = entity]
  /\ cas' = [cas EXCEPT ![id] = @ + 1]
  /\ UNCHANGED indexed

(* remove(id) carries no CAS: it takes whatever is there. *)
CanDelete(id) == docs[id] # NoOrg

DeleteById(id) ==
  /\ docs' = [docs EXCEPT ![id] = NoOrg]
  /\ cas' = [cas EXCEPT ![id] = @ + 1]
  /\ UNCHANGED indexed

(* The primary index gives ids; the predicate is evaluated on the documents
   fetched for them. *)
ExistsByName(name) ==
  \E id \in indexed : docs[id] # NoOrg /\ docs[id].name = name

(* The index catches up with one document. *)
Reindex(id) ==
  /\ (id \in indexed) # (docs[id] # NoOrg)
  /\ indexed' = IF docs[id] # NoOrg THEN indexed \cup {id} ELSE indexed \ {id}
  /\ UNCHANGED <<docs, cas>>
=============================================================================
