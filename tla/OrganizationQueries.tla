------------------------ MODULE OrganizationQueries ------------------------
(***************************************************************************)
(* The operations that change nothing: getOrganization,                    *)
(* getOrganizationMembers and getUserOrganizationsMembership, while        *)
(* organizations are created, changed and deleted beside them.             *)
(*                                                                         *)
(* The changes are those of OrganizationChanges, which the service         *)
(* implements: to a query, every change is one step.  The first two        *)
(* queries read one document.  The third runs "select *": it takes the ids *)
(* from the primary index and fetches the documents one by one.            *)
(***************************************************************************)
EXTENDS OrganizationChanges

CONSTANTS
  Readers,      \* executions of queries
  Workload,     \* the calls that change organizations
  MaxChanges    \* bound: no document is written more often than this

ASSUME WorkloadAssumption == Workload \subseteq Calls

ASSUME MaxChangesAssumption == MaxChanges \in Nat

VARIABLES
  stage,    \* stage of each query
  query,    \* the query it executes
  left,     \* ids whose documents "select *" still has to fetch
  reply,    \* what it has to answer so far
  seen,     \* history: every organization stored while the query ran
  steady,   \* history: ids the caller has been a member of all the time
  lagged    \* history: ids of organizations the index once did not have

queryVars == <<stage, query, left, reply>>
historyVars == <<seen, steady, lagged>>
vars == <<docs, cas, indexed, stage, query, left, reply, seen, steady, lagged>>

Queries ==
       [op : {"getOrganization", "getOrganizationMembers"}, org : OrgIds, caller : Users]
  \cup [op : {"getUserOrganizationsMembership"}, caller : Users]

NoQuery == [op |-> "none"]

Running == {"process", "fetch"}

-----------------------------------------------------------------------------
(* Histories. *)
Stored == {[org |-> id, o |-> docs[id]] : id \in {i \in OrgIds : docs[i] # NoOrg}}

Memberships(user) == {id \in OrgIds : docs[id] # NoOrg /\ IsMember(docs[id], user)}

Unindexed == {id \in OrgIds \ indexed : docs[id] # NoOrg}

(* What the queries in flight see of a change. *)
Observe ==
  /\ seen'   = [q \in Readers |-> IF stage[q] \in Running
                                  THEN seen[q] \cup Stored' ELSE seen[q]]
  /\ steady' = [q \in Readers |-> IF stage[q] \in Running
                                  THEN steady[q] \cap Memberships(query[q].caller)'
                                  ELSE steady[q]]
  /\ lagged' = [q \in Readers |-> IF stage[q] \in Running
                                  THEN lagged[q] \cup Unindexed' ELSE lagged[q]]

-----------------------------------------------------------------------------
Init ==
  /\ RepositoryInit
  /\ stage = [q \in Readers |-> "idle"]
  /\ query = [q \in Readers |-> NoQuery]
  /\ left = [q \in Readers |-> {}]
  /\ reply = [q \in Readers |-> {}]
  /\ seen = [q \in Readers |-> {}]
  /\ steady = [q \in Readers |-> {}]
  /\ lagged = [q \in Readers |-> {}]

(* One call of another operation takes effect. *)
BeChanged(c) ==
  /\ cas[c.org] < MaxChanges
  /\ Mutate(c)
  /\ UNCHANGED queryVars
  /\ Observe

CatchUp(id) ==
  /\ Reindex(id)
  /\ UNCHANGED queryVars
  /\ Observe

Ask(q) ==
  /\ stage[q] = "idle"
  /\ \E x \in Queries :
       /\ query'  = [query EXCEPT ![q] = x]
       /\ steady' = [steady EXCEPT ![q] = Memberships(x.caller)]
  /\ stage'  = [stage EXCEPT ![q] = "process"]
  /\ seen'   = [seen EXCEPT ![q] = Stored]
  /\ lagged' = [lagged EXCEPT ![q] = Unindexed]
  /\ UNCHANGED <<repositoryVars, left, reply>>

Answer(q, answer) ==
  /\ stage' = [stage EXCEPT ![q] = "succeeded"]
  /\ reply' = [reply EXCEPT ![q] = answer]
  /\ UNCHANGED <<repositoryVars, query, left, historyVars>>

(* Refused, or a store has failed: findAll, unlike existsByName, passes on the
   errors of its query. *)
Refuse(q) ==
  /\ stage' = [stage EXCEPT ![q] = "failed"]
  /\ reply' = [reply EXCEPT ![q] = {}]
  /\ UNCHANGED <<repositoryVars, query, left, historyVars>>

Abort(q) == stage[q] \in Running /\ Refuse(q)

-----------------------------------------------------------------------------
IsEqualsOrHigherThan(role, other) == Rank[role] >= Rank[other]

(* ApiKeyFilterBy that asks for a higher role than the key's. *)
ApiKeyFilterAbove(role) ==
  [k \in ApiKeys |-> IsHigherThan(role, k.role)]

(* A key whose role claim is missing or unknown would be shown to nobody, but
   ApiKeyBuilder gives every key a role. *)
ApiKeyFilterBy(role) ==
  [k \in ApiKeys |-> IsEqualsOrHigherThan(role, k.role)]

Info(id, o, user) ==
  [org |-> id, name |-> o.name,
   apiKeys |-> {k \in o.apiKeys : ApiKeyFilterBy(GetRole(o, user))[k]}]

(* An owner is a member: the first half of the check in the code is implied. *)
HasMemberAccess(o, user) == IsOwner(o, user) \/ IsMember(o, user)

GetOrganization(q) ==
  /\ stage[q] = "process"
  /\ query[q].op = "getOrganization"
  /\ LET id == query[q].org
         o  == FindById(id)
     IN IF o # NoOrg /\ HasMemberAccess(o, query[q].caller)
        THEN Answer(q, {Info(id, o, query[q].caller)})
        ELSE Refuse(q)

GetOrganizationMembers(q) ==
  /\ stage[q] = "process"
  /\ query[q].op = "getOrganizationMembers"
  /\ LET id == query[q].org
         o  == FindById(id)
     IN IF o # NoOrg /\ IsSuperUser(o, query[q].caller)
        THEN Answer(q, {[org |-> id, members |-> o.members]})
        ELSE Refuse(q)

(* FindAll over a part of the index only. *)
FindSome(q) ==
  /\ stage[q] = "process"
  /\ query[q].op = "getUserOrganizationsMembership"
  /\ stage' = [stage EXCEPT ![q] = "fetch"]
  /\ \E ids \in SUBSET indexed : left' = [left EXCEPT ![q] = ids]
  /\ UNCHANGED <<repositoryVars, query, reply, historyVars>>

(* The query scans the index, which may lag: no consistency is asked for. *)
FindAll(q) ==
  /\ stage[q] = "process"
  /\ query[q].op = "getUserOrganizationsMembership"
  /\ stage' = [stage EXCEPT ![q] = "fetch"]
  /\ left' = [left EXCEPT ![q] = indexed]
  /\ UNCHANGED <<repositoryVars, query, reply, historyVars>>

(* A row: the document as it is when it is fetched, if it is still there, and
   the filter and the map of GetUserOrganizationsMembership.process. *)
Fetch(q) ==
  /\ stage[q] = "fetch"
  /\ \E id \in left[q] :
       /\ left' = [left EXCEPT ![q] = @ \ {id}]
       /\ reply' = [reply EXCEPT ![q] =
            @ \cup {Info(i, docs[i], query[q].caller) :
                      i \in {id} \cap Memberships(query[q].caller)}]
  /\ UNCHANGED <<repositoryVars, stage, query, historyVars>>

GetUserOrganizationsMembership(q) ==
  /\ stage[q] = "fetch"
  /\ left[q] = {}
  /\ Answer(q, reply[q])

-----------------------------------------------------------------------------
(* All the queries have been answered and nothing changes any more. *)
Idle ==
  /\ \A q \in Readers : stage[q] \in {"succeeded", "failed"}
  /\ UNCHANGED vars

Next ==
  \/ \E c \in Workload : BeChanged(c)
  \/ \E id \in OrgIds : CatchUp(id)
  \/ \E q \in Readers :
       \/ Ask(q) \/ GetOrganization(q) \/ GetOrganizationMembers(q)
       \/ FindAll(q) \/ Fetch(q) \/ GetUserOrganizationsMembership(q)
       \/ Abort(q)
  \/ Idle

Spec == Init /\ [][Next]_vars
-----------------------------------------------------------------------------
Infos == [org : OrgIds, name : Names, apiKeys : SUBSET ApiKeys]
MemberLists == [org : OrgIds, members : [Users -> Roles \cup {NoRole}]]

(* Every variable has its type. *)
QueriesTypeOK ==
  /\ RepositoryTypeOK
  /\ stage \in [Readers -> Running \cup {"idle", "succeeded", "failed"}]
  /\ query \in [Readers -> Queries \cup {NoQuery}]
  /\ left \in [Readers -> SUBSET OrgIds]
  /\ reply \in [Readers -> SUBSET (Infos \cup MemberLists)]
  /\ seen \in [Readers -> SUBSET [org : OrgIds, o : Organizations]]
  /\ steady \in [Readers -> SUBSET OrgIds]
  /\ lagged \in [Readers -> SUBSET OrgIds]

(* The keys getOrganization.apidoc:10-13 promises to a role: all of them to an
   owner, those of admins and members to an admin, those of members to a member. *)
PromisedKeys(o, role) ==
  {k \in o.apiKeys : \/ role = "Owner"
                     \/ role = "Admin" /\ k.role \in {"Admin", "Member"}
                     \/ role = "Member" /\ k.role = "Member"}

(* Whatever changes while a query runs, each part of its reply is one
   organization as it was stored at some moment of the query, with the caller
   entitled to it at that same moment: a role of one version never opens the
   keys of another (process of the three queries; apiKeyFilterBy). *)
RepliesAreEntitled ==
  \A q \in Readers : \A part \in reply[q] :
    \E s \in seen[q] :
      LET role == GetRole(s.o, query[q].caller) IN
      /\ part.org = s.org
      /\ IF query[q].op = "getOrganizationMembers"
         THEN role \in {"Owner", "Admin"} /\ part.members = s.o.members
         ELSE /\ role \in Roles
              /\ part.name = s.o.name
              /\ part.apiKeys = PromisedKeys(s.o, role)

Listed(q) == {part.org : part \in reply[q]}

IsMembershipReply(q) ==
  stage[q] = "succeeded" /\ query[q].op = "getUserOrganizationsMembership"

(* An organization the caller belongs to from before the query until after it
   is listed, unless the index did not have it at some moment: the fetches miss
   nothing, in whatever order and beside whatever changes they are made
   (CouchbaseRepository.findAll, GetUserOrganizationsMembership.process). *)
MissedOnlyByLag ==
  \A q \in Readers : IsMembershipReply(q) => steady[q] \ lagged[q] \subseteq Listed(q)
=============================================================================
