---------------------- MODULE OrganizationQueriesProofs ----------------------
(***************************************************************************)
(* Theorems about the queries, for all values of the constants.            *)
(***************************************************************************)
EXTENDS OrganizationQueries, ServiceOperationProofs, TLAPS

-----------------------------------------------------------------------------
(* The changes of the directory keep to the types. *)

LEMMA DirectoryPermits ==
  ASSUME NEW c \in Calls, NEW o, Directory!Permits(c, o),
         c.op \notin {"createOrganization", "deleteOrganization"}
  PROVE  Permits(c, o)
<1> USE DEF Permits, Directory!Permits, IsSuperUser, Directory!IsSuperUser,
            IsOwner, Directory!IsOwner, IsLastOwner, Directory!IsLastOwner,
            IsHigherThan, Directory!IsHigherThan, GetRole, Directory!GetRole,
            IsMember, Directory!IsMember, Rank, Directory!Rank,
            Roles, Directory!Roles, NoRole, Directory!NoRole
<1>1. CASE c.op \in {"updateOrganization", "deleteOrganizationApiKey"}
  BY <1>1
<1>2. CASE c.op = "leaveOrganization"
  BY <1>2 DEF MayLeave, Directory!MayLeave
<1>3. CASE c.op = "inviteMember"
  BY <1>3 DEF MayInvite, Directory!MayInvite
<1>4. CASE c.op = "kickoutMember"
  BY <1>4 DEF MayKickout, Directory!MayKickout
<1>5. CASE c.op = "updateOrganizationMemberRole"
  BY <1>5
<1>6. CASE c.op = "addOrganizationApiKey"
  BY <1>6 DEF MayAddApiKey, Directory!MayAddApiKey
<1> QED BY <1>1, <1>2, <1>3, <1>4, <1>5, <1>6, CallFields

LEMMA DirectoryEffect ==
  ASSUME NEW c \in Calls, NEW o, NEW keyId,
         c.op \notin {"createOrganization", "deleteOrganization"}
  PROVE  Directory!Effect(c, o, keyId) = Effect(c, o, keyId)
<1> USE DEF Effect, Directory!Effect
<1>1. CASE c.op = "updateOrganization"
  BY <1>1 DEF ChangeName, Directory!ChangeName
<1>2. CASE c.op \in {"leaveOrganization", "kickoutMember"}
  BY <1>2 DEF RemoveMember, Directory!RemoveMember, NoRole, Directory!NoRole
<1>3. CASE c.op = "inviteMember"
  BY <1>3 DEF AddMember, Directory!AddMember, IsMember, Directory!IsMember,
              NoRole, Directory!NoRole
<1>4. CASE c.op = "updateOrganizationMemberRole"
  BY <1>4 DEF UpdateMemberRole, Directory!UpdateMemberRole
<1>5. CASE c.op = "addOrganizationApiKey"
  BY <1>5 DEF AddApiKey, Directory!AddApiKey, BuildApiKey, Directory!BuildApiKey,
              NoRole, Directory!NoRole
<1>6. CASE c.op = "deleteOrganizationApiKey"
  BY <1>6 DEF RemoveApiKey, Directory!RemoveApiKey
<1> QED BY <1>1, <1>2, <1>3, <1>4, <1>5, <1>6, CallFields

LEMMA MutateType ==
  ASSUME RepositoryTypeOK, NEW c \in Calls, Mutate(c)
  PROVE  RepositoryTypeOK'
<1>1. c.org \in OrgIds
  BY CallFields
<1>2. CASE Directory!Create(c)
  <2>1. NewOrganization(c.name, c.caller) \in Organizations
    BY <1>2, CallFields, NewOrganizationType DEF Directory!Create
  <2>2. docs' = [docs EXCEPT ![c.org] = NewOrganization(c.name, c.caller)]
    BY <1>2 DEF Directory!Create, Directory!NewOrganization, NewOrganization,
                Directory!NoRole, NoRole
  <2> QED BY <1>1, <2>1, <2>2 DEF Mutate, RepositoryTypeOK
<1>3. CASE Directory!Change(c)
  <2>1. /\ c.op \notin {"createOrganization", "deleteOrganization"}
        /\ docs[c.org] \in Organizations /\ Permits(c, docs[c.org])
    BY <1>1, <1>3, DirectoryPermits DEF Directory!Change, RepositoryTypeOK
  <2>2. PICK keyId \in KeyIds : docs' = [docs EXCEPT ![c.org] = Effect(c, docs[c.org], keyId)]
    BY <1>3, <2>1, DirectoryEffect DEF Directory!Change
  <2>3. Effect(c, docs[c.org], keyId) \in Organizations
    BY <2>1, EffectType
  <2> QED BY <1>1, <2>2, <2>3 DEF Mutate, RepositoryTypeOK
<1>4. CASE Directory!Delete(c)
  BY <1>1, <1>4 DEF Directory!Delete, Mutate, RepositoryTypeOK
<1> QED BY <1>2, <1>3, <1>4 DEF Mutate

-----------------------------------------------------------------------------
(* What the answers are made of. *)

LEMMA InfoType ==
  ASSUME NEW id \in OrgIds, NEW o \in Organizations, NEW user
  PROVE  Info(id, o, user) \in Infos
BY OrganizationFields DEF Info, Infos

(* The filter on the rank shows a member the keys promised to the role. *)
LEMMA InfoIsPromised ==
  ASSUME NEW id \in OrgIds, NEW o \in Organizations, NEW user \in Users, IsMember(o, user)
  PROVE  /\ GetRole(o, user) \in Roles
         /\ Info(id, o, user).org = id
         /\ Info(id, o, user).name = o.name
         /\ Info(id, o, user).apiKeys = PromisedKeys(o, GetRole(o, user))
<1> DEFINE role == GetRole(o, user)
<1>1. role \in Roles
  BY OrganizationFields DEF IsMember, GetRole
<1>2. ASSUME NEW k \in o.apiKeys
      PROVE  ApiKeyFilterBy(role)[k] <=> \/ role = "Owner"
                                         \/ role = "Admin" /\ k.role \in {"Admin", "Member"}
                                         \/ role = "Member" /\ k.role = "Member"
  <2>1. k \in ApiKeys /\ k.role \in Roles
    BY OrganizationFields DEF ApiKeys
  <2>2. ApiKeyFilterBy(role)[k] <=> Rank[role] >= Rank[k.role]
    BY <2>1 DEF ApiKeyFilterBy, IsEqualsOrHigherThan
  <2> QED BY <1>1, <2>1, <2>2 DEF Roles, Rank
<1> QED BY <1>1, <1>2 DEF Info, PromisedKeys

-----------------------------------------------------------------------------
(* The invariant.  While a query runs, the histories hold what is stored now;
   "select *" has yet to fetch whatever it has not listed. *)
Observant(q) ==
  stage[q] \in Running =>
    /\ Stored \subseteq seen[q]
    /\ steady[q] \subseteq Memberships(query[q].caller)
    /\ Unindexed \subseteq lagged[q]

Complete(q) ==
  /\ stage[q] # "idle" => query[q] \in Queries
  /\ stage[q] = "idle" => reply[q] = {}
  /\ stage[q] = "fetch" =>
       /\ query[q].op = "getUserOrganizationsMembership"
       /\ steady[q] \ lagged[q] \subseteq Listed(q) \cup left[q]

IsEntitled(part, x, s) ==
  LET role == GetRole(s.o, x.caller) IN
  /\ part.org = s.org
  /\ IF x.op = "getOrganizationMembers"
     THEN role \in {"Owner", "Admin"} /\ part.members = s.o.members
     ELSE /\ role \in Roles
          /\ part.name = s.o.name
          /\ part.apiKeys = PromisedKeys(s.o, role)

Entitled(q) == \A part \in reply[q] : \E s \in seen[q] : IsEntitled(part, query[q], s)

Missed(q) == IsMembershipReply(q) => steady[q] \ lagged[q] \subseteq Listed(q)

Good(q) == Observant(q) /\ Complete(q) /\ Entitled(q) /\ Missed(q)

QueriesInv == QueriesTypeOK /\ \A q \in Readers : Good(q)

(* The fields of a query. *)
LEMMA QueryFields ==
  ASSUME NEW x \in Queries
  PROVE  /\ x.caller \in Users
         /\ x.op \in {"getOrganization", "getOrganizationMembers"} => x.org \in OrgIds
BY DEF Queries

LEMMA HistoryTypes ==
  ASSUME RepositoryTypeOK
  PROVE  /\ Stored \subseteq [org : OrgIds, o : Organizations]
         /\ Unindexed \subseteq OrgIds
         /\ \A user : Memberships(user) \subseteq OrgIds
BY DEF RepositoryTypeOK, Stored, Unindexed, Memberships

LEMMA QueriesInit == Init => QueriesInv
<1> SUFFICES ASSUME Init PROVE QueriesInv
  OBVIOUS
<1>1. docs \in [OrgIds -> Organizations \cup {NoOrg}]
  BY RepositoryAssumption DEF Init, RepositoryInit
<1>2. RepositoryTypeOK
  BY <1>1 DEF Init, RepositoryInit, RepositoryTypeOK
<1>3. QueriesTypeOK
  BY <1>2 DEF Init, QueriesTypeOK
<1>4. \A q \in Readers : Good(q)
  BY DEF Init, RepositoryInit, Good, Observant, Complete, Entitled, Missed, Running, IsMembershipReply
<1> QED BY <1>3, <1>4 DEF QueriesInv

(* The repository changes, and the queries in flight observe it. *)
LEMMA ChangesObserved ==
  ASSUME QueriesInv, RepositoryTypeOK', UNCHANGED queryVars, Observe
  PROVE  QueriesInv'
<1>1. UNCHANGED <<stage, query, left, reply>>
  BY DEF queryVars
<1>2. /\ Stored' \subseteq [org : OrgIds, o : Organizations]
      /\ Unindexed' \subseteq OrgIds
  BY DEF RepositoryTypeOK, Stored, Unindexed
<1>3. QueriesTypeOK'
  BY <1>1, <1>2 DEF QueriesInv, QueriesTypeOK, Observe
<1>4. ASSUME NEW q \in Readers PROVE Good(q)'
  <2>1. Good(q)
    BY DEF QueriesInv
  <2>2. CASE stage[q] \in Running
    <3>1. /\ seen'[q] = seen[q] \cup Stored'
          /\ steady'[q] = steady[q] \cap Memberships(query[q].caller)'
          /\ lagged'[q] = lagged[q] \cup Unindexed'
      BY <2>2 DEF Observe
    <3>2. Observant(q)'
      BY <3>1 DEF Observant
    <3>3. Complete(q)'
      BY <1>1, <2>1, <3>1 DEF Good, Complete, Listed
    <3>4. Entitled(q)'
      BY <1>1, <2>1, <3>1 DEF Good, Entitled, IsEntitled
    <3>5. Missed(q)'
      BY <1>1, <2>2 DEF Missed, IsMembershipReply, Running
    <3> QED BY <3>2, <3>3, <3>4, <3>5 DEF Good
  <2>3. CASE stage[q] \notin Running
    <3>1. UNCHANGED <<seen[q], steady[q], lagged[q]>>
      BY <2>3 DEF Observe
    <3> QED
      BY <1>1, <2>1, <2>3, <3>1
      DEF Good, Observant, Complete, Entitled, IsEntitled, Missed, Listed,
          IsMembershipReply
  <2> QED BY <2>2, <2>3
<1> QED BY <1>3, <1>4 DEF QueriesInv

(* A query moves: nothing else does. *)
LEMMA OneQueryMoves ==
  ASSUME QueriesInv, UNCHANGED repositoryVars, NEW q \in Readers,
         QueriesTypeOK', Good(q)',
         \A p \in Readers \ {q} :
           UNCHANGED <<stage[p], query[p], left[p], reply[p], seen[p], steady[p], lagged[p]>>
  PROVE  QueriesInv'
<1>1. ASSUME NEW p \in Readers \ {q} PROVE Good(p)'
  BY DEF QueriesInv, Good, Observant, Complete, Entitled, IsEntitled, Missed, Listed,
         IsMembershipReply, Stored, Unindexed, Memberships, repositoryVars
<1> QED BY <1>1 DEF QueriesInv

LEMMA AnswerGood ==
  ASSUME QueriesInv, NEW q \in Readers, NEW answer, Answer(q, answer),
         stage[q] \in Running,
         answer \subseteq Infos \cup MemberLists,
         \A part \in answer : \E s \in seen[q] : IsEntitled(part, query[q], s),
         query[q].op = "getUserOrganizationsMembership" =>
           steady[q] \ lagged[q] \subseteq {part.org : part \in answer}
  PROVE  QueriesInv'
<1>1. /\ stage' = [stage EXCEPT ![q] = "succeeded"]
      /\ reply' = [reply EXCEPT ![q] = answer]
      /\ UNCHANGED <<docs, cas, indexed, query, left, seen, steady, lagged>>
  BY DEF Answer, repositoryVars, historyVars
<1>2. QueriesTypeOK'
  BY <1>1 DEF QueriesInv, QueriesTypeOK, RepositoryTypeOK
<1>3. stage'[q] = "succeeded" /\ reply'[q] = answer
  BY <1>1 DEF QueriesInv, QueriesTypeOK
<1>4. Good(q)'
  BY <1>1, <1>3
  DEF QueriesInv, Good, Observant, Complete, Entitled, IsEntitled, Missed, Listed,
      IsMembershipReply, Running
<1>5. \A p \in Readers \ {q} :
        UNCHANGED <<stage[p], query[p], left[p], reply[p], seen[p], steady[p], lagged[p]>>
  BY <1>1 DEF QueriesInv, QueriesTypeOK
<1> QED BY <1>1, <1>2, <1>4, <1>5, OneQueryMoves DEF repositoryVars

LEMMA RefuseGood ==
  ASSUME QueriesInv, NEW q \in Readers, Refuse(q), stage[q] \in Running
  PROVE  QueriesInv'
<1>1. /\ stage' = [stage EXCEPT ![q] = "failed"]
      /\ reply' = [reply EXCEPT ![q] = {}]
      /\ UNCHANGED <<docs, cas, indexed, query, left, seen, steady, lagged>>
  BY DEF Refuse, repositoryVars, historyVars
<1>2. QueriesTypeOK'
  BY <1>1 DEF QueriesInv, QueriesTypeOK, RepositoryTypeOK
<1>3. stage'[q] = "failed" /\ reply'[q] = {}
  BY <1>1 DEF QueriesInv, QueriesTypeOK
<1>4. Good(q)'
  BY <1>1, <1>3
  DEF QueriesInv, Good, Observant, Complete, Entitled, Missed, IsMembershipReply, Running
<1>5. \A p \in Readers \ {q} :
        UNCHANGED <<stage[p], query[p], left[p], reply[p], seen[p], steady[p], lagged[p]>>
  BY <1>1 DEF QueriesInv, QueriesTypeOK
<1> QED BY <1>1, <1>2, <1>4, <1>5, OneQueryMoves DEF repositoryVars

(* The organization a running query finds is one it has seen. *)
LEMMA FoundIsSeen ==
  ASSUME QueriesInv, NEW q \in Readers, stage[q] \in Running,
         NEW id \in OrgIds, docs[id] # NoOrg
  PROVE  /\ [org |-> id, o |-> docs[id]] \in seen[q]
         /\ docs[id] \in Organizations
         /\ query[q] \in Queries
BY DEF QueriesInv, QueriesTypeOK, RepositoryTypeOK, Good, Observant, Complete, Stored,
       Running

LEMMA QueriesNext == QueriesInv /\ [Next]_vars => QueriesInv'
<1> SUFFICES ASSUME QueriesInv, [Next]_vars PROVE QueriesInv'
  OBVIOUS
<1>1. ASSUME NEW c \in Workload, BeChanged(c) PROVE QueriesInv'
  <2>1. RepositoryTypeOK'
    BY <1>1, MutateType, WorkloadAssumption DEF BeChanged, QueriesInv, QueriesTypeOK
  <2> QED BY <1>1, <2>1, ChangesObserved DEF BeChanged
<1>2. ASSUME NEW id \in OrgIds, CatchUp(id) PROVE QueriesInv'
  <2>1. RepositoryTypeOK'
    BY <1>2 DEF CatchUp, Reindex, QueriesInv, QueriesTypeOK, RepositoryTypeOK
  <2> QED BY <1>2, <2>1, ChangesObserved DEF CatchUp
<1>3. ASSUME NEW q \in Readers, Ask(q) PROVE QueriesInv'
  <2>1. PICK x \in Queries :
          /\ query' = [query EXCEPT ![q] = x]
          /\ steady' = [steady EXCEPT ![q] = Memberships(x.caller)]
    BY <1>3 DEF Ask
  <2>2. /\ stage' = [stage EXCEPT ![q] = "process"]
        /\ seen' = [seen EXCEPT ![q] = Stored]
        /\ lagged' = [lagged EXCEPT ![q] = Unindexed]
        /\ UNCHANGED <<docs, cas, indexed, left, reply>>
        /\ stage[q] = "idle"
    BY <1>3 DEF Ask, repositoryVars
  <2>3. QueriesTypeOK'
    BY <2>1, <2>2, HistoryTypes DEF QueriesInv, QueriesTypeOK, RepositoryTypeOK, Running
  <2>4. /\ stage'[q] = "process" /\ query'[q] = x /\ seen'[q] = Stored
        /\ steady'[q] = Memberships(x.caller) /\ lagged'[q] = Unindexed
        /\ reply'[q] = {}
    BY <2>1, <2>2 DEF QueriesInv, QueriesTypeOK, Good, Complete
  <2>5. Stored' = Stored /\ Unindexed' = Unindexed
    BY <2>2 DEF Stored, Unindexed
  <2>6. Memberships(query[q].caller)' = Memberships(x.caller)
    BY <2>2, <2>4 DEF Memberships
  <2>7. Good(q)'
    BY <2>4, <2>5, <2>6
    DEF Good, Observant, Complete, Entitled, Missed, IsMembershipReply
  <2>8. \A p \in Readers \ {q} :
          UNCHANGED <<stage[p], query[p], left[p], reply[p], seen[p], steady[p], lagged[p]>>
    BY <2>1, <2>2 DEF QueriesInv, QueriesTypeOK
  <2> QED BY <2>2, <2>3, <2>7, <2>8, OneQueryMoves DEF repositoryVars
<1>4. ASSUME NEW q \in Readers, GetOrganization(q) PROVE QueriesInv'
  <2> DEFINE id == query[q].org
             o  == docs[id]
             user == query[q].caller
  <2>1. CASE Refuse(q)
    BY <1>4, <2>1, RefuseGood DEF GetOrganization, Running
  <2>2. CASE /\ o # NoOrg /\ HasMemberAccess(o, user)
             /\ Answer(q, {Info(id, o, user)})
    <3>1. stage[q] \in Running /\ query[q].op = "getOrganization"
      BY <1>4 DEF GetOrganization, Running
    <3>2. query[q] \in Queries
      BY <1>4 DEF GetOrganization, QueriesInv, Good, Complete
    <3>3. id \in OrgIds /\ user \in Users
      BY <3>1, <3>2, QueryFields
    <3>4. o \in Organizations /\ [org |-> id, o |-> o] \in seen[q]
      BY <2>2, <3>1, <3>3, FoundIsSeen
    <3>5. IsMember(o, user)
      BY <2>2 DEF HasMemberAccess, IsOwner, IsMember, NoRole
    <3>6. Info(id, o, user) \in Infos
      BY <3>3, <3>4, InfoType
    <3>7. IsEntitled(Info(id, o, user), query[q], [org |-> id, o |-> o])
      BY <3>1, <3>3, <3>4, <3>5, InfoIsPromised DEF IsEntitled
    <3> QED BY <2>2, <3>1, <3>4, <3>6, <3>7, AnswerGood
  <2> QED BY <1>4, <2>1, <2>2 DEF GetOrganization, FindById
<1>5. ASSUME NEW q \in Readers, GetOrganizationMembers(q) PROVE QueriesInv'
  <2> DEFINE id == query[q].org
             o  == docs[id]
             user == query[q].caller
             part == [org |-> id, members |-> o.members]
  <2>1. CASE Refuse(q)
    BY <1>5, <2>1, RefuseGood DEF GetOrganizationMembers, Running
  <2>2. CASE o # NoOrg /\ IsSuperUser(o, user) /\ Answer(q, {part})
    <3>1. stage[q] \in Running /\ query[q].op = "getOrganizationMembers"
      BY <1>5 DEF GetOrganizationMembers, Running
    <3>2. query[q] \in Queries
      BY <1>5 DEF GetOrganizationMembers, QueriesInv, Good, Complete
    <3>3. id \in OrgIds /\ user \in Users
      BY <3>1, <3>2, QueryFields
    <3>4. o \in Organizations /\ [org |-> id, o |-> o] \in seen[q]
      BY <2>2, <3>1, <3>3, FoundIsSeen
    <3>5. part \in MemberLists
      BY <3>3, <3>4, OrganizationFields DEF MemberLists
    <3>6. IsEntitled(part, query[q], [org |-> id, o |-> o])
      BY <2>2, <3>1 DEF IsEntitled, IsSuperUser, IsOwner, GetRole
    <3> QED BY <2>2, <3>1, <3>4, <3>5, <3>6, AnswerGood
  <2> QED BY <1>5, <2>1, <2>2 DEF GetOrganizationMembers, FindById
<1>6. ASSUME NEW q \in Readers, FindAll(q) PROVE QueriesInv'
  <2>1. /\ stage[q] = "process" /\ query[q].op = "getUserOrganizationsMembership"
        /\ stage' = [stage EXCEPT ![q] = "fetch"]
        /\ left' = [left EXCEPT ![q] = indexed]
        /\ UNCHANGED <<docs, cas, indexed, query, reply, seen, steady, lagged>>
    BY <1>6 DEF FindAll, repositoryVars, historyVars
  <2>2. QueriesTypeOK'
    BY <2>1 DEF QueriesInv, QueriesTypeOK, RepositoryTypeOK, Running
  <2>3. stage'[q] = "fetch" /\ left'[q] = indexed
    BY <2>1 DEF QueriesInv, QueriesTypeOK
  <2>4. Good(q)
    BY DEF QueriesInv
  <2>5. steady[q] \ lagged[q] \subseteq indexed
    BY <2>1, <2>4 DEF Good, Observant, Running, Memberships, Unindexed
  <2>6. Stored' = Stored /\ Unindexed' = Unindexed
        /\ Memberships(query[q].caller)' = Memberships(query[q].caller)
    BY <2>1 DEF Stored, Unindexed, Memberships
  <2>7. Good(q)'
    BY <2>1, <2>3, <2>4, <2>5, <2>6
    DEF Good, Observant, Complete, Entitled, IsEntitled, Missed, IsMembershipReply,
        Running
  <2>8. \A p \in Readers \ {q} :
          UNCHANGED <<stage[p], query[p], left[p], reply[p], seen[p], steady[p], lagged[p]>>
    BY <2>1 DEF QueriesInv, QueriesTypeOK
  <2> QED BY <2>1, <2>2, <2>7, <2>8, OneQueryMoves DEF repositoryVars
<1>7. ASSUME NEW q \in Readers, Fetch(q) PROVE QueriesInv'
  <2> DEFINE user == query[q].caller
             row(id) == {Info(i, docs[i], user) : i \in {id} \cap Memberships(user)}
  <2>1. PICK id \in left[q] :
          /\ left' = [left EXCEPT ![q] = @ \ {id}]
          /\ reply' = [reply EXCEPT ![q] = @ \cup row(id)]
    BY <1>7 DEF Fetch
  <2>2. stage[q] = "fetch" /\ UNCHANGED <<docs, cas, indexed, stage, query, seen, steady, lagged>>
    BY <1>7 DEF Fetch, repositoryVars, historyVars
  <2>3. Good(q) /\ left[q] \subseteq OrgIds /\ stage[q] \in Running
    BY <2>2 DEF QueriesInv, QueriesTypeOK, Running
  <2>4. /\ query[q] \in Queries /\ user \in Users
        /\ query[q].op = "getUserOrganizationsMembership"
    BY <2>2, <2>3, QueryFields DEF Good, Complete
  <2>5. ASSUME NEW part \in row(id)
        PROVE  /\ id \in Memberships(user) /\ part = Info(id, docs[id], user)
               /\ part \in Infos /\ part.org = id
               /\ \E s \in seen[q] : IsEntitled(part, query[q], s)
    <3>1. id \in Memberships(user) /\ part = Info(id, docs[id], user)
      OBVIOUS
    <3>2. id \in OrgIds /\ docs[id] # NoOrg /\ IsMember(docs[id], user)
      BY <3>1 DEF Memberships
    <3>3. docs[id] \in Organizations /\ [org |-> id, o |-> docs[id]] \in seen[q]
      BY <2>3, <3>2, FoundIsSeen
    <3>4. part \in Infos
      BY <3>1, <3>2, <3>3, InfoType
    <3>5. part.org = id /\ IsEntitled(part, query[q], [org |-> id, o |-> docs[id]])
      BY <2>4, <3>1, <3>2, <3>3, InfoIsPromised DEF IsEntitled
    <3> QED BY <3>1, <3>3, <3>4, <3>5
  <2>6. reply'[q] = reply[q] \cup row(id) /\ left'[q] = left[q] \ {id}
    BY <2>1 DEF QueriesInv, QueriesTypeOK
  <2>7. QueriesTypeOK'
    BY <2>1, <2>2, <2>5 DEF QueriesInv, QueriesTypeOK, RepositoryTypeOK
  <2>8. Observant(q)' /\ Missed(q)'
    BY <2>2, <2>3
    DEF Good, Observant, Missed, IsMembershipReply, Stored, Unindexed, Memberships
  <2>9. Entitled(q)'
    BY <2>2, <2>3, <2>5, <2>6 DEF Good, Entitled, IsEntitled
  <2>10. Complete(q)'
    <3>1. ASSUME id \in steady[q] PROVE id \in Listed(q)'
      <4>1. id \in Memberships(user)
        BY <2>3, <3>1 DEF Good, Observant
      <4>2. Info(id, docs[id], user) \in row(id)
        BY <4>1
      <4> QED BY <2>5, <2>6, <4>2 DEF Listed
    <3>2. Listed(q) \subseteq Listed(q)'
      BY <2>6 DEF Listed
    <3> QED BY <2>2, <2>3, <2>6, <3>1, <3>2 DEF Good, Complete
  <2>11. \A p \in Readers \ {q} :
          UNCHANGED <<stage[p], query[p], left[p], reply[p], seen[p], steady[p], lagged[p]>>
    BY <2>1, <2>2 DEF QueriesInv, QueriesTypeOK
  <2>12. Good(q)'
    BY <2>8, <2>9, <2>10 DEF Good
  <2> QED BY <2>2, <2>7, <2>11, <2>12, OneQueryMoves DEF repositoryVars
<1>8. ASSUME NEW q \in Readers, GetUserOrganizationsMembership(q) PROVE QueriesInv'
  <2>1. stage[q] = "fetch" /\ left[q] = {} /\ Answer(q, reply[q])
    BY <1>8 DEF GetUserOrganizationsMembership
  <2>2. /\ reply[q] \subseteq Infos \cup MemberLists
        /\ \A part \in reply[q] : \E s \in seen[q] : IsEntitled(part, query[q], s)
        /\ steady[q] \ lagged[q] \subseteq {part.org : part \in reply[q]}
    BY <2>1 DEF QueriesInv, QueriesTypeOK, Good, Complete, Entitled, Listed
  <2> QED BY <2>1, <2>2, AnswerGood DEF Running
<1>9. ASSUME NEW q \in Readers, Abort(q) PROVE QueriesInv'
  BY <1>9, RefuseGood DEF Abort
<1>10. ASSUME UNCHANGED vars PROVE QueriesInv'
  BY <1>10
  DEF vars, QueriesInv, QueriesTypeOK, RepositoryTypeOK, Good, Observant, Complete,
      Entitled, IsEntitled, Missed, Listed, IsMembershipReply, Stored, Unindexed,
      Memberships
<1> QED
  BY <1>1, <1>2, <1>3, <1>4, <1>5, <1>6, <1>7, <1>8, <1>9, <1>10 DEF Next, Idle

(* A query changes nothing: all that happens to the bucket beside it is what
   OrganizationChanges says (the three queries save nothing). *)
THEOREM QueriesChangeNothing == Spec => ChangesSpec
<1>1. Init => RepositoryInit
  BY DEF Init
<1>2. [Next]_vars => [ChangesNext]_repositoryVars
  <2> SUFFICES ASSUME [Next]_vars PROVE ChangesNext \/ UNCHANGED repositoryVars
    OBVIOUS
  <2>1. ASSUME NEW c \in Workload, BeChanged(c) PROVE ChangesNext
    BY <2>1, WorkloadAssumption DEF BeChanged, ChangesNext
  <2>2. ASSUME NEW id \in OrgIds, CatchUp(id) PROVE ChangesNext
    BY <2>2 DEF CatchUp, ChangesNext
  <2>3. ASSUME NEW q \in Readers,
               \/ Ask(q) \/ GetOrganization(q) \/ GetOrganizationMembers(q)
               \/ FindAll(q) \/ Fetch(q) \/ GetUserOrganizationsMembership(q)
               \/ Abort(q)
        PROVE  UNCHANGED repositoryVars
    BY <2>3
    DEF Ask, GetOrganization, GetOrganizationMembers, FindAll, Fetch,
        GetUserOrganizationsMembership, Abort, Answer, Refuse
  <2>4. CASE UNCHANGED vars
    BY <2>4 DEF vars, repositoryVars
  <2> QED BY <2>1, <2>2, <2>3, <2>4 DEF Next, Idle
<1> QED BY <1>1, <1>2, PTL DEF Spec, ChangesSpec

LEMMA QueriesInductive == Spec => []QueriesInv
BY QueriesInit, QueriesNext, PTL DEF Spec

-----------------------------------------------------------------------------
(* The theorems. *)

(* Every variable keeps its type. *)
THEOREM QueriesTypeCorrect == Spec => []QueriesTypeOK
<1>1. QueriesInv => QueriesTypeOK
  BY DEF QueriesInv
<1> QED BY <1>1, QueriesInductive, PTL

(* Every part of a reply is one organization of one moment, with what the
   caller's role at that moment opens. *)
THEOREM RepliesEntitled == Spec => []RepliesAreEntitled
<1>1. QueriesInv => RepliesAreEntitled
  BY DEF QueriesInv, Good, Entitled, IsEntitled, RepliesAreEntitled
<1> QED BY <1>1, QueriesInductive, PTL

(* Who is a member all along finds the organization listed, unless the index
   lagged. *)
THEOREM NothingMissed == Spec => []MissedOnlyByLag
<1>1. QueriesInv => MissedOnlyByLag
  BY DEF QueriesInv, Good, Missed, MissedOnlyByLag
<1> QED BY <1>1, QueriesInductive, PTL
=============================================================================
