----------------------- MODULE OrganizationNamesProofs -----------------------
(***************************************************************************)
(* Theorems about the names of organizations, for all values of the        *)
(* constants.                                                              *)
(***************************************************************************)
EXTENDS OrganizationNames, OrganizationKeysProofs

(* Whoever bears a name has escaped every request that has found it free. *)
Covered(r) ==
  IsNamed(r) /\ pc[r] # "checkName" =>
    \A id \in OrgIds : Bears(docs[id], call[r].name) => id \in escaped[r]

NamesInv == \A r \in Requests : Covered(r)

(* The check overlooks all bearers of the name, or it does not pass: a bearer in
   the index would have been found. *)
LEMMA BearersOverlooked ==
  ASSUME NEW name, NEW id \in OrgIds, Bears(docs[id], name)
  PROVE  id \in Overlooked(name)
BY DEF Overlooked, ExistsByName, Bears

(* Every step of the history is a step of the service, or none. *)
LEMMA NamesStep ==
  ASSUME [NamesNext]_namesVars
  PROVE  [Next]_vars /\ (Remember \/ UNCHANGED <<vars, escaped>>)
BY DEF NamesNext, namesVars

(* Only the request that saves or removes an organization moves in that step. *)
LEMMA WritersMove ==
  ASSUME TypeInv, [Next]_vars, NEW r \in Requests, OthersAlone(r), docs' # docs
  PROVE  pc[r] \in {"save", "remove"}
<1>1. PICK w \in Requests : Commit(w) \/ (Remove(w) /\ CanDelete(call[w].org))
  BY WhoWrites
<1>2. CASE Commit(w)
  <2>1. pc[w] = "save" /\ pc'[w] # "save"
    BY <1>2 DEF Commit, Continue, Answered, TypeInv, TypeOK
  <2> QED BY <2>1 DEF OthersAlone
<1>3. CASE Remove(w) /\ CanDelete(call[w].org)
  <2>1. pc[w] = "remove" /\ pc'[w] # "remove"
    BY <1>3 DEF Remove, Continue, TypeInv, TypeOK
  <2> QED BY <2>1 DEF OthersAlone
<1> QED BY <1>1, <1>2, <1>3

(* A request that has looked its name up goes on to miss nobody. *)
LEMMA CoveredStays ==
  ASSUME TypeInv, Coherent, NamesInv, [Next]_vars, Remember, NEW q \in Requests
  PROVE  Covered(q)'
<1> SUFFICES ASSUME IsNamed(q)', pc'[q] # "checkName",
                    NEW id \in OrgIds, Bears(docs'[id], call'[q].name)
             PROVE  id \in escaped'[q]
  BY DEF Covered
<1>1. ASSUME IsNamed(q), call'[q] = call[q], pc[q] # "checkName"
      PROVE  id \in escaped'[q]
  <2>1. escaped'[q] = escaped[q] \cup Taking(call[q].name)
    BY <1>1 DEF Remember
  <2>2. CASE Bears(docs[id], call[q].name)
    BY <1>1, <2>1, <2>2 DEF NamesInv, Covered
  <2>3. CASE ~Bears(docs[id], call[q].name)
    BY <1>1, <2>1, <2>3 DEF Taking
  <2> QED BY <2>2, <2>3
<1>2. ASSUME IsNamed(q), call'[q] = call[q], pc[q] = "checkName", docs' = docs
      PROVE  id \in escaped'[q]
  <2>1. escaped'[q] = Overlooked(call[q].name)
    BY <1>2 DEF Remember
  <2> QED BY <1>2, <2>1, BearersOverlooked
<1>3. CASE \/ UNCHANGED <<docs, cas, pairs, requestVars>>
           \/ \E k \in KeyIds : LateStore(k) \/ LateDeletion(k)
  <2>1. UNCHANGED <<pc, call>>
    BY <1>3 DEF requestVars, LateStore, LateDeletion
  <2> QED BY <1>1, <2>1 DEF IsNamed
<1>4. ASSUME NEW r \in Requests, KeyStep(r), Receive(r) \/ Advance(r) \/ Abort(r)
      PROVE  id \in escaped'[q]
  <2> USE DEF KeyStep
  <2>1. CASE q # r
    <3>1. pc'[q] = pc[q] /\ call'[q] = call[q]
      BY <1>4, <2>1 DEF OthersAlone
    <3> QED BY <1>1, <3>1 DEF IsNamed
  <2>2. CASE q = r /\ pc[r] = "idle"
    <3>1. Receive(r)
      BY <1>4, <2>2
      DEF Advance, Abort, InFlight, Prepared, CheckName, ValidateRoleUpdate,
          ValidateApiKeyName, Validate, CreateOrganization, UpdateOrganization,
          DeleteOrganization, LeaveOrganization, InviteMember, KickoutMember,
          UpdateOrganizationMemberRole, AddOrganizationApiKey,
          DeleteOrganizationApiKey, Process, StorePair, DeletePair, Commit, Conflict,
          Remove, Purge, Purged
    <3>2. PICK c \in Workload : /\ call' = [call EXCEPT ![r] = c]
                               /\ pc' = [pc EXCEPT ![r] = FirstStage(c.op)]
      BY <3>1 DEF Receive
    <3>3. call'[q] = c /\ pc'[q] = FirstStage(c.op)
      BY <2>2, <3>2 DEF TypeInv, TypeOK
    <3> QED BY <3>3 DEF IsNamed, FirstStage
  <2>3. CASE q = r /\ pc[r] # "idle"
    <3>1. call'[q] = call[q] /\ pc[q] \notin Answered
      BY <1>4, <2>3 DEF MovesOn
    <3>2. IsNamed(q)
      BY <2>3, <3>1 DEF IsNamed, TypeInv, TypeOK, Stages
    <3>3. pc[q] = "checkName" => docs' = docs
      BY <1>4, <2>3, WritersMove
    <3> QED BY <1>1, <1>2, <3>1, <3>2, <3>3
  <2> QED BY <2>1, <2>2, <2>3
<1> QED BY <1>3, <1>4, StepsAreKeySteps

LEMMA NamesInductive == NamesSpec => [](TypeInv /\ Coherent /\ NamesInv)
<1>1. NamesInit => Init
  BY DEF NamesInit
<1>2. NamesInit => NamesInv
  BY DEF NamesInit, Init, NamesInv, Covered, IsNamed, InFlight, Prepared
<1>3. [NamesNext]_namesVars => [Next]_vars
  BY NamesStep
<1>4. TypeInv /\ Coherent /\ NamesInv /\ [NamesNext]_namesVars => NamesInv'
  <2> SUFFICES ASSUME TypeInv, Coherent, NamesInv, [NamesNext]_namesVars
               PROVE  NamesInv'
    OBVIOUS
  <2>1. CASE Remember
    BY <2>1, NamesStep, CoveredStays DEF NamesInv
  <2>2. CASE UNCHANGED <<vars, escaped>>
    BY <2>2 DEF vars, NamesInv, Covered, IsNamed
  <2> QED BY <2>1, <2>2, NamesStep
<1> QED
  BY <1>1, <1>2, <1>3, <1>4, TypeInit, CoherentInit, TypeNext, CoherentNext, PTL
  DEF NamesSpec

(* Only a change of name changes the name. *)
LEMMA EffectOnName ==
  ASSUME NEW c \in Calls, NEW o \in Organizations, NEW keyId,
         c.op \notin {"createOrganization", "deleteOrganization"},
         Effect(c, o, keyId).name # o.name
  PROVE  c.op = "updateOrganization" /\ Effect(c, o, keyId).name = c.name
BY CallFields
DEF Effect, ChangeName, RemoveMember, AddMember, UpdateMemberRole, AddApiKey,
    RemoveApiKey, Organizations

(* An organization takes the name of another only if that one has escaped the
   query that looked for the name. *)
THEOREM NamesProtected == NamesSpec => NameTakenTwiceOnlyIfEscaped
<1> DEFINE Takes(r, id, name) ==
             /\ \E op \in {"createOrganization", "updateOrganization"} : Commits(r, id, op)
             /\ call[r].name = name
             /\ \A other \in OrgIds : TakesNameOf(r, other) => other \in escaped[r]
           A == \A id \in OrgIds, name \in Names : id \in Taking(name) =>
                  \E r \in Requests : Takes(r, id, name)
<1>1. TypeInv /\ Coherent /\ NamesInv /\ [NamesNext]_namesVars => A
  <2> SUFFICES ASSUME TypeInv, Coherent, NamesInv, [NamesNext]_namesVars,
                      NEW id \in OrgIds, NEW name \in Names, id \in Taking(name)
               PROVE  \E r \in Requests : Takes(r, id, name)
    OBVIOUS
  <2>1. ~Bears(docs[id], name) /\ Bears(docs'[id], name)
    BY DEF Taking
  <2>2. PICK r \in Requests : Commit(r) \/ (Remove(r) /\ CanDelete(call[r].org))
    BY <2>1, NamesStep, WhoWrites
  <2> DEFINE c == call[r]
             o == docs[c.org]
  <2>3. CASE Remove(r) /\ CanDelete(c.org)
    BY <2>1, <2>3 DEF Remove, DeleteById, Bears, TypeInv, TypeOK, RepositoryTypeOK
  <2>4. CASE Commit(r)
    <3>1. /\ c \in Calls /\ c.org \in OrgIds /\ pc[r] = "save" /\ pc'[r] # "save"
          /\ docs' = [docs EXCEPT ![c.org] = entity[r]]
          /\ docs'[c.org] = entity[r]
      BY <2>4, CommitIsAtomic
    <3>2. id = c.org /\ \A other \in OrgIds : other # id => docs'[other] = docs[other]
      BY <2>1, <3>1 DEF TypeInv, TypeOK, RepositoryTypeOK
    <3>3. c.op \in {"createOrganization", "updateOrganization"} /\ c.name = name
      <4>1. CASE c.op = "createOrganization" /\ entity[r] = NewOrganization(c.name, c.caller)
        BY <2>1, <3>1, <3>2, <4>1 DEF NewOrganization, Bears
      <4>2. CASE /\ c.op \notin {"createOrganization", "deleteOrganization"}
                 /\ o \in Organizations /\ entity[r] = Effect(c, o, r)
        <5>1. o.name # name /\ Effect(c, o, r).name = name
          BY <2>1, <3>1, <3>2, <4>2, NoOrgAssumption DEF Bears
        <5> QED BY <3>1, <4>2, <5>1, EffectOnName
      <4> QED BY <2>4, <4>1, <4>2, CommitIsAtomic
    <3>4. ASSUME NEW other \in OrgIds, TakesNameOf(r, other)
          PROVE  other \in escaped[r]
      <4>1. Bears(docs[other], c.name)
        BY <3>2, <3>4 DEF TakesNameOf
      <4>2. IsNamed(r) /\ pc[r] # "checkName"
        BY <3>1, <3>3 DEF IsNamed, InFlight, Prepared
      <4> QED BY <4>1, <4>2 DEF NamesInv, Covered
    <3>5. Commits(r, id, c.op)
      BY <3>1, <3>2 DEF Commits
    <3>6. Takes(r, id, name)
      BY <3>3, <3>4, <3>5
    <3> QED BY <3>6
  <2> QED BY <2>2, <2>3, <2>4
<1>2. NamesSpec => [][A]_namesVars
  BY <1>1, NamesInductive, PTL DEF NamesSpec
<1> QED BY <1>2 DEF NameTakenTwiceOnlyIfEscaped

-----------------------------------------------------------------------------
(* Remembering changes nothing of the service, so that what is proved of the
   service holds of its specification with the history too: its invariant, that
   it implements the directory and the changes the queries meet, and that every
   step leads on. *)
THEOREM NamesAddNothing ==
  NamesSpec => /\ Spec
               /\ [](TypeOK /\ Coherent)
               /\ ImplementsDirectory
               /\ ChangesSpec
               /\ EveryStepLeadsOn
<1>1. NamesInit => Init
  BY DEF NamesInit
<1>2. [NamesNext]_namesVars => [Next]_vars
  BY NamesStep
<1>3. NamesSpec => Spec
  BY <1>1, <1>2, PTL DEF NamesSpec, Spec
<1> QED
  BY <1>3, TypeCorrect, Coherence, Refinement, ChangesMade, StepsLeadOn, PTL
=============================================================================
