# The organization service in TLA+

This directory specifies the core of scalecube-organization-service: what its
operations check and change, how they interleave over one Couchbase bucket and
one Vault key store, and what holds of the organizations and keys whatever the
interleaving. The modules are model-checked with TLC on small instances; all their
safety properties are also proved with TLAPS, for all values of the constants.

Paths below are relative to `src/scalecube-organization/src/main/java/io/scalecube/organization/`.

## The system

| Component | State | Operations | Made correct by |
|---|---|---|---|
| `domain/Organization`, `Role`, `OrganizationMember`, `ApiKey` | name, email, members with roles, API keys, version | constructor, changeName, addMember, removeMember, updateMemberRole, addApiKey, removeApiKey | a member has one role; adding twice changes nothing |
| `operation/ServiceOperation` and its subclasses | none of their own: each execution is a reactive pipeline `token -> validate -> process -> save` | the eleven operations | nobody acts above their rank; an owner remains; names are unique |
| `OrganizationServiceImpl` | the thread pool | one entry point per operation, `getPublicKey` | every request is answered once |
| `repository/couchbase` | one JSON document per organization with its CAS; a GSI index | get, insert, replace with CAS, remove without CAS, N1QL name query | no update is lost |
| `tokens/store/VaultKeyStore` | one key pair per key id | store, read, delete, each a series of tries | a listed key has its pair, a deleted one has none unless a late store wrote it again |
| `tokens/TokenVerifierImpl`, `Auth0PublicKeyProvider` | a map of public keys by key id | verify | a valid token is accepted, an invalid one refused |
| `jwt/WebToken`, `tokens/store/ApiKeyBuilder` | the setting of the time to live | build and sign the tokens of API keys | a key lives as long as was asked for |
| `IdGenerator` | none | draw ids | no organization is written over another |
| `server`, `config` | settings | open the bucket with retries, register the service | the service starts or fails |
| `fixtures` (test) | maps | in-memory repository and key store | behave like the real ones |

An operation runs on a thread of the pool until it calls Couchbase; it goes on when
the answer arrives. Nothing is locked. Operations meet in the bucket, where a
document read carries its CAS (`Entity.version`) to the `replace` that saves it, and
in the key store, which has no relation to the bucket but the key ids both hold.
What is hard here:

* two operations read the organization twice: `UpdateOrganizationMemberRole` and
  `AddOrganizationApiKey` check one read in `validate` and change another in `process`;
* `DeleteOrganization` removes the document without CAS and then deletes the key
  pairs of the organization it had read before;
* adding a key stores the pair before the document, deleting a key deletes the pair
  before the document; either second step may fail;
* the name of an organization is looked up by a query before it is taken, over an
  index that lags, and a query that fails counts as one that found nothing;
* a save may take effect although the caller is told it failed; no operation is
  tried again;
* a call of the key store, on the other hand, is tried again, over HTTP without a
  timeout: a try that failed may have been performed, and one that was given up may
  be performed later;
* the time to live of a key comes unchecked from settings that are loaded again every
  five minutes, and its sum with the clock is a Java `long`;
* the public keys that verify tokens are kept in a `HashMap` that nobody locks.

`PROJECT.json` lists every component and every hazard with its line.

## The modules

| Module | Models | State |
|---|---|---|
| `Organization` | the entity and the roles, as pure operators | - |
| `ServiceOperation` | the calls, the access checks (`Permits`) and the changes (`Effect`) of each operation | - |
| `CouchbaseRepository` | documents, CAS values, the query index | `docs`, `cas`, `indexed` |
| `KeyStore` | key pairs in Vault, with what late stores bring back | `pairs` |
| `OrganizationService` | the operations as concurrent pipelines over both stores | `pc`, `call`, `entity`, `version`, `doomed`, `checked` |
| `OrganizationDirectory` | the abstract service: atomic, authorised changes of a directory | `orgs` |
| `OrganizationChanges` | the abstract bucket: the directory's steps with the CAS they give and the index behind them | `docs`, `cas`, `indexed` |
| `ApiKeyLife` | the abstract life of a key: stored, listed once, destroyed, revived by a late store | `life`, `home` |
| `OrganizationServiceProperties` | the invariants, action properties, refinement, liveness, and the statements of the documents | - |
| `OrganizationNames` | `OrganizationService` with a history of what escapes the check of a name | `escaped` |
| `OrganizationQueries` | the three queries while organizations change | `stage`, `query`, `left`, `reply`, histories `seen`, `steady`, `lagged` |
| `KeyStoreCalls` | the abstract key store: what a caller may rely on, over a network | `pairs`, `request`, `effect`, `outcome` |
| `VaultKeyStore` | the calls of the key store as series of tries, and `getPublicKey` | `pairs`, `pc`, `request`, `retries`, `strays`, `effect`, history `late` |
| `WebToken` | how long the token of an API key lives | `clock`, `expiration`, `token` |
| `PublicKeyCache` | the shared `HashMap` of public keys, down to its nodes | `key`, `next`, `length`, `slot`, `table`, `threshold`, `size`, and per thread `pc`, `kid`, `tab`, `number`, `at`, `first`, `walked`, `old`, `bucket`, `ahead`, `head`, `tail`, history `disturbed` |
| `ServiceOperationProofs` | lemmas about checks and changes as pure operators | - |
| `OrganizationServiceProofs`, `OrganizationKeysProofs`, `OrganizationNamesProofs` | theorems about `OrganizationService`: types, coherence, refinement, roles; keys and pairs; names | - |
| `OrganizationQueriesProofs`, `PublicKeyCacheProofs`, `VaultKeyStoreProofs`, `WebTokenProofs` | theorems about the module of that name | - |
| `MCOrganizationService`, `MCOrganizationNames`, `MCOrganizationQueries`, `MCPublicKeyCache`, `MCVaultKeyStore` | instances for TLC | - |

`OrganizationService` EXTENDS the four modules above it in the table and is compared
with three abstract specifications: with `OrganizationDirectory`, instantiated with
`orgs <- docs`; with `OrganizationChanges`, over the bucket's own variables
(`ChangesMade`, a theorem only); and with `ApiKeyLife`, whose `life` and `home` are
computed from pairs, documents and the stages of the requests. `OrganizationQueries`
EXTENDS `OrganizationChanges`: the service implements it, so what a query meets is one
of its steps. `VaultKeyStore` EXTENDS the same `KeyStore` the operations call and is
compared with `KeyStoreCalls`, instantiated with the outcome of each call for its
`pc`. To `OrganizationService` a call of the key store is one step that happens, or
`Abort`; with `LateTries`, what a call has asked for may be done again, or for the
first time, at any moment after the call has ended (`LateStore`, `LateDeletion`). That
this is what the series of tries can do to the operations is the subject of
`VaultKeyStore`, whose strays it stands for. `PublicKeyCache` and `WebToken` stand
alone: all an operation sees of the one is a token that is refused, one of the reasons
of `Abort`, and nothing of the other.

### How state and actions correspond to the code

A *request* is one `ServiceOperation.execute`. `call[r]` is the request object with
the user id of the verified token; `entity[r]` and `version[r]` are the
`Organization` object the pipeline holds and its `Entity.version`; `doomed[r]` are the
key ids it still has to delete. `checked[r]` is a history variable: the CAS of the
document `validate` has read. `pc[r]` names the next stage:

| Stage | Code | Action |
|---|---|---|
| `checkName` | `OrganizationInfoOperation.validate`, `existsByName` | `CheckName` |
| `validate` | the reads of `UpdateOrganizationMemberRole.validate`, `AddOrganizationApiKey.validate` | `ValidateRoleUpdate`, `ValidateApiKeyName` |
| `process` | `process` from `getOrganization` to its first store call: `findById`, checks, change of the object in memory | one action per operation |
| `storePair`, `deletePair` | `keyStore.store`, `keyStore.delete` inside `doOnNext` | `StorePair`, `DeletePair` |
| `save` | `repository.save`: insert for version 0, replace with CAS otherwise | `Commit`, `Conflict` |
| `remove` | `repository.deleteById` | `Remove` |
| `purge` | `doOnSuccess` of `DeleteOrganization`, pair by pair; a call that throws ends it | `Purge`, `Purged` |
| after a key store call | a try of it that Vault performs late (`VaultKeyStore.store`, `delete`) | `LateStore`, `LateDeletion` |

A read of the document and the checks and changes that follow it in memory are one
step, since nobody else sees them; every call of a store that changes something is a
step of its own. A pair that was deleted and written again is `revived`, which the
properties tell from `stored`. `Abort` ends a request at any stage: a refused token or argument, a
failing store, a stopped instance. `Commit` followed by a lost answer is its
`"failed"` outcome; a removal or a key store call whose answer is lost is the step
followed by `Abort`. `CatchUp` is the index following the documents.

Abstractions: emails, tokens, the text of names and all replies are left out. Users,
names, key names and ids are members of sets; `Lower` gives the name
`equalsIgnoreCase` compares. A set of members that are equal by id is a function
from users to roles. A `UUID` key id is fresh: a request stands for the one it may
draw. The id of a new organization may be one in use. The primary index yields ids
and the predicate of the name query is evaluated on the documents fetched for them.

**Names.** `OrganizationNames` adds to every step of the service what the requests in
flight have not been told: when a request looks its name up, the ids that bear the
name but are not in the index, or all bearers if the query fails; afterwards, the ids
that take the name before the request saves.

**Queries.** `GetOrganization` and `GetOrganizationMembers` read one document and
answer. `FindAll` takes the ids from the index, `Fetch` is one row (fetch, filter,
`getOrganizationInfo`), `GetUserOrganizationsMembership` collects them. `BeChanged` (a
call of another operation takes effect) and `CatchUp` happen at any time between. `MaxChanges` bounds the writes of a document.

**Public keys.** A thread goes through `getPublicKey`, that is
`HashMap.computeIfAbsent` and `HashMap.get` of the Java 8 the `Dockerfile` names. Every
read or write of something the threads share is a step: the fields `table`,
`threshold` and `size`, the slots of every table that was ever allocated, and the link
of every node. Nodes and tables are numbered as they are allocated, 0 is null.

| `pc` | Code | Action |
|---|---|---|
| `size`, `threshold`, `table` | `size > threshold \|\| (tab = table) == null` | `ReadSize`, `ReadThreshold`, `ReadTable` |
| `oldTable`, `oldThreshold` | `resize`: `oldTab = table`, `oldThr = threshold` | `ReadOldTable`, `ReadOldThreshold` |
| `newThreshold`, `newTable` | `threshold = newThr`, allocate, `table = newTab` | `SetThreshold`, `SetTable` |
| `take`, `clear`, `single`, `place` | `e = oldTab[j]`, `oldTab[j] = null`, a node alone goes by its hash | `Take`, `Clear`, `CheckSingle`, `Place` |
| `split`, `link` | `next = e.next`; `loTail.next = e` or `hiTail.next = e` | `ReadNext`, `Link` |
| `endLow`, `putLow`, `endHigh`, `putHigh` | `loTail.next = null`, `newTab[j] = loHead`; the same for `hi` | `EndLow`, `PutLow`, `EndHigh`, `PutHigh` |
| `lookup`, `walk` | look for the key, node by node | `Lookup`, `Walk` |
| `fetch` | `Auth0PublicKeyProvider.get`: the request to the issuer, which may fail | `Fetch` |
| `insert` | a new node in front of the first one read before, in the table read before | `Insert` |
| `count`, `counted` | `++size`, read and write apart | `ReadCount`, `WriteCount` |
| `get`, `getFirst`, `getWalk` | `table` again, its slot, the chain; null refuses the token | `Get`, `GetFirst`, `GetWalk` |

So a first fill that reads the `threshold` of another first fill before that has
installed its table allocates twelve slots (three, where the first table has four), a
later split of such a table by `hash & oldCap` leaves nodes where nobody looks for
them, and a thread that splits a chain may cut nodes out of a chain of the table in
use. All of this happens in the model. `java.util.HashMap` is external and modelled
only as far as those two calls reach. `MaxChain` stops short of the trees Java makes
of chains of eight, `MaxCapacity` bounds the tables.

**Key store calls.** A caller goes through the loop of the Vault driver that
`VaultKeyStore.logical` configures (`withRetries`; the loop itself is external): it
makes a try, counts it if it fails, and throws the last error when the retries are
used up, which becomes a `KeyStoreException`:

| `pc` | Code | Action |
|---|---|---|
| `idle` | the call of `store`, `delete` or `getPublicKey` | `Store`, `Delete`, `GetPublicKey` |
| `sent` | the request is under way; Vault performs it | `Serve` |
| `served` | the answer is under way; it arrives, and a read decodes it | `Return` |
| `sent`, `served` | the try ends in a `VaultException` | `FailTry`: `TryAgain` or `ThrowKeyStoreException` |
| `sent`, `served` | the instance stops | `Stop` |
| any | a request whose try has been given up is performed after all | `Stray` |
| `succeeded`, `failed` | the call has returned or thrown | - |

A call stores a pair whose id no other call stores, since ids are UUIDs, and deletes
one whose store has returned, since only then a document lists it. `late` remembers
the ids a stray has written since they were last deleted.

**Life of a token.** `CreateToken` is `ApiKeyBuilder.build` with
`WebToken.createWebToken`, `Reload` the settings loaded again, `Tick` the clock. A
`long` has any width: `PlusLong` wraps around at `LongMax`, `InSeconds` drops the
milliseconds as the claim `exp` does, and no claim means no expiry.

Definitions preceded by a comment of the form "X without ..." or "X that ..." are
altered forms of X with a bug somebody might write; no specification uses them.
They show that the properties notice.

## What is checked

| Run | Instance | Properties |
|---|---|---|
| `membership` | 1 organization, 3 users, 2 requests, all membership calls with all roles, one of three initial staffs, one of them without owner | `OwnerlessStaysOwnerless`, `RolesChangedFromAbove`, `LastOwnerLostOnlyByRace` |
| `api_keys` | 1 organization with two keys, an owner and an admin, 3 requests that add or delete keys or the organization, or create it anew under the same id; the admin only adds a key; late tries | `ListedKeyWasStored`, `ListedKeyKilledByKeyDeletion`, `PurgeIsComplete`, `KeyNameTakenTwiceOnlyByRace`, `UnlistedKeyIsRevoked`, `ImplementsApiKeyLife`, `EveryStepLeadsOn` |
| `directory` | 2 organizations, 2 users, 2 names, 2 requests, all operations, failing name queries, fairness | `TypeOK`, `Coherent`, `ImplementsDirectory`, `NameTakenTwiceOnlyIfEscaped`, `EveryRequestIsAnswered` |
| `queries` | 2 organizations, 2 users, 1 query of any kind, at most 3 writes of each document, the one it starts with included, whose members and keys come and go | `QueriesTypeOK`, `RepliesAreEntitled`, `MissedOnlyByLag` |
| `vault` | 1 key pair, 3 calls of any kind, 2 retries each | `VaultTypeOK`, `StoredUntilDeleted`, `DeletedUnlessWrittenLate`, `KeepsContract`, `EveryTryLeadsOn` |
| `token` | all clocks and settings of a `long` of 5 bits, seconds of 4 milliseconds | `WebTokenTypeOK`, `LivesAsLongAsAsked` |
| `key_cache` | up to 3 threads, 4 keys, tables of 3 to 16 slots, in a map not used yet, one filled by racing threads or a full one | `CacheTypeOK`, `LinksLeadToOlderNodes`, `CacheCoherent`, `RefusedOnlyWhenDisturbed` |

Two requests are enough to put any stage of one operation between any two stages of
another, which is what every race of two reads, or of a read and a write, needs; the
run on keys has a third request, so that a race also happens next to a change that
is not part of it. Every request is executed once, so CAS values and the
state space are bounded without a further constraint. Requests are interchangeable:
the runs without liveness use that symmetry. A query only reads, so queries do not
disturb each other and one suffices; the changes left to each
document let a member be expelled and taken back, or demoted and a key be added,
while it runs. Calls of the key store meet only over the same pair, so one pair will
do, and three calls are what it takes to store it, delete it and read it or delete it
again; two retries let one stray of a call arrive before and another after a later
try. Five bits hold several seconds and every way a sum can wrap around. The first
table of the cache has 4 slots where Java's has 16, so that few keys make it grow. The
map is found in one of four states: not used yet, for three threads with one key or any
two; with the table of three slots a race for the first fill leaves, for three threads
or, one key fuller, for two that both grow it; and full with four, for two. All keys
share a slot, and growing parts them as it should, or, with three slots, does
not. No more than `MaxCapacity` 16 and `MaxChain` 8 is ever asked for: larger bounds give
the same states.

Tries of key store calls arrive late (`LateTries`) in the run `api_keys` only: the
others are about documents and names, or show what happens without them.

* **No lost update, nothing unauthorised** (`ImplementsDirectory`). Every change of the
  bucket is one step of `OrganizationDirectory`: a creation where nothing was, a
  change its maker is entitled to by the very document it replaces, or a removal.
  The directory leaves two steps unguarded, because the code does: changing a role,
  and deleting an organization.
* **What is known stays true** (`Coherent`). While a document has the CAS a request
  has read, the checks made hold of it and the object to be saved is this document
  with the call's change.
* **Owners** (`LastOwnerLostOnlyByRace`, `OwnerlessStaysOwnerless`) and **ranks**
  (`RolesChangedFromAbove`): the only way to lose the last owner, to get one back, or
  to act above one's rank is a change of role whose two reads differ.
* **Keys**: a listed key has had its pair from the start (`ListedKeyWasStored`); if it
  has lost it, a key deletion that did not come through is to blame, never the
  deletion of an organization (`ListedKeyKilledByKeyDeletion`); a deletion answered
  with success has deleted the pairs of all the keys it had read
  (`PurgeIsComplete`); a key leaves the list only when its pair has been deleted, unless
  names differ in case only (`UnlistedKeyIsRevoked`); in both cases a pair that is there
  again was written by a late store, and by nothing else; names are shared only after a race
  (`KeyNameTakenTwiceOnlyByRace`).
* **The life of a key** (`ImplementsApiKeyLife`): no step changes both stores, tries
  are performed late, and still a key is listed once and by one organization; it is on
  its way to the list with its pair or not at all; and nobody destroys a pair while the
  request that stored it is still on its way to the list. That is what `VaultKeyStore`
  takes for granted of its clients. A destroyed pair need not stay destroyed: a late
  store revives it (`Revive`), whether the key is listed or not, and a store whose
  call has failed may bring a pair into the world that no document will ever list
  (`MakeInVain`).
* **Nothing is done twice** (`EveryStepLeadsOn`, `EveryTryLeadsOn`). A request goes to a
  later stage with every step, or has one key less to delete, and the stores change
  only by such a step, or by what late tries repeat; a call of the key store
  has fewer steps left. No fairness is needed for this: whether a request is answered is
  then a matter of whether its steps come.
* **Names** (`NameTakenTwiceOnlyIfEscaped`): only a creation or an update takes a name,
  and only from an organization that was not there to be found by the query.
* **Queries**: every part of a reply is one organization as it was stored at one
  moment of the query, with just the keys the caller's role at that moment opens
  (`RepliesAreEntitled`); who is a member all along finds the organization listed,
  unless the index lagged (`MissedOnlyByLag`).
* **Public keys**: however the threads relink the nodes of each other's chains, a link
  leads to an older node, so no chain closes into a cycle and no thread walks one for
  ever (`LinksLeadToOlderNodes`), as threads did in Java 7. Whatever earlier races have
  left in the map, entries lost or left in slots they do not hash to, a thread that
  nobody writes to the map under works on the table in use and finds the key it has
  found or put (`CacheCoherent`), so only a thread that another one has written to a
  table or a link under, or whose table has been replaced, may refuse a valid token
  (`RefusedOnlyWhenDisturbed`).
* **Key store calls**: whatever becomes of the tries, a pair whose store has returned is
  there until somebody deletes it (`StoredUntilDeleted`); one whose deletion has
  returned is gone, unless a store request its client had given up arrives behind the
  deletion (`DeletedUnlessWrittenLate`); and a caller can rely on what `KeyStoreCalls`
  says (`KeepsContract`): a call that returns has taken effect, one that throws may
  have, a read tells what was there at one moment of the call.
* **Life of a token** (`LivesAsLongAsAsked`): an API key is accepted as long as the
  settings said when it was signed, to the second. A sum that wraps around never makes
  it expire early; it then never expires at all.
* **Liveness**: every request is answered (`EveryRequestIsAnswered`) as long as no
  call of Vault holds its thread for ever (`VaultComesBack`), under weak fairness of
  the steps of every request that do not wait for Vault: the pool of threads runs
  what can run, and the Couchbase client answers or times out each call. The condition
  on Vault is not the code's to keep: `AppConfiguration.java` (line 63) sets no
  timeouts, and the loop over the tries has none of its own. So a Vault that hangs
  holds a thread of the pool for ever. What `VaultKeyStore` says instead is that a call
  makes a bounded number of steps (`EveryTryLeadsOn`), not that they come. No fairness
  is assumed of requests arriving, of failures, of late tries or of the index.

Deadlock is checked in every run: the only state without a further step is the one
in which every request, query or verification has been answered (`Idle`).

### Where the code does not do what the documents say

| Run | Statement | What happens |
|---|---|---|
| `owner_lost` | at least one owner should be persisted (`updateOrganizationMemberRole.apidoc`) | `process` does not repeat the checks `validate` made on an earlier read |
| `key_name_twice` | names of API keys are unique (`addApiKey.apidoc`) | the name is looked up in one read and the key added to another |
| `key_outlives_organization` | the keys of a deleted organization become invalid (`deleteOrganization.apidoc`) | the key added after the read of `deleteOrganization` keeps its pair |
| `wrong_pair_deleted` | a terminated key gives no more rights (`deleteApiKey.apidoc`) | the pair is found ignoring case, the list entry with case |
| `token_refused` | null means an invalid token (`TokenVerifier.java`) | a key just put in the unsynchronised map is not found again |

Four more follow from the models and have no run of their own:

* an admin may downgrade an owner, which `UpdateOrganizationMemberRole.java` (lines
  18-19) excludes: the race of `owner_lost`, with a promotion between the two reads.
  `RolesChangedFromAbove` says that nothing else can do it;
* two organizations may share a name (`mpa-7657-Create-organization.feature`): the
  escapes `OrganizationNames` records are real, for want of any uniqueness in the bucket;
* an update that changes only the email is refused, although
  `updateOrganization.apidoc` (lines 8-9) calls name and email optional: the query
  finds the organization itself. `CheckName` shows it in one step;
* a new organization may be missing from its creator's list
  (`getMyOrganizations.apidoc`, line 8) until the index has caught up.

## What is proved

All invariants and action properties of the runs that pass are theorems, and so is
every refinement. Of the five statements the code does not keep, four are theorems
under the condition that the one cause named above stays away. The proofs use nothing but the named assumptions of the modules on
their constants. They hold for any number of users, organizations, keys, concurrent
requests, calls, retries and threads.

**The service** (`OrganizationServiceProofs`), from `LowerAssumption`,
`NoOrgAssumption`, `RequestsAssumption`, `WorkloadAssumption`,
`QueryFaultsAssumption`, `LateTriesAssumption`, `RepositoryAssumption` and `InitialDocsAssumption`. The last two
say that the organizations at the start are well-formed and that a key id is the id of
one key.

* `TypeCorrect`: `TypeOK` alone is not inductive, since `Commit` writes whatever the
  request holds; with `StagesMatch` (which operation may be at which stage, and that
  it holds an organization there) it is (`TypeNext`).
* `Coherence`: `Spec => []Coherent`. The inductive step (`CoherentNext`) rests on one
  observation: to all requests but the one that moves, a step either leaves their
  document alone or gives it a new CAS (`OthersKeepKnowing`).
* `LastOwnerProtected`, `RolesProtected`, `OwnerlessForGood`, `KeyNamesProtected`: the
  action properties about owners, ranks and names of keys. A commit applies one call
  to the organization as it is stored with the checks holding of it
  (`CommitIsAtomic`). What remains are facts about single calls, which
  `ServiceOperationProofs` states: if its checks hold, a call keeps an owner
  (`OwnersKept`), changes roles only from above (`ChangedFromAbove`), gives nobody the
  ownership of an organization without owner (`OwnerlessKept`).
* `Refinement`: `Spec => ImplementsDirectory`, and `ChangesMade`: `Spec => ChangesSpec`,
  that is, what the queries are checked beside is what the service does. Both rest on the same two lemmas, what a commit and what
  a removal is to the directory (`CommitIsDirectoryStep`, `RemoveIsDirectoryStep`).
* `StepsLeadOn`: `Spec => EveryStepLeadsOn`, from types alone: each action but a late try is
  that of one request and leaves the others where they are (`AdvanceGoesOn`).
* `OwnersWithoutRaces`, `KeyNamesWithoutRaces`: organizations keep an owner, and keys
  unique names, in every behaviour in which no change of role, or no new key, commits
  on another document than its checks were made on. They say that the races the runs
  `owner_lost` and `key_name_twice` show are the whole reason: to repeat the checks in
  `process` would be enough.

**Keys and pairs** (`OrganizationKeysProofs`): `ListedKeysStored`,
`OnlyKeyDeletionKills`, `PurgesAreComplete`, `UnlistedKeysRevoked`, `KeyLife`. The two stores are
never changed in one step, and a request may stop between any two. The invariant
(`KeysInv`) says what keeps them together all the same: the id of a key is drawn by one
request, which writes the pair before it lists the key, once; and a key is doomed only
after it has been listed, by a request that either takes the organization out of the
bucket first, or is to blame. Every action is first reduced to what it does to lists,
pairs and doomed keys (`KeyStep`), late tries among them, and then each part of the invariant follows without
looking at actions again. It needs `Coherent`: a document is replaced only by a request
that knows what is in it. `KeyLife` (`Spec => ImplementsApiKeyLife`) follows from the
same invariant: the id of a key that is neither stored nor destroyed is in no list, and
one request only is on its way to list it. `TerminationWithoutCase`: if no two names of
keys differ in case only, none is taken twice, and no late store revives a pair
(`NothingRevived`), a terminated key has lost its pair.

**Names** (`OrganizationNamesProofs`): `NamesProtected`. The invariant says that whoever
bears the name a request has found free is among those that escaped it.
`NamesAddNothing` says that the history hinders nothing: every behaviour of `NamesSpec`
is one of `Spec`, so that all theorems about the service hold of what the run
`directory` checks.

**Queries** (`OrganizationQueriesProofs`): `QueriesTypeCorrect`, `RepliesEntitled`,
`NothingMissed`, and `QueriesChangeNothing`: to the bucket, queries are not there
(`Spec => ChangesSpec`). With `ChangesMade` this closes the composition: the service and
the specification the queries are checked against meet in `ChangesSpec`. The invariant (`QueriesInv`) follows a query row by row: what has been
seen contains what is stored, every row answered so far was seen, and whoever has been
a member all along is among the rows still to come or those that have.

**Public keys** (`PublicKeyCacheProofs`), from `HashAssumption`, `CapacityAssumption`,
`AndAssumption` (an index is within its table) and `WorkloadAssumption` (the map found
is one a thread may have filled): `CacheTypeCorrect`, `ChainsEnd`, `CacheCoherence`,
`UndisturbedNotRefused`, `OneAtATime`. The invariant (`CacheInv`) is the types, the
order of the links, and what every thread nobody has disturbed relies on (`Relies`):
that it works on the table in use, that it has followed the chain without a gap
(`Passed`), and that from the slot of the table in use links lead to its key
(`Found`). The order of links is kept through every split since a thread takes nodes in
the order of the links it reads: what it appends is older than what it has appended
before. What a thread relies on is kept by its own steps one by one, and by those of
others for the reason that they disturb it or write to nothing it reads. Nothing is
assumed of what earlier races have left in the tables, so the theorems hold of maps
with misplaced and lost entries. `OneAtATime` says what a lock would do: while the
threads use the map one after the other, no valid token is refused.

**Key store calls** (`VaultKeyStoreProofs`), from `MaxRetriesAssumption`:
`VaultTypeCorrect`, `StoresKept`, `DeletesKept`, `ContractKept`, `TriesLeadOn`. The invariant
(`VaultInv`) says of every call what the server has made of it: one that came back
without an exception has been performed, and all that delete a pair began after the
one that stored it had returned. So only a stray can write a pair under deletion. The
refinement maps tries, retries and strays to steps of `KeyStoreCalls` or to none.
`TriesLeadOn` bounds the steps of a call by `2 * MaxRetries + 3`.

**Life of a token** (`WebTokenProofs`), from `LongMaxAssumption`, `SecondAssumption`,
`NullAssumption`: `WebTokenTypeCorrect`, `LifetimeKept`. The sum of a positive clock
and a time to live that is not negative is either exact or negative
(`SumIsExactOrNegative`), so the code's test for a positive sum is a test for overflow.

Only model-checked: the liveness property `EveryRequestIsAnswered`, since fairness and
ENABLED are beyond the prover used, and the violations. `StepsLeadOn` and `TriesLeadOn`
prove the half of liveness that needs neither: what goes on comes to an end. That it
goes on is what TLC checks. The fifth statement the code does not keep, that deleted
organizations lose their keys, is itself a liveness property.

## Not modelled

* `src/ApiDocs/_apidoc.js`: the only file of the language the repository is labelled
  with, almost 21 thousand lines, holds no code. It consists of the comments apidoc keeps as
  the history of earlier versions of the API documents. Everything the service does is
  in the Java sources, which the models are translated from.
* Signing and parsing tokens, the JSON mapping, the class an exception is translated to,
  logging, and the discovery of the service: pure computation, I/O or wiring without a
  state the operations share. The syntax of names is one reason of `Abort`.
* Start-up (`OrganizationServiceRunner`). What could go wrong is the deadline, and a sum
  answers it: three retries after at most 1.5, 3 and 6 s (backoff from 1 s with 50 %
  jitter), each opening the bucket for at most 5 s (the client's default), end after at most 25.5 s,
  before the 30 s. The first try runs on the thread that subscribes, before the
  deadline starts to count. These numbers are those of Reactor and the Couchbase client;
  a model would only repeat them.
* How long a call of Vault takes, and what a pool of threads that all wait for it does
  to other requests: nothing in the code bounds the one, and the size of the other is
  Reactor's.
* The login `VaultInvoker` repeats when Vault refuses its token: it repeats the series of
  tries once more, which shows nothing a larger `MaxRetries` does not.
* `KeyStore.getPrivateKey`, `WebToken.isValidToken` and the repository's `existsById`
  have no caller.
* A negative `token.expiration` means that keys never expire, like an absent one;
  `LivesAsLongAsAsked` is about the others. Nothing says whether this is meant.
* The memory model of Java: a thread may see the writes of another to the map late or
  out of order. What `token_refused` shows happens without that; what `key_cache` and the
  theorems about the map exclude is excluded for accesses in one order only. Nor are
  the trees that `HashMap` makes of chains of eight nodes, or the capacities from 2^30
  on.
* The test doubles. `InMemoryEntityRepository` hands out the stored object itself and
  knows no versions, so tests over it meet no conflicts and see changes that were never
  saved; `InMemoryKeyStore.delete` removes by value from a map of key ids, so it never
  deletes a pair. They limit what the tests can show and are not part of the program.

## Plan

Done: the operations and the directory they implement, the names, the queries, the
public keys, the key store calls and their contract, the life of a key and of a token,
proofs of all their safety properties, the composition of the service with the queries,
and what the documents say under the conditions it takes.

What is left is not worth a module, for the reasons above: start-up is a sum of
other projects' numbers, the in-memory repository is test code. A service that retried
its operations, or swept the pairs no document lists, would be the next thing to
model; the code does neither.
