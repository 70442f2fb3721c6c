--------------------------- MODULE PublicKeyCache ---------------------------
(***************************************************************************)
(* Auth0PublicKeyProvider: the public keys that tokens are verified with,  *)
(* fetched from the issuer once and kept in a HashMap that all the threads *)
(* of the service share and nobody synchronises.                           *)
(*                                                                         *)
(* getPublicKey is                                                         *)
(*    cache.computeIfAbsent(kid, key -> get(issuer, kid));                 *)
(*    return cache.get(kid);                                               *)
(* Both are followed through the HashMap of Java 8, which the service runs *)
(* on, one access to what the threads share a step: the fields of the map, *)
(* the slots of its tables and the links of its nodes.  A step sees what   *)
(* the steps before it have written; reordering by the memory model of     *)
(* Java is left out.                                                       *)
(*                                                                         *)
(* Nodes and tables are numbered in the order of their allocation; 0 is    *)
(* null.  A value is always the key the issuer gives for the key id, so a  *)
(* node is its key id and its link.                                        *)
(***************************************************************************)
EXTENDS Integers, Sequences, FiniteSets

CONSTANTS
  Verifications,    \* executions of TokenVerifierImpl.verify, one thread each
  KeyIds,           \* "kid" headers of the tokens they verify
  Hash,             \* hash of each key id
  BitAnd(_, _),     \* the operator & of Java
  InitialCapacity,  \* length of the first table (16 in Java 8)
  MaxCapacity,      \* bound: tables longer than this are not allocated
  MaxChain,         \* bound: a chain of this length would become a tree (8 in Java 8)
  Workloads         \* the map found, as [capacity, fill], and the key ids of the tokens

ASSUME HashAssumption == Hash \in [KeyIds -> Nat]

ASSUME CapacityAssumption ==
  /\ InitialCapacity \in Nat /\ InitialCapacity >= 2
  /\ MaxCapacity \in Nat /\ MaxCapacity >= InitialCapacity

ASSUME AndAssumption ==
  \A n \in 1..MaxCapacity : \A k \in KeyIds : BitAnd(n - 1, Hash[k]) \in 0..(n - 1)

NoKeyId == "none"

(* The first table is the one a single thread allocates, or the last of several
   that raced for it.  What was put fits into it.  A token may have no key id. *)
ASSUME WorkloadAssumption ==
  \A load \in Workloads :
    /\ load.capacity \in {InitialCapacity, (3 * InitialCapacity) \div 4}
    /\ load.fill \in Seq(KeyIds) /\ Len(load.fill) <= (3 * load.capacity) \div 4 + 1
    /\ load.kids \in [Verifications -> KeyIds \cup {NoKeyId}]

VARIABLES
  key, next,     \* key id and link of every node
  length, slot,  \* length and slots of every table
  table,         \* the field HashMap.table
  threshold,     \* the field HashMap.threshold
  size,          \* the field HashMap.size
  pc,            \* stage of each verification
  kid,           \* the key id of its token
  tab,           \* the table it works on
  number,        \* the size or threshold it has read
  at,            \* the node it is at
  first,         \* the first node of the chain it looks through
  walked,        \* the nodes of that chain it has passed, or put there
  old,           \* the table it moves nodes from
  bucket,        \* the slot of that table it is at
  ahead,         \* the node after the one it is at
  head, tail,    \* both ends of the two chains it makes of that slot
  disturbed      \* history: another thread has written to tables or links meanwhile

nodeVars == <<key, next>>
tableVars == <<length, slot>>
fieldVars == <<table, threshold, size>>
searchVars == <<kid, tab, number, at, first, walked>>
moveVars == <<old, bucket, ahead, head, tail>>
vars == <<nodeVars, tableVars, fieldVars, pc, searchVars, moveVars, disturbed>>

Halves == {"low", "high"}
NoNodes == [h \in Halves |-> 0]

Index(t, k) == BitAnd(length[t] - 1, Hash[k])

Searching == {"lookup", "walk", "fetch", "insert", "count", "counted",
              "get", "getFirst", "getWalk"}

Moving == {"take", "clear", "single", "place", "split", "link",
           "endLow", "putLow", "endHigh", "putHigh"}

InMap == {"size", "threshold", "table",
          "oldTable", "oldThreshold", "newThreshold", "newTable"}
           \cup Moving \cup Searching

Answered == {"verified", "refused", "failed"}

Stages == {"idle"} \cup InMap \cup Answered

-----------------------------------------------------------------------------
(* The newest of some nodes. *)
Newest(S) ==
  IF \E n \in S : \A m \in S : m <= n
  THEN CHOOSE n \in S : \A m \in S : m <= n
  ELSE 0

(* The map as one thread leaves it that has put the keys of "fill" in turn into a
   table of the capacity given. *)
Filled(capacity, fill) ==
  LET slotOf(n) == BitAnd(capacity - 1, Hash[fill[n]])
      used == fill # << >>
  IN /\ key = fill
     /\ next = [n \in DOMAIN fill |-> Newest({m \in 1..(n - 1) : slotOf(m) = slotOf(n)})]
     /\ length = IF used THEN <<capacity>> ELSE << >>
     /\ slot = IF used
               THEN <<[i \in 0..(capacity - 1) |-> Newest({n \in DOMAIN fill : slotOf(n) = i})]>>
               ELSE << >>
     /\ table = Len(length)
     /\ threshold = IF used THEN (3 * capacity) \div 4 ELSE 0
     /\ size = Len(fill)

Init ==
  /\ \E load \in Workloads : Filled(load.capacity, load.fill) /\ kid = load.kids
  /\ pc = [v \in Verifications |-> "idle"]
  /\ tab = [v \in Verifications |-> 0]
  /\ number = [v \in Verifications |-> 0]
  /\ at = [v \in Verifications |-> 0]
  /\ first = [v \in Verifications |-> 0]
  /\ walked = [v \in Verifications |-> {}]
  /\ old = [v \in Verifications |-> 0]
  /\ bucket = [v \in Verifications |-> 0]
  /\ ahead = [v \in Verifications |-> 0]
  /\ head = [v \in Verifications |-> NoNodes]
  /\ tail = [v \in Verifications |-> NoNodes]
  /\ disturbed = [v \in Verifications |-> FALSE]

Continue(v, stage) == pc' = [pc EXCEPT ![v] = stage]

(* v writes to a table or a link, or replaces the table. *)
Disturb(v) ==
  disturbed' = [w \in Verifications |-> disturbed[w] \/ (w # v /\ pc[w] \in InMap)]

Write(v, t, i, n) ==
  /\ slot' = [slot EXCEPT ![t][i] = n]
  /\ Disturb(v)

(* A token comes in.  One that cannot be parsed or has no key id goes no
   further. *)
Verify(v) ==
  /\ pc[v] = "idle"
  /\ Continue(v, IF kid[v] = NoKeyId THEN "failed" ELSE "size")
  /\ UNCHANGED <<nodeVars, tableVars, fieldVars, searchVars, moveVars, disturbed>>

-----------------------------------------------------------------------------
(* computeIfAbsent: if (size > threshold || (tab = table) == null) resize() *)

ReadSize(v) ==
  /\ pc[v] = "size"
  /\ number' = [number EXCEPT ![v] = size]
  /\ Continue(v, "threshold")
  /\ UNCHANGED <<nodeVars, tableVars, fieldVars, kid, tab, at, first, walked,
                 moveVars, disturbed>>

ReadThreshold(v) ==
  /\ pc[v] = "threshold"
  /\ Continue(v, IF number[v] > threshold THEN "oldTable" ELSE "table")
  /\ UNCHANGED <<nodeVars, tableVars, fieldVars, searchVars, moveVars, disturbed>>

ReadTable(v) ==
  /\ pc[v] = "table"
  /\ tab' = [tab EXCEPT ![v] = table]
  /\ Continue(v, IF table = 0 THEN "oldTable" ELSE "lookup")
  /\ UNCHANGED <<nodeVars, tableVars, fieldVars, kid, number, at, first, walked,
                 moveVars, disturbed>>

-----------------------------------------------------------------------------
(* resize *)

ReadOldTable(v) ==
  /\ pc[v] = "oldTable"
  /\ old' = [old EXCEPT ![v] = table]
  /\ Continue(v, "oldThreshold")
  /\ UNCHANGED <<nodeVars, tableVars, fieldVars, searchVars,
                 bucket, ahead, head, tail, disturbed>>

ReadOldThreshold(v) ==
  /\ pc[v] = "oldThreshold"
  /\ number' = [number EXCEPT ![v] = threshold]
  /\ Continue(v, "newThreshold")
  /\ UNCHANGED <<nodeVars, tableVars, fieldVars, kid, tab, at, first, walked,
                 moveVars, disturbed>>

(* Without a table, the threshold is taken for the capacity the map was created
   with: one that another first fill has just set, too. *)
NewCapacity(v) ==
  IF old[v] # 0 THEN 2 * length[old[v]]
  ELSE IF number[v] > 0 THEN number[v]
  ELSE InitialCapacity

NewThreshold(v) ==
  IF old[v] # 0 /\ length[old[v]] >= InitialCapacity /\ number[v] > 0
  THEN 2 * number[v]
  ELSE (3 * NewCapacity(v)) \div 4

SetThreshold(v) ==
  /\ pc[v] = "newThreshold"
  /\ NewCapacity(v) <= MaxCapacity
  /\ threshold' = NewThreshold(v)
  /\ Continue(v, "newTable")
  /\ UNCHANGED <<nodeVars, tableVars, table, size, searchVars, moveVars, disturbed>>

(* SetTable that hands out the new table without installing it. *)
SetTableLocally(v) ==
  /\ pc[v] = "newTable"
  /\ length' = Append(length, NewCapacity(v))
  /\ slot' = Append(slot, [i \in 0..(NewCapacity(v) - 1) |-> 0])
  /\ tab' = [tab EXCEPT ![v] = Len(length) + 1]
  /\ bucket' = [bucket EXCEPT ![v] = 0]
  /\ Continue(v, IF old[v] = 0 THEN "lookup" ELSE "take")
  /\ Disturb(v)
  /\ UNCHANGED <<nodeVars, fieldVars, kid, number, at, first, walked,
                 old, ahead, head, tail>>

(* The new table is installed before anything has been moved into it. *)
SetTable(v) ==
  /\ pc[v] = "newTable"
  /\ length' = Append(length, NewCapacity(v))
  /\ slot' = Append(slot, [i \in 0..(NewCapacity(v) - 1) |-> 0])
  /\ table' = Len(length) + 1
  /\ tab' = [tab EXCEPT ![v] = Len(length) + 1]
  /\ bucket' = [bucket EXCEPT ![v] = 0]
  /\ Continue(v, IF old[v] = 0 THEN "lookup" ELSE "take")
  /\ Disturb(v)
  /\ UNCHANGED <<nodeVars, threshold, size, kid, number, at, first, walked,
                 old, ahead, head, tail>>

-----------------------------------------------------------------------------
(* resize: for (int j = 0; j < oldCap; ++j) ... *)

(* NextBucket that goes by the length of the new table. *)
NextBucketOfNew(v) ==
  /\ bucket' = [bucket EXCEPT ![v] = @ + 1]
  /\ Continue(v, IF bucket[v] + 1 < length[tab[v]] THEN "take" ELSE "lookup")

NextBucket(v) ==
  /\ bucket' = [bucket EXCEPT ![v] = @ + 1]
  /\ Continue(v, IF bucket[v] + 1 < length[old[v]] THEN "take" ELSE "lookup")

Take(v) ==
  /\ pc[v] = "take"
  /\ at' = [at EXCEPT ![v] = slot[old[v]][bucket[v]]]
  /\ IF at'[v] = 0
     THEN NextBucket(v)
     ELSE Continue(v, "clear") /\ UNCHANGED bucket
  /\ UNCHANGED <<nodeVars, tableVars, fieldVars, kid, tab, number, first, walked,
                 old, ahead, head, tail, disturbed>>

Clear(v) ==
  /\ pc[v] = "clear"
  /\ Write(v, old[v], bucket[v], 0)
  /\ Continue(v, "single")
  /\ UNCHANGED <<nodeVars, length, fieldVars, searchVars, moveVars>>

CheckSingle(v) ==
  /\ pc[v] = "single"
  /\ Continue(v, IF next[at[v]] = 0 THEN "place" ELSE "split")
  /\ head' = [head EXCEPT ![v] = NoNodes]
  /\ tail' = [tail EXCEPT ![v] = NoNodes]
  /\ UNCHANGED <<nodeVars, tableVars, fieldVars, searchVars,
                 old, bucket, ahead, disturbed>>

Place(v) ==
  /\ pc[v] = "place"
  /\ Write(v, tab[v], Index(tab[v], key[at[v]]), at[v])
  /\ NextBucket(v)
  /\ UNCHANGED <<nodeVars, length, fieldVars, searchVars, old, ahead, head, tail>>

ReadNext(v) ==
  /\ pc[v] = "split"
  /\ ahead' = [ahead EXCEPT ![v] = next[at[v]]]
  /\ Continue(v, "link")
  /\ UNCHANGED <<nodeVars, tableVars, fieldVars, searchVars,
                 old, bucket, head, tail, disturbed>>

HalfOf(v, n) ==
  IF BitAnd(Hash[key[n]], length[old[v]]) = 0 THEN "low" ELSE "high"

(* Link that puts the node in front of its chain, as Java 7 does. *)
LinkInFront(v) ==
  /\ pc[v] = "link"
  /\ LET h == HalfOf(v, at[v]) IN
     /\ next' = [next EXCEPT ![at[v]] = head[v][h]]
     /\ head' = [head EXCEPT ![v][h] = at[v]]
     /\ tail' = [tail EXCEPT ![v][h] = IF @ = 0 THEN at[v] ELSE @]
  /\ Disturb(v)
  /\ at' = [at EXCEPT ![v] = ahead[v]]
  /\ Continue(v, IF ahead[v] = 0 THEN "endLow" ELSE "split")
  /\ UNCHANGED <<key, tableVars, fieldVars, kid, tab, number, first, walked,
                 old, bucket, ahead>>

(* The node becomes the last of its half.  The nodes are those of the old chain:
   whoever looks through that, or has put it into another table, sees the links
   change. *)
Link(v) ==
  /\ pc[v] = "link"
  /\ LET h == HalfOf(v, at[v]) IN
     /\ tail' = [tail EXCEPT ![v][h] = at[v]]
     /\ IF tail[v][h] = 0
        THEN head' = [head EXCEPT ![v][h] = at[v]] /\ UNCHANGED <<next, disturbed>>
        ELSE next' = [next EXCEPT ![tail[v][h]] = at[v]] /\ Disturb(v) /\ UNCHANGED head
  /\ at' = [at EXCEPT ![v] = ahead[v]]
  /\ Continue(v, IF ahead[v] = 0 THEN "endLow" ELSE "split")
  /\ UNCHANGED <<key, tableVars, fieldVars, kid, tab, number, first, walked,
                 old, bucket, ahead>>

(* A half without nodes is passed over. *)
EndChain(v, h, put, otherwise) ==
  /\ IF tail[v][h] = 0
     THEN otherwise /\ UNCHANGED <<next, disturbed>>
     ELSE /\ next' = [next EXCEPT ![tail[v][h]] = 0]
          /\ Disturb(v)
          /\ Continue(v, put)
          /\ UNCHANGED bucket
  /\ UNCHANGED <<key, tableVars, fieldVars, searchVars, old, ahead, head, tail>>

EndLow(v) ==
  /\ pc[v] = "endLow"
  /\ EndChain(v, "low", "putLow", Continue(v, "endHigh") /\ UNCHANGED bucket)

PutLow(v) ==
  /\ pc[v] = "putLow"
  /\ Write(v, tab[v], bucket[v], head[v]["low"])
  /\ Continue(v, "endHigh")
  /\ UNCHANGED <<nodeVars, length, fieldVars, searchVars, moveVars>>

EndHigh(v) ==
  /\ pc[v] = "endHigh"
  /\ EndChain(v, "high", "putHigh", NextBucket(v))

PutHigh(v) ==
  /\ pc[v] = "putHigh"
  /\ Write(v, tab[v], bucket[v] + length[old[v]], head[v]["high"])
  /\ NextBucket(v)
  /\ UNCHANGED <<nodeVars, length, fieldVars, searchVars, old, ahead, head, tail>>

-----------------------------------------------------------------------------
(* computeIfAbsent: the key is looked for, and put in front when it is not there *)

Lookup(v) ==
  /\ pc[v] = "lookup"
  /\ LET n == slot[tab[v]][Index(tab[v], kid[v])] IN
     /\ first' = [first EXCEPT ![v] = n]
     /\ at' = [at EXCEPT ![v] = n]
     /\ Continue(v, IF n = 0 THEN "fetch" ELSE "walk")
  /\ walked' = [walked EXCEPT ![v] = {}]
  /\ UNCHANGED <<nodeVars, tableVars, fieldVars, kid, tab, number, moveVars, disturbed>>

Walk(v) ==
  /\ pc[v] = "walk"
  /\ walked' = [walked EXCEPT ![v] = @ \cup {at[v]}]
  /\ IF key[at[v]] = kid[v]
     THEN Continue(v, "get") /\ UNCHANGED at
     ELSE /\ at' = [at EXCEPT ![v] = next[at[v]]]
          /\ Continue(v, IF next[at[v]] = 0 THEN "fetch" ELSE "walk")
  /\ UNCHANGED <<nodeVars, tableVars, fieldVars, kid, tab, number, first,
                 moveVars, disturbed>>

(* Fetch that takes a failure for the answer null, which puts nothing either. *)
FetchOrNull(v) ==
  /\ pc[v] = "fetch"
  /\ \E stage \in {"insert", "get"} : Continue(v, stage)
  /\ UNCHANGED <<nodeVars, tableVars, fieldVars, searchVars, moveVars, disturbed>>

(* The issuer answers, or the function throws and nothing is put. *)
Fetch(v) ==
  /\ pc[v] = "fetch"
  /\ \E stage \in {"insert", "failed"} : Continue(v, stage)
  /\ UNCHANGED <<nodeVars, tableVars, fieldVars, searchVars, moveVars, disturbed>>

(* Whatever was put into the slot since it was read is dropped. *)
Insert(v) ==
  /\ pc[v] = "insert"
  /\ Cardinality(walked[v]) < MaxChain - 1
  /\ LET n == Len(key) + 1 IN
     /\ key' = Append(key, kid[v])
     /\ next' = Append(next, first[v])
     /\ Write(v, tab[v], Index(tab[v], kid[v]), n)
     /\ walked' = [walked EXCEPT ![v] = {n}]
  /\ Continue(v, "count")
  /\ UNCHANGED <<length, fieldVars, kid, tab, number, at, first, moveVars>>

(* ++size: increments of two threads may count as one. *)
ReadCount(v) ==
  /\ pc[v] = "count"
  /\ number' = [number EXCEPT ![v] = size]
  /\ Continue(v, "counted")
  /\ UNCHANGED <<nodeVars, tableVars, fieldVars, kid, tab, at, first, walked,
                 moveVars, disturbed>>

WriteCount(v) ==
  /\ pc[v] = "counted"
  /\ size' = number[v] + 1
  /\ Continue(v, "get")
  /\ UNCHANGED <<nodeVars, tableVars, table, threshold, searchVars, moveVars, disturbed>>

-----------------------------------------------------------------------------
(* get.  A null makes Mono.fromCallable empty, verify with it, and
   ServiceOperation.verifyToken refuse the token.  With a key the signature is
   checked, which involves nothing shared and is left out. *)

Get(v) ==
  /\ pc[v] = "get"
  /\ tab' = [tab EXCEPT ![v] = table]
  /\ Continue(v, "getFirst")
  /\ UNCHANGED <<nodeVars, tableVars, fieldVars, kid, number, at, first, walked,
                 moveVars, disturbed>>

GetFirst(v) ==
  /\ pc[v] = "getFirst"
  /\ LET n == slot[tab[v]][Index(tab[v], kid[v])] IN
     /\ at' = [at EXCEPT ![v] = n]
     /\ Continue(v, IF n = 0 THEN "refused" ELSE "getWalk")
  /\ UNCHANGED <<nodeVars, tableVars, fieldVars, kid, tab, number, first, walked,
                 moveVars, disturbed>>

GetWalk(v) ==
  /\ pc[v] = "getWalk"
  /\ IF key[at[v]] = kid[v]
     THEN Continue(v, "verified") /\ UNCHANGED at
     ELSE /\ at' = [at EXCEPT ![v] = next[at[v]]]
          /\ Continue(v, IF next[at[v]] = 0 THEN "refused" ELSE "getWalk")
  /\ UNCHANGED <<nodeVars, tableVars, fieldVars, kid, tab, number, first, walked,
                 moveVars, disturbed>>

(* All the tokens have been dealt with. *)
Idle ==
  /\ \A v \in Verifications : pc[v] \in Answered
  /\ UNCHANGED vars

Compute(v) ==
  \/ ReadSize(v) \/ ReadThreshold(v) \/ ReadTable(v)
  \/ Lookup(v) \/ Walk(v) \/ Fetch(v) \/ Insert(v) \/ ReadCount(v) \/ WriteCount(v)

Resize(v) ==
  \/ ReadOldTable(v) \/ ReadOldThreshold(v) \/ SetThreshold(v) \/ SetTable(v)
  \/ Take(v) \/ Clear(v) \/ CheckSingle(v) \/ Place(v) \/ ReadNext(v) \/ Link(v)
  \/ EndLow(v) \/ PutLow(v) \/ EndHigh(v) \/ PutHigh(v)

Next ==
  \/ \E v \in Verifications :
       \/ Verify(v) \/ Compute(v) \/ Resize(v)
       \/ Get(v) \/ GetFirst(v) \/ GetWalk(v)
  \/ Idle

Spec == Init /\ [][Next]_vars
-----------------------------------------------------------------------------
Nodes == 1..Len(key)
Tables == 1..Len(length)

(* The table in use is the last one allocated. *)
MapTypeOK ==
  /\ key \in Seq(KeyIds)
  /\ next \in Seq(Nat) /\ Len(next) = Len(key)
  /\ \A n \in Nodes : next[n] <= Len(key)
  /\ length \in Seq(1..MaxCapacity)
  /\ DOMAIN slot = Tables
  /\ \A t \in Tables : slot[t] \in [0..(length[t] - 1) -> 0..Len(key)]
  /\ table = Len(length) /\ threshold \in Nat /\ size \in Nat

LocalTypeOK ==
  /\ pc \in [Verifications -> Stages]
  /\ kid \in [Verifications -> KeyIds \cup {NoKeyId}]
  /\ tab \in [Verifications -> Nat] /\ number \in [Verifications -> Nat]
  /\ at \in [Verifications -> Nat] /\ first \in [Verifications -> Nat]
  /\ walked \in [Verifications -> SUBSET Nat]
  /\ old \in [Verifications -> Nat] /\ bucket \in [Verifications -> Nat]
  /\ ahead \in [Verifications -> Nat]
  /\ head \in [Verifications -> [Halves -> Nat]] /\ tail \in [Verifications -> [Halves -> Nat]]
  /\ disturbed \in [Verifications -> BOOLEAN]

(* What v moves is in a table of half the length of the one it works on. *)
Moves(v) ==
  /\ 0 < old[v] /\ length[tab[v]] = 2 * length[old[v]]
  /\ bucket[v] < length[old[v]]

(* v looks only at tables and nodes that exist. *)
Points(v) ==
  /\ pc[v] \in InMap => kid[v] \in KeyIds
  /\ tab[v] <= Len(length) /\ (pc[v] \in Moving \cup Searching => tab[v] # 0)
  /\ old[v] <= Len(length) /\ (pc[v] \in Moving => Moves(v))
  /\ pc[v] = "newTable" => NewCapacity(v) <= MaxCapacity
  /\ pc[v] \in {"clear", "single", "place", "split", "link", "walk", "getWalk"} => at[v] # 0
  /\ at[v] <= Len(key) /\ first[v] <= Len(key) /\ ahead[v] <= Len(key)
  /\ walked[v] \subseteq Nodes
  /\ \A h \in Halves : head[v][h] <= Len(key) /\ tail[v][h] <= Len(key)

(* Every variable has its type, and no thread looks outside a table or at a node
   that does not exist. *)
CacheTypeOK == MapTypeOK /\ LocalTypeOK /\ \A v \in Verifications : Points(v)

(* However the threads race, a link leads to a node that was put earlier, so the
   chains, which threads relink under each other, never close into a cycle and no
   thread walks one for ever (getPublicKey; in Java 7, where a growing table
   turned its chains round, threads did). *)
LinksLeadToOlderNodes == \A n \in Nodes : next[n] < n

FirstNode(v) == slot[tab[v]][Index(tab[v], kid[v])]

(* v has passed the nodes of its chain up to the one it is at, and none has its
   key. *)
Passed(v) ==
  /\ FirstNode(v) \in walked[v] \cup {at[v]}
  /\ \A n \in walked[v] : key[n] # kid[v] /\ next[n] \in walked[v] \cup {at[v]}

(* From the slot in the table in use the links lead to the key of v. *)
Found(v) ==
  /\ slot[table][Index(table, kid[v])] \in walked[v]
  /\ \A n \in walked[v] : key[n] = kid[v] \/ next[n] \in walked[v]

(* v works on the table in use, and the key it has found or put can be found. *)
Relies(v) ==
  /\ pc[v] \in (Moving \cup Searching) \ {"get"} => tab[v] = table
  /\ pc[v] = "walk" => Passed(v)
  /\ pc[v] \in {"count", "counted", "get", "getFirst", "getWalk"} => Found(v)
  /\ pc[v] = "getWalk" => at[v] \in walked[v]

(* Whatever earlier races have left in the map, a thread works on the table in
   use, and the key it has found or put stays there to be found, for as long as
   no other thread writes to the map (computeIfAbsent and get of getPublicKey). *)
CacheCoherent == \A v \in Verifications : ~disturbed[v] => Relies(v)

(* A token whose key the issuer knows is refused for want of a key only when
   another thread has written to a table or a link, or replaced the table, since
   this one entered the map.  So a race costs the tokens that are in it and no
   later one: entries it has lost, or left in slots they do not hash to, are
   fetched anew (getPublicKey). *)
RefusedOnlyWhenDisturbed ==
  \A v \in Verifications : pc[v] = "refused" => disturbed[v]

(* "Profile if token is verified or null in case its invalid token."
   (TokenVerifier.java:13): no token is invalid here. *)
ValidTokensAreNotRefused == \A v \in Verifications : pc[v] # "refused"
=============================================================================
