------------------------ MODULE PublicKeyCacheProofs ------------------------
(***************************************************************************)
(* Proofs of the invariants of PublicKeyCache, for any number of threads   *)
(* and keys, any hashes and any capacity and contents of the map found.    *)
(***************************************************************************)
EXTENDS PublicKeyCache, TLAPS

Arrays == UNION {[0..(n - 1) -> Nat] : n \in 1..MaxCapacity}

(* CacheTypeOK says nothing of "slot" as a whole. *)
MapInv == slot \in Seq(Arrays) /\ MapTypeOK /\ LinksLeadToOlderNodes

(* The nodes v links are older than the one it links them to. *)
Links(v) ==
  /\ pc[v] \in {"split", "link"} =>
       \A h \in Halves : tail[v][h] = 0 \/ at[v] < tail[v][h]
  /\ pc[v] = "link" => ahead[v] < at[v]

(* A step of one thread. *)
Step(v) ==
  Verify(v) \/ Compute(v) \/ Resize(v) \/ Get(v) \/ GetFirst(v) \/ GetWalk(v)

(* Nodes and tables are added, and keep their keys and lengths. *)
MapGrows ==
  /\ Len(key) <= Len(key') /\ \A n \in Nodes : key'[n] = key[n]
  /\ Len(length) <= Len(length') /\ \A t \in Tables : length'[t] = length[t]

-----------------------------------------------------------------------------
(* The map *)

(* The slots and links that do not change keep their types. *)
LEMMA MapStays ==
  ASSUME MapInv, UNCHANGED <<nodeVars, tableVars, table>>,
         threshold' \in Nat, size' \in Nat
  PROVE  MapInv' /\ MapGrows
  BY DEF MapInv, MapTypeOK, LinksLeadToOlderNodes, Nodes, Tables, nodeVars, tableVars,
         MapGrows

(* The elements of a sequence. *)
LEMMA Elements ==
  ASSUME NEW S, NEW s \in Seq(S)
  PROVE  Len(s) \in Nat /\ DOMAIN s = 1..Len(s) /\ \A t \in 1..Len(s) : s[t] \in S
  OBVIOUS

(* A sequence of which one element is replaced. *)
LEMMA ReplaceElement ==
  ASSUME NEW S, NEW s \in Seq(S), NEW t \in 1..Len(s), NEW e \in S
  PROVE  LET r == [s EXCEPT ![t] = e]
         IN /\ r \in Seq(S) /\ DOMAIN r = 1..Len(s)
            /\ \A u \in 1..Len(s) : r[u] = IF u = t THEN e ELSE s[u]
  OBVIOUS

(* A table that is written to within its length stays an array of nodes. *)
LEMMA SlotWritten ==
  ASSUME slot \in Seq(Arrays), NEW m \in Nat, NEW t \in 1..Len(length),
         length \in Seq(1..MaxCapacity), DOMAIN slot = 1..Len(length),
         \A u \in 1..Len(length) : slot[u] \in [0..(length[u] - 1) -> 0..m],
         NEW i \in 0..(length[t] - 1), NEW n \in 0..m,
         slot' = [slot EXCEPT ![t][i] = n]
  PROVE  /\ slot' \in Seq(Arrays) /\ DOMAIN slot' = 1..Len(length)
         /\ \A u \in 1..Len(length) : slot'[u] \in [0..(length[u] - 1) -> 0..m]
         /\ \A u \in 1..Len(length) : \A j \in 0..(length[u] - 1) :
              slot'[u][j] = IF u = t /\ j = i THEN n ELSE slot[u][j]
  <1>0. length[t] \in 1..MaxCapacity /\ Len(slot) = Len(length)
    <2>1. Len(length) \in Nat /\ length[t] \in 1..MaxCapacity
      BY Elements
    <2>2. DOMAIN slot = 1..Len(slot) /\ Len(slot) \in Nat
      BY Elements
    <2>4. Len(slot) = Len(length)
      <3>1. 1..Len(slot) = 1..Len(length) /\ Len(slot) \in Nat
        BY <2>2
      <3> QED
        BY <2>1, <3>1
    <2> QED
      BY <2>1, <2>4
  <1> DEFINE written == [slot[t] EXCEPT ![i] = n]
  <1>1. slot' = [slot EXCEPT ![t] = written]
    OBVIOUS
  <1>2. written \in [0..(length[t] - 1) -> 0..m] /\ written \in Arrays
    <2>1. written \in [0..(length[t] - 1) -> 0..m]
      OBVIOUS
    <2>2. written \in [0..(length[t] - 1) -> Nat]
      <3>1. \A j \in 0..m : j \in Nat
        OBVIOUS
      <3> HIDE DEF written
      <3> QED
        BY <2>1, <3>1
    <2> QED
      BY <1>0, <2>1, <2>2 DEF Arrays
  <1>3. \A j \in 0..(length[t] - 1) : written[j] = IF j = i THEN n ELSE slot[t][j]
    OBVIOUS
  <1> HIDE DEF written
  <1>4. /\ slot' \in Seq(Arrays) /\ DOMAIN slot' = 1..Len(length)
        /\ \A u \in 1..Len(length) : slot'[u] = IF u = t THEN written ELSE slot[u]
    <2>1. t \in 1..Len(slot)
      BY <1>0
    <2>2. slot \in Seq(Arrays) /\ written \in Arrays
      BY <1>2
    <2> DEFINE r == [slot EXCEPT ![t] = written]
    <2>3. /\ r \in Seq(Arrays) /\ DOMAIN r = 1..Len(slot)
          /\ \A u \in 1..Len(slot) : r[u] = IF u = t THEN written ELSE slot[u]
      BY ONLY <2>1, <2>2, ReplaceElement
    <2> QED
      BY <1>0, <1>1, <2>3
  <1> QED
    BY <1>2, <1>3, <1>4

(* Writing one slot keeps the types of the map. *)
LEMMA WriteKeeps ==
  ASSUME MapInv, NEW v, NEW t \in Tables, NEW i \in 0..(length[t] - 1),
         NEW n \in 0..Len(key), Write(v, t, i, n),
         UNCHANGED <<nodeVars, length, fieldVars>>
  PROVE  MapInv' /\ MapGrows
  <1>1. /\ slot \in Seq(Arrays) /\ DOMAIN slot = 1..Len(length)
        /\ length \in Seq(1..MaxCapacity) /\ Len(key) \in Nat
        /\ \A u \in 1..Len(length) : slot[u] \in [0..(length[u] - 1) -> 0..Len(key)]
        /\ slot' = [slot EXCEPT ![t][i] = n] /\ t \in 1..Len(length)
    BY DEF MapInv, MapTypeOK, Write, Tables
  <1>2. /\ slot' \in Seq(Arrays) /\ DOMAIN slot' = 1..Len(length)
        /\ \A u \in 1..Len(length) : slot'[u] \in [0..(length[u] - 1) -> 0..Len(key)]
    BY <1>1, SlotWritten
  <1> QED
    BY <1>2 DEF MapInv, MapTypeOK, LinksLeadToOlderNodes, Nodes, Tables, nodeVars,
                fieldVars, MapGrows

(* So does a link to an older node. *)
LEMMA LinkKeeps ==
  ASSUME MapInv, NEW n \in Nodes, NEW m \in Nat, m < n,
         next' = [next EXCEPT ![n] = m],
         UNCHANGED <<key, tableVars, fieldVars>>
  PROVE  MapInv' /\ MapGrows
  <1>1. /\ next' \in Seq(Nat) /\ Len(next') = Len(next)
        /\ \A j \in Nodes : next'[j] = IF j = n THEN m ELSE next[j]
    BY DEF MapInv, MapTypeOK, Nodes
  <1>2. Len(key) \in Nat /\ \A j \in Nodes : next[j] \in Nat
    BY DEF MapInv, MapTypeOK, Nodes
  <1>3. \A j \in Nodes : next'[j] <= Len(key) /\ next'[j] < j
    BY <1>1, <1>2 DEF MapInv, MapTypeOK, LinksLeadToOlderNodes, Nodes
  <1>4. /\ key' = key /\ length' = length /\ slot' = slot /\ table' = table
        /\ threshold' = threshold /\ size' = size
    BY DEF tableVars, fieldVars
  <1> QED
    BY <1>1, <1>3, <1>4 DEF MapInv, MapTypeOK, LinksLeadToOlderNodes, Nodes, Tables, MapGrows

(* A new table, empty, becomes the last one and the one in use. *)
LEMMA TableAdded ==
  ASSUME MapInv, NEW n \in 1..MaxCapacity,
         length' = Append(length, n),
         slot' = Append(slot, [i \in 0..(n - 1) |-> 0]),
         table' = Len(length) + 1,
         UNCHANGED <<nodeVars, threshold, size>>
  PROVE  MapInv' /\ MapGrows /\ Len(length') = Len(length) + 1
           /\ length'[Len(length) + 1] = n
  <1> DEFINE empty == [i \in 0..(n - 1) |-> 0]
  <1>0. /\ slot \in Seq(Arrays) /\ length \in Seq(1..MaxCapacity) /\ Len(key) \in Nat
        /\ DOMAIN slot = 1..Len(length)
    BY DEF MapInv, MapTypeOK, Tables
  <1>1. Len(slot) = Len(length)
    <2>1. Len(slot) \in Nat /\ Len(length) \in Nat /\ 1..Len(slot) = 1..Len(length)
      BY ONLY <1>0, Elements
    <2> QED
      BY <2>1
  <1>2. empty \in [0..(n - 1) -> 0..Len(key)]
    BY <1>0
  <1>3. empty \in Arrays
    <2>1. empty \in [0..(n - 1) -> Nat]
      OBVIOUS
    <2> QED
      BY <2>1 DEF Arrays
  <1>4. slot' = Append(slot, empty)
    OBVIOUS
  <1> HIDE DEF empty
  <1>5. /\ slot' \in Seq(Arrays) /\ DOMAIN slot' = 1..(Len(length) + 1)
        /\ \A t \in 1..Len(length) : slot'[t] = slot[t]
        /\ slot'[Len(length) + 1] = empty
    BY ONLY <1>0, <1>1, <1>3, <1>4
  <1>6. /\ length' \in Seq(1..MaxCapacity) /\ Len(length') = Len(length) + 1
        /\ \A t \in 1..Len(length) : length'[t] = length[t]
        /\ length'[Len(length) + 1] = n
    BY <1>0
  <1>7. \A t \in 1..(Len(length) + 1) : slot'[t] \in [0..(length'[t] - 1) -> 0..Len(key)]
    <2> TAKE t \in 1..(Len(length) + 1)
    <2>1. CASE t = Len(length) + 1
      BY <1>2, <1>5, <1>6, <2>1
    <2>2. CASE t # Len(length) + 1
      <3>1. t \in 1..Len(length)
        BY <1>0, <2>2
      <3>2. slot[t] \in [0..(length[t] - 1) -> 0..Len(key)]
        BY <3>1 DEF MapInv, MapTypeOK, Tables
      <3> QED
        BY <1>5, <1>6, <3>1, <3>2
    <2> QED
      BY <2>1, <2>2
  <1>8. MapInv'
    BY <1>5, <1>6, <1>7 DEF MapInv, MapTypeOK, LinksLeadToOlderNodes, Nodes, Tables, nodeVars
  <1> QED
    BY <1>0, <1>6, <1>8 DEF MapGrows, nodeVars, Nodes, Tables

(* A new node is put into a slot in front of an older one. *)
LEMMA NodeAdded ==
  ASSUME MapInv, NEW v, NEW t \in Tables, NEW i \in 0..(length[t] - 1),
         NEW k \in KeyIds, NEW m \in 0..Len(key),
         key' = Append(key, k), next' = Append(next, m),
         Write(v, t, i, Len(key) + 1),
         UNCHANGED <<length, fieldVars>>
  PROVE  MapInv' /\ MapGrows /\ Len(key') = Len(key) + 1 /\ key'[Len(key) + 1] = k
  <1>0. /\ slot \in Seq(Arrays) /\ length \in Seq(1..MaxCapacity)
        /\ DOMAIN slot = 1..Len(length) /\ t \in 1..Len(length)
        /\ key \in Seq(KeyIds) /\ next \in Seq(Nat) /\ Len(next) = Len(key)
        /\ Len(key) \in Nat
    BY DEF MapInv, MapTypeOK, Tables
  <1>1. \A u \in 1..Len(length) : slot[u] \in [0..(length[u] - 1) -> 0..(Len(key) + 1)]
    <2>1. \A u \in 1..Len(length) : slot[u] \in [0..(length[u] - 1) -> 0..Len(key)]
      BY DEF MapInv, MapTypeOK, Tables
    <2>2. \A j \in 0..Len(key) : j \in 0..(Len(key) + 1)
      BY <1>0
    <2> QED
      BY <2>1, <2>2
  <1>2. slot' = [slot EXCEPT ![t][i] = Len(key) + 1]
    BY DEF Write
  <1>3. Len(key) + 1 \in Nat /\ Len(key) + 1 \in 0..(Len(key) + 1)
    BY <1>0
  <1>4. /\ slot' \in Seq(Arrays) /\ DOMAIN slot' = 1..Len(length)
        /\ \A u \in 1..Len(length) : slot'[u] \in [0..(length[u] - 1) -> 0..(Len(key) + 1)]
    BY ONLY <1>0, <1>1, <1>2, <1>3, SlotWritten, i \in 0..(length[t] - 1)
  <1>5. /\ key' \in Seq(KeyIds) /\ Len(key') = Len(key) + 1 /\ key'[Len(key) + 1] = k
        /\ \A n \in 1..Len(key) : key'[n] = key[n]
    BY ONLY <1>0, key' = Append(key, k), k \in KeyIds
  <1>6. /\ next' \in Seq(Nat) /\ Len(next') = Len(key) + 1 /\ next'[Len(key) + 1] = m
        /\ \A n \in 1..Len(key) : next'[n] = next[n]
    <2>1. m \in Nat
      BY <1>0
    <2> QED
      BY ONLY <1>0, <2>1, next' = Append(next, m)
  <1>7. \A n \in 1..(Len(key) + 1) : next'[n] <= Len(key) + 1 /\ next'[n] < n
    <2>1. \A n \in 1..Len(key) : next[n] \in Nat /\ next[n] <= Len(key) /\ next[n] < n
      BY <1>0 DEF MapInv, MapTypeOK, LinksLeadToOlderNodes, Nodes
    <2> QED
      BY <1>0, <1>6, <2>1
  <1>8. MapInv'
    BY <1>4, <1>5, <1>6, <1>7 DEF MapInv, MapTypeOK, LinksLeadToOlderNodes, Nodes, Tables, fieldVars
  <1> QED
    BY <1>0, <1>5, <1>8 DEF MapGrows, Nodes, Tables

-----------------------------------------------------------------------------
(* What the threads hold *)

LocalInv == LocalTypeOK /\ \A v \in Verifications : Points(v) /\ Links(v)

(* The locals of a thread one by one. *)
LEMMA Locals ==
  ASSUME LocalTypeOK, NEW v \in Verifications
  PROVE  /\ pc[v] \in Stages /\ kid[v] \in KeyIds \cup {NoKeyId}
         /\ tab[v] \in Nat /\ number[v] \in Nat /\ at[v] \in Nat /\ first[v] \in Nat
         /\ old[v] \in Nat /\ bucket[v] \in Nat /\ ahead[v] \in Nat
         /\ walked[v] \in SUBSET Nat
         /\ head[v] \in [Halves -> Nat] /\ tail[v] \in [Halves -> Nat]
         /\ disturbed[v] \in BOOLEAN
  BY DEF LocalTypeOK

(* A table has slots for all hashes, and there are nodes in them. *)
LEMMA TableFacts ==
  ASSUME MapInv, NEW t \in Tables
  PROVE  /\ length[t] \in 1..MaxCapacity /\ length[t] \in Nat
         /\ \A i \in 0..(length[t] - 1) : slot[t][i] \in 0..Len(key)
         /\ \A k \in KeyIds : Index(t, k) \in 0..(length[t] - 1)
  <1>1. length \in Seq(1..MaxCapacity) /\ t \in 1..Len(length)
    BY DEF MapInv, MapTypeOK, Tables
  <1>2. length[t] \in 1..MaxCapacity
    BY ONLY <1>1, Elements
  <1>3. slot[t] \in [0..(length[t] - 1) -> 0..Len(key)]
    BY DEF MapInv, MapTypeOK
  <1>4. \A k \in KeyIds : Index(t, k) \in 0..(length[t] - 1)
    BY <1>2, AndAssumption DEF Index
  <1>5. length[t] \in Nat
    BY <1>2, CapacityAssumption
  <1> QED
    BY <1>2, <1>3, <1>4, <1>5

(* A node has a key and a link to an older one. *)
LEMMA NodeFacts ==
  ASSUME MapInv
  PROVE  /\ Len(key) \in Nat
         /\ \A n \in Nodes : key[n] \in KeyIds /\ next[n] \in 0..Len(key) /\ next[n] < n
  <1>1. key \in Seq(KeyIds) /\ next \in Seq(Nat) /\ Len(next) = Len(key)
    BY DEF MapInv, MapTypeOK
  <1>2. /\ Len(key) \in Nat
        /\ \A n \in 1..Len(key) : key[n] \in KeyIds /\ next[n] \in Nat
    BY ONLY <1>1, Elements
  <1> QED
    BY <1>2 DEF MapInv, MapTypeOK, LinksLeadToOlderNodes, Nodes

(* What a thread that moves nodes works on. *)
LEMMA MovingFacts ==
  ASSUME MapInv, LocalInv, NEW v \in Verifications, pc[v] \in Moving
  PROVE  /\ old[v] \in Tables /\ tab[v] \in Tables
         /\ bucket[v] \in 0..(length[old[v]] - 1)
         /\ bucket[v] \in 0..(length[tab[v]] - 1)
         /\ bucket[v] + length[old[v]] \in 0..(length[tab[v]] - 1)
  <1>1. old[v] \in Nat /\ tab[v] \in Nat /\ bucket[v] \in Nat
    BY Locals DEF LocalInv
  <1>2. /\ tab[v] <= Len(length) /\ tab[v] # 0 /\ old[v] <= Len(length)
        /\ 0 < old[v] /\ length[tab[v]] = 2 * length[old[v]]
        /\ bucket[v] < length[old[v]]
    BY DEF LocalInv, Points, Moves
  <1>3. Len(length) \in Nat
    BY DEF MapInv, MapTypeOK
  <1>4. old[v] \in Tables /\ tab[v] \in Tables
    BY <1>1, <1>2, <1>3 DEF Tables
  <1>5. length[old[v]] \in Nat /\ length[tab[v]] \in Nat
    BY <1>4, TableFacts
  <1> QED
    BY <1>1, <1>2, <1>4, <1>5

(* The capacity and the threshold that resize computes. *)
LEMMA NewCapacityFacts ==
  ASSUME MapInv, LocalInv, NEW v \in Verifications
  PROVE  /\ NewCapacity(v) \in Nat /\ 0 < NewCapacity(v)
         /\ NewThreshold(v) \in Nat
  <1>1. /\ old[v] \in Nat /\ number[v] \in Nat /\ Len(length) \in Nat
        /\ old[v] <= Len(length)
    BY Locals DEF LocalInv, Points, MapInv, MapTypeOK
  <1>2. old[v] # 0 => length[old[v]] \in Nat /\ 0 < length[old[v]]
    <2>1. old[v] # 0 => old[v] \in Tables
      BY <1>1 DEF Tables
    <2> QED
      BY <2>1, TableFacts
  <1>3. NewCapacity(v) \in Nat /\ 0 < NewCapacity(v)
    BY <1>1, <1>2, CapacityAssumption DEF NewCapacity
  <1>4. (3 * NewCapacity(v)) \div 4 \in Nat /\ 2 * number[v] \in Nat
    <2> DEFINE c == NewCapacity(v)
    <2>1. c \in Nat
      BY <1>3
    <2> HIDE DEF c
    <2>2. (3 * c) \div 4 \in Nat
      BY <2>1
    <2> QED
      BY <1>1, <2>2 DEF c
  <1> QED
    BY <1>3, <1>4 DEF NewThreshold

(* Every step keeps the types of the map and its links. *)
LEMMA MapNext ==
  ASSUME MapInv, LocalInv, NEW v \in Verifications, Step(v)
  PROVE  MapInv' /\ MapGrows
  <1>0. threshold \in Nat /\ size \in Nat /\ number[v] \in Nat /\ LocalTypeOK
    BY Locals DEF MapInv, MapTypeOK, LocalInv
  <1>1. CASE \/ Verify(v) \/ ReadSize(v) \/ ReadThreshold(v) \/ ReadTable(v)
             \/ ReadOldTable(v) \/ ReadOldThreshold(v) \/ Take(v) \/ CheckSingle(v)
             \/ ReadNext(v) \/ Lookup(v) \/ Walk(v) \/ Fetch(v) \/ ReadCount(v)
             \/ Get(v) \/ GetFirst(v) \/ GetWalk(v)
    <2>1. UNCHANGED <<nodeVars, tableVars, fieldVars>>
      BY <1>1 DEF Verify, ReadSize, ReadThreshold, ReadTable, ReadOldTable, ReadOldThreshold,
                  Take, CheckSingle, ReadNext, Lookup, Walk, Fetch, ReadCount, Get,
                  GetFirst, GetWalk
    <2>2. UNCHANGED <<nodeVars, tableVars, table>> /\ threshold' \in Nat /\ size' \in Nat
      BY <1>0, <2>1 DEF fieldVars
    <2> QED
      BY <2>2, MapStays
  <1>2. CASE SetThreshold(v)
    <2>1. UNCHANGED <<nodeVars, tableVars, table>> /\ threshold' \in Nat /\ size' \in Nat
      BY <1>0, <1>2, NewCapacityFacts DEF SetThreshold
    <2> QED
      BY <2>1, MapStays
  <1>3. CASE WriteCount(v)
    <2>1. UNCHANGED <<nodeVars, tableVars, table>> /\ threshold' \in Nat /\ size' \in Nat
      BY <1>0, <1>3 DEF WriteCount
    <2> QED
      BY <2>1, MapStays
  <1>4. CASE SetTable(v)
    <2>1. pc[v] = "newTable"
      BY <1>4 DEF SetTable
    <2>2. NewCapacity(v) \in 1..MaxCapacity
      BY <2>1, NewCapacityFacts, CapacityAssumption DEF LocalInv, Points
    <2>3. /\ length' = Append(length, NewCapacity(v))
          /\ slot' = Append(slot, [i \in 0..(NewCapacity(v) - 1) |-> 0])
          /\ table' = Len(length) + 1 /\ UNCHANGED <<nodeVars, threshold, size>>
      BY <1>4 DEF SetTable
    <2> HIDE DEF NewCapacity
    <2> QED
      BY <2>2, <2>3, TableAdded
  <1>5. CASE Clear(v)
    <2>1. pc[v] \in Moving
      BY <1>5 DEF Clear, Moving
    <2>2. /\ Write(v, old[v], bucket[v], 0)
          /\ UNCHANGED <<nodeVars, length, fieldVars>>
      BY <1>5 DEF Clear
    <2>3. 0 \in 0..Len(key)
      BY NodeFacts
    <2> QED
      BY <2>1, <2>2, <2>3, MovingFacts, WriteKeeps
  <1>6. CASE Place(v)
    <2>1. pc[v] \in Moving /\ pc[v] = "place"
      BY <1>6 DEF Place, Moving
    <2>2. /\ Write(v, tab[v], Index(tab[v], key[at[v]]), at[v])
          /\ UNCHANGED <<nodeVars, length, fieldVars>>
      BY <1>6 DEF Place
    <2>3. at[v] \in 0..Len(key) /\ at[v] # 0
      BY <2>1, Locals, NodeFacts DEF LocalInv, Points
    <2>4. tab[v] \in Tables
      BY <2>1, MovingFacts
    <2>5. Index(tab[v], key[at[v]]) \in 0..(length[tab[v]] - 1)
      BY <2>3, <2>4, TableFacts, NodeFacts DEF Nodes
    <2> QED
      BY <2>2, <2>3, <2>4, <2>5, WriteKeeps
  <1>7. CASE Link(v)
    <2> DEFINE h == HalfOf(v, at[v])
    <2>1. pc[v] = "link" /\ h \in Halves
      BY <1>7 DEF Link, HalfOf, Halves
    <2>2. UNCHANGED <<key, tableVars, fieldVars>>
      BY <1>7 DEF Link
    <2>3. tail[v][h] \in 0..Len(key) /\ at[v] \in Nat
      BY <2>1, Locals, NodeFacts DEF LocalInv, Points
    <2>4. CASE tail[v][h] = 0
      <3>1. UNCHANGED <<nodeVars, tableVars, table>> /\ threshold' \in Nat /\ size' \in Nat
        BY <1>0, <1>7, <2>2, <2>4 DEF Link, nodeVars, fieldVars
      <3> QED
        BY <3>1, MapStays
    <2>5. CASE tail[v][h] # 0
      <3>1. next' = [next EXCEPT ![tail[v][h]] = at[v]]
        BY <1>7, <2>5 DEF Link
      <3>2. tail[v][h] \in Nodes /\ at[v] < tail[v][h]
        BY <2>1, <2>3, <2>5, NodeFacts DEF LocalInv, Links, Nodes
      <3> HIDE DEF h
      <3> QED
        BY <2>2, <2>3, <3>1, <3>2, LinkKeeps
    <2> QED
      BY <2>4, <2>5
  <1>8. ASSUME NEW h \in Halves, NEW put, NEW otherwise, EndChain(v, h, put, otherwise)
        PROVE  MapInv' /\ MapGrows
    <2>1. UNCHANGED <<key, tableVars, fieldVars>>
      BY <1>8 DEF EndChain
    <2>2. tail[v][h] \in 0..Len(key)
      BY Locals, NodeFacts DEF LocalInv, Points
    <2>3. CASE tail[v][h] = 0
      <3>1. UNCHANGED <<nodeVars, tableVars, table>> /\ threshold' \in Nat /\ size' \in Nat
        BY <1>0, <1>8, <2>1, <2>3 DEF EndChain, nodeVars, fieldVars
      <3> QED
        BY <3>1, MapStays
    <2>4. CASE tail[v][h] # 0
      <3>1. next' = [next EXCEPT ![tail[v][h]] = 0]
        BY <1>8, <2>4 DEF EndChain
      <3>2. tail[v][h] \in Nodes /\ 0 < tail[v][h] /\ 0 \in Nat
        BY <2>2, <2>4, NodeFacts DEF Nodes
      <3> QED
        BY <2>1, <3>1, <3>2, LinkKeeps
    <2> QED
      BY <2>3, <2>4
  <1>9. CASE EndLow(v) \/ EndHigh(v)
    BY <1>8, <1>9 DEF EndLow, EndHigh, Halves
  <1>10. CASE PutLow(v) \/ PutHigh(v)
    <2>1. pc[v] \in Moving
      BY <1>10 DEF PutLow, PutHigh, Moving
    <2>2. UNCHANGED <<nodeVars, length, fieldVars>>
      BY <1>10 DEF PutLow, PutHigh
    <2>3. head[v]["low"] \in 0..Len(key) /\ head[v]["high"] \in 0..Len(key)
      BY Locals, NodeFacts DEF LocalInv, Points, Halves
    <2>4. \/ Write(v, tab[v], bucket[v], head[v]["low"])
          \/ Write(v, tab[v], bucket[v] + length[old[v]], head[v]["high"])
      BY <1>10 DEF PutLow, PutHigh
    <2>5. /\ tab[v] \in Tables /\ bucket[v] \in 0..(length[tab[v]] - 1)
          /\ bucket[v] + length[old[v]] \in 0..(length[tab[v]] - 1)
      BY <2>1, MovingFacts
    <2>6. CASE Write(v, tab[v], bucket[v], head[v]["low"])
      BY <2>2, <2>3, <2>5, <2>6, WriteKeeps
    <2>7. CASE Write(v, tab[v], bucket[v] + length[old[v]], head[v]["high"])
      BY <2>2, <2>3, <2>5, <2>7, WriteKeeps
    <2> QED
      BY <2>4, <2>6, <2>7
  <1>11. CASE Insert(v)
    <2>1. pc[v] = "insert" /\ kid[v] \in KeyIds /\ tab[v] \in Tables
      BY <1>11, Locals DEF Insert, LocalInv, Points, InMap, Searching, Tables, MapInv, MapTypeOK
    <2>2. /\ key' = Append(key, kid[v]) /\ next' = Append(next, first[v])
          /\ Write(v, tab[v], Index(tab[v], kid[v]), Len(key) + 1)
          /\ UNCHANGED <<length, fieldVars>>
      BY <1>11 DEF Insert
    <2>3. first[v] \in 0..Len(key)
      BY Locals, NodeFacts DEF LocalInv, Points
    <2>4. Index(tab[v], kid[v]) \in 0..(length[tab[v]] - 1)
      BY <2>1, TableFacts
    <2> QED
      BY <2>1, <2>2, <2>3, <2>4, NodeAdded
  <1> QED
    BY <1>1, <1>2, <1>3, <1>4, <1>5, <1>6, <1>7, <1>9, <1>10, <1>11 DEF Step, Compute, Resize

(* A step of one thread leaves what the others hold. *)
LEMMA OthersStay ==
  ASSUME NEW v \in Verifications, NEW w \in Verifications, w # v, LocalTypeOK, Step(v)
  PROVE  /\ pc'[w] = pc[w] /\ kid'[w] = kid[w] /\ tab'[w] = tab[w]
         /\ number'[w] = number[w] /\ at'[w] = at[w] /\ first'[w] = first[w]
         /\ walked'[w] = walked[w] /\ old'[w] = old[w] /\ bucket'[w] = bucket[w]
         /\ ahead'[w] = ahead[w] /\ head'[w] = head[w] /\ tail'[w] = tail[w]
  <1> USE DEF Continue, searchVars, moveVars
  <1>0. /\ DOMAIN pc = Verifications /\ DOMAIN tab = Verifications
        /\ DOMAIN number = Verifications /\ DOMAIN at = Verifications
        /\ DOMAIN first = Verifications /\ DOMAIN walked = Verifications
        /\ DOMAIN old = Verifications /\ DOMAIN bucket = Verifications
        /\ DOMAIN ahead = Verifications /\ DOMAIN head = Verifications
        /\ DOMAIN tail = Verifications
    BY DEF LocalTypeOK
  <1>1. CASE \/ Verify(v) \/ ReadSize(v) \/ ReadThreshold(v) \/ ReadTable(v)
             \/ ReadOldTable(v) \/ ReadOldThreshold(v) \/ SetThreshold(v) \/ SetTable(v)
    BY <1>0, <1>1 DEF Verify, ReadSize, ReadThreshold, ReadTable, ReadOldTable, ReadOldThreshold,
                SetThreshold, SetTable
  <1>2. CASE Take(v) \/ Clear(v) \/ CheckSingle(v) \/ Place(v) \/ ReadNext(v)
    BY <1>0, <1>2 DEF Take, Clear, CheckSingle, Place, ReadNext, NextBucket
  <1>3. CASE Link(v)
    BY <1>0, <1>3 DEF Link
  <1>4. CASE EndLow(v) \/ EndHigh(v)
    BY <1>0, <1>4 DEF EndLow, EndHigh, EndChain, NextBucket
  <1>5. CASE PutLow(v) \/ PutHigh(v)
    BY <1>0, <1>5 DEF PutLow, PutHigh, NextBucket
  <1>6. CASE \/ Lookup(v) \/ Walk(v) \/ Fetch(v) \/ Insert(v) \/ ReadCount(v)
             \/ WriteCount(v) \/ Get(v) \/ GetFirst(v) \/ GetWalk(v)
    BY <1>0, <1>6 DEF Lookup, Walk, Fetch, Insert, ReadCount, WriteCount, Get, GetFirst, GetWalk
  <1> QED
    BY <1>1, <1>2, <1>3, <1>4, <1>5, <1>6 DEF Step, Compute, Resize

(* What a thread points to stays in a map that grows. *)
LEMMA PointsStay ==
  ASSUME MapInv, MapInv', MapGrows, LocalInv,
         NEW v \in Verifications, NEW w \in Verifications, w # v, Step(v)
  PROVE  Points(w)' /\ Links(w)'
  <1>1. Points(w) /\ Links(w)
    BY DEF LocalInv
  <1>2. /\ tab[w] \in Nat /\ old[w] \in Nat /\ at[w] \in Nat /\ first[w] \in Nat
        /\ ahead[w] \in Nat /\ head[w] \in [Halves -> Nat] /\ tail[w] \in [Halves -> Nat]
    BY Locals DEF LocalInv
  <1>3. /\ Len(length) \in Nat /\ Len(length') \in Nat /\ Len(key) \in Nat /\ Len(key') \in Nat
        /\ Len(key) <= Len(key') /\ Len(length) <= Len(length')
    BY NodeFacts DEF MapInv, MapTypeOK, MapGrows
  <1>4. old[w] # 0 => length'[old[w]] = length[old[w]]
    BY <1>1, <1>2, <1>3 DEF Points, MapGrows, Tables
  <1>5. tab[w] # 0 => length'[tab[w]] = length[tab[w]]
    BY <1>1, <1>2, <1>3 DEF Points, MapGrows, Tables
  <1>6. /\ pc'[w] = pc[w] /\ kid'[w] = kid[w] /\ tab'[w] = tab[w]
        /\ number'[w] = number[w] /\ at'[w] = at[w] /\ first'[w] = first[w]
        /\ walked'[w] = walked[w] /\ old'[w] = old[w] /\ bucket'[w] = bucket[w]
        /\ ahead'[w] = ahead[w] /\ head'[w] = head[w] /\ tail'[w] = tail[w]
    BY OthersStay DEF LocalInv
  <1>7. NewCapacity(w)' = NewCapacity(w)
    BY <1>4, <1>6 DEF NewCapacity
  <1>8. pc[w] \in Moving => Moves(w)'
    BY <1>1, <1>2, <1>4, <1>5, <1>6 DEF Points, Moves
  <1>9. /\ at[w] <= Len(key') /\ first[w] <= Len(key') /\ ahead[w] <= Len(key')
        /\ tab[w] <= Len(length') /\ old[w] <= Len(length')
        /\ walked[w] \subseteq 1..Len(key')
        /\ \A h \in Halves : head[w][h] <= Len(key') /\ tail[w][h] <= Len(key')
    BY <1>1, <1>2, <1>3 DEF Points, Nodes
  <1>10. Points(w)'
    BY <1>1, <1>6, <1>7, <1>8, <1>9 DEF Points, Nodes
  <1>11. Links(w)'
    BY <1>1, <1>6 DEF Links
  <1> QED
    BY <1>10, <1>11

(* A step keeps the types of what its thread holds. *)
LEMMA LocalTypeNext ==
  ASSUME MapInv, LocalInv, NEW v \in Verifications, Step(v)
  PROVE  LocalTypeOK'
  <1> USE DEF Continue, Stages, InMap, Moving, Searching, Answered
  <1>0. /\ LocalTypeOK /\ Points(v) /\ Len(key) \in Nat /\ size \in Nat /\ threshold \in Nat
        /\ table \in Nat /\ Len(length) + 1 \in Nat
    BY NodeFacts DEF LocalInv, MapInv, MapTypeOK
  <1>1. CASE Verify(v) \/ ReadThreshold(v) \/ SetThreshold(v) \/ Fetch(v) \/ WriteCount(v)
    <2>1. UNCHANGED <<searchVars, moveVars, disturbed>> /\ pc' \in [Verifications -> Stages]
      BY <1>0, <1>1 DEF Verify, ReadThreshold, SetThreshold, Fetch, WriteCount, LocalTypeOK
    <2> QED
      BY <1>0, <2>1 DEF LocalTypeOK, searchVars, moveVars
  <1>2. CASE ReadSize(v) \/ ReadOldThreshold(v) \/ ReadCount(v)
    <2>1. UNCHANGED <<kid, tab, at, first, walked, moveVars, disturbed>>
      BY <1>2 DEF ReadSize, ReadOldThreshold, ReadCount
    <2>2. pc' \in [Verifications -> Stages]
      BY <1>0, <1>2 DEF ReadSize, ReadOldThreshold, ReadCount, LocalTypeOK
    <2>3. number' \in [Verifications -> Nat]
      BY <1>0, <1>2 DEF ReadSize, ReadOldThreshold, ReadCount, LocalTypeOK
    <2> QED
      BY <1>0, <2>1, <2>2, <2>3 DEF LocalTypeOK, moveVars
  <1>3. CASE ReadTable(v) \/ Get(v)
    <2>1. UNCHANGED <<kid, number, at, first, walked, moveVars, disturbed>>
      BY <1>3 DEF ReadTable, Get
    <2>2. pc' \in [Verifications -> Stages]
      BY <1>0, <1>3 DEF ReadTable, Get, LocalTypeOK
    <2>3. tab' \in [Verifications -> Nat]
      BY <1>0, <1>3 DEF ReadTable, Get, LocalTypeOK
    <2> QED
      BY <1>0, <2>1, <2>2, <2>3 DEF LocalTypeOK, moveVars
  <1>4. CASE ReadOldTable(v)
    <2>1. /\ UNCHANGED <<searchVars, bucket, ahead, head, tail, disturbed>>
          /\ pc' \in [Verifications -> Stages] /\ old' \in [Verifications -> Nat]
      BY <1>0, <1>4 DEF ReadOldTable, LocalTypeOK
    <2> QED
      BY <1>0, <2>1 DEF LocalTypeOK, searchVars
  <1>5. ASSUME Disturb(v)
        PROVE  disturbed' \in [Verifications -> BOOLEAN]
    BY <1>0, <1>5 DEF Disturb, LocalTypeOK
  <1>6. CASE SetTable(v)
    <2>1. /\ UNCHANGED <<kid, number, at, first, walked, old, ahead, head, tail>>
          /\ pc' \in [Verifications -> Stages] /\ tab' \in [Verifications -> Nat]
          /\ bucket' \in [Verifications -> Nat] /\ disturbed' \in [Verifications -> BOOLEAN]
      BY <1>0, <1>5, <1>6 DEF SetTable, LocalTypeOK
    <2> QED
      BY <1>0, <2>1 DEF LocalTypeOK
  <1>7. ASSUME NextBucket(v)
        PROVE  pc' \in [Verifications -> Stages] /\ bucket' \in [Verifications -> Nat]
    BY <1>0, <1>7 DEF NextBucket, LocalTypeOK
  <1>8. CASE Take(v)
    <2>1. slot[old[v]][bucket[v]] \in Nat
      BY <1>8, MovingFacts, TableFacts DEF Take
    <2>2. pc' \in [Verifications -> Stages] /\ bucket' \in [Verifications -> Nat]
      BY <1>0, <1>7, <1>8 DEF Take, LocalTypeOK
    <2>3. at' \in [Verifications -> Nat]
      BY <1>0, <1>8, <2>1 DEF Take, LocalTypeOK
    <2>4. UNCHANGED <<kid, tab, number, first, walked, old, ahead, head, tail, disturbed>>
      BY <1>8 DEF Take
    <2> QED
      BY <1>0, <2>2, <2>3, <2>4 DEF LocalTypeOK
  <1>9. CASE Clear(v) \/ PutLow(v)
    <2>1. /\ UNCHANGED <<searchVars, moveVars>>
          /\ pc' \in [Verifications -> Stages] /\ disturbed' \in [Verifications -> BOOLEAN]
      BY <1>0, <1>5, <1>9 DEF Clear, PutLow, Write, LocalTypeOK
    <2> QED
      BY <1>0, <2>1 DEF LocalTypeOK, searchVars, moveVars
  <1>10. CASE CheckSingle(v)
    <2>1. /\ UNCHANGED <<searchVars, old, bucket, ahead, disturbed>>
          /\ pc' \in [Verifications -> Stages]
          /\ head' \in [Verifications -> [Halves -> Nat]]
          /\ tail' \in [Verifications -> [Halves -> Nat]]
      BY <1>0, <1>10 DEF CheckSingle, NoNodes, LocalTypeOK
    <2> QED
      BY <1>0, <2>1 DEF LocalTypeOK, searchVars
  <1>11. CASE Place(v) \/ PutHigh(v)
    <2>1. /\ UNCHANGED <<searchVars, old, ahead, head, tail>>
          /\ pc' \in [Verifications -> Stages] /\ bucket' \in [Verifications -> Nat]
          /\ disturbed' \in [Verifications -> BOOLEAN]
      BY <1>5, <1>7, <1>11 DEF Place, PutHigh, Write
    <2> QED
      BY <1>0, <2>1 DEF LocalTypeOK, searchVars
  <1>12. at[v] # 0 => next[at[v]] \in Nat
    BY <1>0, Locals, NodeFacts DEF Points, Nodes
  <1>13. CASE ReadNext(v)
    <2>1. next[at[v]] \in Nat
      BY <1>0, <1>12, <1>13 DEF ReadNext, Points
    <2>2. /\ UNCHANGED <<searchVars, old, bucket, head, tail, disturbed>>
          /\ pc' \in [Verifications -> Stages] /\ ahead' \in [Verifications -> Nat]
      BY <1>0, <1>13, <2>1 DEF ReadNext, LocalTypeOK
    <2> QED
      BY <1>0, <2>2 DEF LocalTypeOK, searchVars
  <1>14. CASE Link(v)
    <2> DEFINE h == HalfOf(v, at[v])
    <2>1. h \in Halves /\ at[v] \in Nat /\ ahead[v] \in Nat
      BY <1>0, Locals DEF HalfOf, Halves
    <2>2. \A var \in {head, tail} :
            [var EXCEPT ![v][h] = at[v]] \in [Verifications -> [Halves -> Nat]]
      BY <1>0, <2>1 DEF LocalTypeOK
    <2>3. /\ tail' = [tail EXCEPT ![v][h] = at[v]]
          /\ head' = head \/ head' = [head EXCEPT ![v][h] = at[v]]
      BY <1>14 DEF Link
    <2>4. /\ head' \in [Verifications -> [Halves -> Nat]]
          /\ tail' \in [Verifications -> [Halves -> Nat]]
      <3>1. head \in [Verifications -> [Halves -> Nat]]
        BY <1>0 DEF LocalTypeOK
      <3> HIDE DEF h
      <3> QED
        BY <2>2, <2>3, <3>1
    <2>5. disturbed' \in [Verifications -> BOOLEAN]
      <3>1. disturbed' = disturbed \/ Disturb(v)
        BY <1>14 DEF Link
      <3> QED
        BY <1>0, <1>5, <3>1 DEF LocalTypeOK
    <2>6. /\ pc' \in [Verifications -> Stages] /\ at' \in [Verifications -> Nat]
      BY <1>0, <1>14, <2>1 DEF Link, LocalTypeOK
    <2>7. UNCHANGED <<kid, tab, number, first, walked, old, bucket, ahead>>
      BY <1>14 DEF Link
    <2> QED
      BY <1>0, <2>4, <2>5, <2>6, <2>7 DEF LocalTypeOK
  <1>15. CASE EndLow(v) \/ EndHigh(v)
    <2>1. UNCHANGED <<searchVars, old, ahead, head, tail>>
      BY <1>15 DEF EndLow, EndHigh, EndChain
    <2>2. disturbed' = disturbed \/ Disturb(v)
      BY <1>15 DEF EndLow, EndHigh, EndChain
    <2>3. \/ NextBucket(v)
          \/ bucket' = bucket /\ \E stage \in {"endHigh", "putLow", "putHigh"} : Continue(v, stage)
      BY <1>15 DEF EndLow, EndHigh, EndChain
    <2>4. pc' \in [Verifications -> Stages] /\ bucket' \in [Verifications -> Nat]
      BY <1>0, <1>7, <2>3 DEF LocalTypeOK
    <2>5. disturbed' \in [Verifications -> BOOLEAN]
      BY <1>0, <1>5, <2>2 DEF LocalTypeOK
    <2> QED
      BY <1>0, <2>1, <2>4, <2>5 DEF LocalTypeOK, searchVars
  <1>16. pc[v] \in {"lookup", "getFirst", "insert"} =>
           tab[v] \in Tables /\ slot[tab[v]][Index(tab[v], kid[v])] \in Nat
    <2>1. pc[v] \in {"lookup", "getFirst", "insert"} => tab[v] \in Tables /\ kid[v] \in KeyIds
      BY <1>0, Locals DEF Points, Tables
    <2> QED
      BY <2>1, TableFacts
  <1>17. CASE Lookup(v)
    <2>1. /\ UNCHANGED <<kid, tab, number, moveVars, disturbed>>
          /\ pc' \in [Verifications -> Stages] /\ at' \in [Verifications -> Nat]
          /\ first' \in [Verifications -> Nat] /\ walked' \in [Verifications -> SUBSET Nat]
      BY <1>0, <1>16, <1>17 DEF Lookup, LocalTypeOK
    <2> QED
      BY <1>0, <2>1 DEF LocalTypeOK, moveVars
  <1>18. CASE Walk(v)
    <2>1. at[v] \in Nat /\ next[at[v]] \in Nat
      BY <1>0, <1>12, <1>18, Locals DEF Walk, Points
    <2>2. /\ UNCHANGED <<kid, tab, number, first, moveVars, disturbed>>
          /\ pc' \in [Verifications -> Stages] /\ at' \in [Verifications -> Nat]
          /\ walked' \in [Verifications -> SUBSET Nat]
      BY <1>0, <1>18, <2>1 DEF Walk, LocalTypeOK
    <2> QED
      BY <1>0, <2>2 DEF LocalTypeOK, moveVars
  <1>19. CASE Insert(v)
    <2>1. /\ UNCHANGED <<kid, tab, number, at, first, moveVars>>
          /\ pc' \in [Verifications -> Stages] /\ walked' \in [Verifications -> SUBSET Nat]
          /\ disturbed' \in [Verifications -> BOOLEAN]
      BY <1>0, <1>5, <1>19 DEF Insert, Write, LocalTypeOK
    <2> QED
      BY <1>0, <2>1 DEF LocalTypeOK, moveVars
  <1>20. CASE GetFirst(v)
    <2>1. /\ UNCHANGED <<kid, tab, number, first, walked, moveVars, disturbed>>
          /\ pc' \in [Verifications -> Stages] /\ at' \in [Verifications -> Nat]
      BY <1>0, <1>16, <1>20 DEF GetFirst, LocalTypeOK
    <2> QED
      BY <1>0, <2>1 DEF LocalTypeOK, moveVars
  <1>21. CASE GetWalk(v)
    <2>1. next[at[v]] \in Nat
      BY <1>0, <1>12, <1>21 DEF GetWalk, Points
    <2>2. /\ UNCHANGED <<kid, tab, number, first, walked, moveVars, disturbed>>
          /\ pc' \in [Verifications -> Stages] /\ at' \in [Verifications -> Nat]
      BY <1>0, <1>21, <2>1 DEF GetWalk, LocalTypeOK
    <2> QED
      BY <1>0, <2>2 DEF LocalTypeOK, moveVars
  <1> QED
    BY <1>1, <1>2, <1>3, <1>4, <1>6, <1>8, <1>9, <1>10, <1>11, <1>13, <1>14, <1>15, <1>17,
       <1>18, <1>19, <1>20, <1>21 DEF Step, Compute, Resize

(* What a thread points to is there in a map that has grown. *)
LEMMA StillThere ==
  ASSUME MapInv, MapInv', MapGrows, LocalInv, NEW v \in Verifications
  PROVE  /\ at[v] <= Len(key') /\ first[v] <= Len(key') /\ ahead[v] <= Len(key')
         /\ tab[v] <= Len(length') /\ old[v] <= Len(length')
         /\ walked[v] \subseteq 1..Len(key')
         /\ \A h \in Halves : head[v][h] <= Len(key') /\ tail[v][h] <= Len(key')
         /\ old[v] # 0 => length'[old[v]] = length[old[v]]
         /\ tab[v] # 0 => length'[tab[v]] = length[tab[v]]
  <1>1. Points(v)
    BY DEF LocalInv
  <1>2. /\ tab[v] \in Nat /\ old[v] \in Nat /\ at[v] \in Nat /\ first[v] \in Nat
        /\ ahead[v] \in Nat /\ head[v] \in [Halves -> Nat] /\ tail[v] \in [Halves -> Nat]
    BY Locals DEF LocalInv
  <1>3. /\ Len(length) \in Nat /\ Len(length') \in Nat /\ Len(key) \in Nat /\ Len(key') \in Nat
        /\ Len(key) <= Len(key') /\ Len(length) <= Len(length')
    BY NodeFacts DEF MapInv, MapTypeOK, MapGrows
  <1>4. old[v] # 0 => length'[old[v]] = length[old[v]]
    BY <1>1, <1>2, <1>3 DEF Points, MapGrows, Tables
  <1>5. tab[v] # 0 => length'[tab[v]] = length[tab[v]]
    BY <1>1, <1>2, <1>3 DEF Points, MapGrows, Tables
  <1> QED
    BY <1>1, <1>2, <1>3, <1>4, <1>5 DEF Points, Nodes

(* A step that leaves its thread the tables it works on. *)
LEMMA SamePoints ==
  ASSUME MapInv, MapInv', MapGrows, LocalInv, NEW v \in Verifications,
         kid'[v] = kid[v], tab'[v] = tab[v], old'[v] = old[v],
         at'[v] <= Len(key'), first'[v] <= Len(key'), ahead'[v] <= Len(key'),
         walked'[v] \subseteq 1..Len(key'),
         \A h \in Halves : head'[v][h] <= Len(key') /\ tail'[v][h] <= Len(key'),
         pc'[v] \in InMap => kid[v] \in KeyIds,
         pc'[v] \in Moving \cup Searching => tab[v] # 0,
         pc'[v] \in Moving => /\ 0 < old[v] /\ length[tab[v]] = 2 * length[old[v]]
                              /\ bucket'[v] < length[old[v]],
         pc'[v] = "newTable" => NewCapacity(v) <= MaxCapacity /\ number'[v] = number[v],
         pc'[v] \in {"clear", "single", "place", "split", "link", "walk", "getWalk"} =>
           at'[v] # 0
  PROVE  Points(v)'
  <1>1. /\ tab[v] <= Len(length') /\ old[v] <= Len(length')
        /\ old[v] # 0 => length'[old[v]] = length[old[v]]
        /\ tab[v] # 0 => length'[tab[v]] = length[tab[v]]
    BY StillThere
  <1>2. pc'[v] = "newTable" => NewCapacity(v)' <= MaxCapacity
    BY <1>1 DEF NewCapacity
  <1>3. pc'[v] \in Moving => Moves(v)'
    <2>1. old[v] \in Nat
      BY Locals DEF LocalInv
    <2> QED
      BY <1>1, <2>1 DEF Moves
  <1> QED
    BY <1>1, <1>2, <1>3 DEF Points, Nodes

(* A step keeps what its thread points to. *)
LEMMA PointsNext ==
  ASSUME MapInv, MapInv', MapGrows, LocalInv, NEW v \in Verifications, Step(v)
  PROVE  Points(v)'
  <1> USE DEF Continue, InMap, Moving, Searching
  <1>0. /\ v \in DOMAIN pc /\ v \in DOMAIN tab
        /\ v \in DOMAIN number /\ v \in DOMAIN at
        /\ v \in DOMAIN first /\ v \in DOMAIN walked
        /\ v \in DOMAIN old /\ v \in DOMAIN bucket
        /\ v \in DOMAIN ahead /\ v \in DOMAIN head
        /\ v \in DOMAIN tail
        /\ tab[v] \in Nat /\ old[v] \in Nat /\ bucket[v] \in Nat /\ at[v] \in Nat
        /\ tail[v] \in [Halves -> Nat] /\ head[v] \in [Halves -> Nat]
        /\ kid[v] \in KeyIds \cup {NoKeyId}
    BY Locals DEF LocalInv, LocalTypeOK
  <1>1. /\ pc[v] \in InMap => kid[v] \in KeyIds
        /\ pc[v] \in Moving \cup Searching => tab[v] # 0
        /\ pc[v] \in Moving => /\ 0 < old[v] /\ length[tab[v]] = 2 * length[old[v]]
                                /\ bucket[v] < length[old[v]]
        /\ pc[v] = "newTable" => NewCapacity(v) <= MaxCapacity
        /\ pc[v] \in {"clear", "single", "place", "split", "link", "walk", "getWalk"} =>
             at[v] # 0
    BY DEF LocalInv, Points, Moves
  <1>2. /\ at[v] <= Len(key') /\ first[v] <= Len(key') /\ ahead[v] <= Len(key')
        /\ walked[v] \subseteq 1..Len(key')
        /\ \A h \in Halves : head[v][h] <= Len(key') /\ tail[v][h] <= Len(key')
    BY StillThere
  <1>3. /\ Len(key) \in Nat /\ Len(key') \in Nat /\ Len(key) <= Len(key')
        /\ Len(length) \in Nat /\ Len(length') \in Nat /\ Len(length) <= Len(length')
        /\ table = Len(length) /\ table' = Len(length')
    BY NodeFacts DEF MapInv, MapTypeOK, MapGrows
  <1>4. at[v] # 0 => /\ at[v] \in 1..Len(key')
                     /\ next[at[v]] \in Nat /\ next[at[v]] <= Len(key')
    <2>1. at[v] # 0 => at[v] \in Nodes
      BY <1>0, <1>3 DEF LocalInv, Points, Nodes
    <2> QED
      BY <1>0, <1>2, <1>3, <2>1, NodeFacts
  <1>5. CASE \/ Verify(v) \/ ReadSize(v) \/ ReadThreshold(v) \/ ReadOldThreshold(v)
             \/ SetThreshold(v) \/ Fetch(v) \/ ReadCount(v) \/ WriteCount(v)
    <2>1. /\ kid'[v] = kid[v] /\ tab'[v] = tab[v] /\ old'[v] = old[v] /\ at'[v] = at[v]
          /\ first'[v] = first[v] /\ walked'[v] = walked[v] /\ ahead'[v] = ahead[v]
          /\ head'[v] = head[v] /\ tail'[v] = tail[v]
      BY <1>5 DEF Verify, ReadSize, ReadThreshold, ReadOldThreshold, SetThreshold, Fetch,
                  ReadCount, WriteCount, searchVars, moveVars
    <2>2. /\ pc'[v] \in InMap => kid[v] \in KeyIds
          /\ pc'[v] \in Searching => tab[v] # 0
          /\ pc'[v] \notin Moving
          /\ pc'[v] \notin {"clear", "single", "place", "split", "link", "walk", "getWalk"}
      BY <1>0, <1>1, <1>5 DEF Verify, ReadSize, ReadThreshold, ReadOldThreshold, SetThreshold,
                              Fetch, ReadCount, WriteCount
    <2>3. pc'[v] = "newTable" => NewCapacity(v) <= MaxCapacity /\ number'[v] = number[v]
      BY <1>0, <1>5 DEF Verify, ReadSize, ReadThreshold, ReadOldThreshold, SetThreshold,
                        Fetch, ReadCount, WriteCount, searchVars
    <2> QED
      BY <1>2, <2>1, <2>2, <2>3, SamePoints
  <1>6. CASE ReadTable(v) \/ Get(v)
    <2>1. /\ kid'[v] = kid[v] /\ old'[v] = old[v] /\ at'[v] = at[v] /\ tab'[v] = table
          /\ first'[v] = first[v] /\ walked'[v] = walked[v] /\ ahead'[v] = ahead[v]
          /\ head'[v] = head[v] /\ tail'[v] = tail[v]
      BY <1>0, <1>6 DEF ReadTable, Get, moveVars
    <2>2. /\ kid[v] \in KeyIds
          /\ pc'[v] \in {"oldTable", "lookup", "getFirst"} /\ (table = 0 => pc'[v] = "oldTable")
      <3>1. pc[v] = "get" => table # 0
        BY <1>0, <1>1, <1>3 DEF LocalInv, Points
      <3> QED
        BY <1>0, <1>1, <1>6, <3>1 DEF ReadTable, Get
    <2>3. tab'[v] <= Len(length') /\ old[v] <= Len(length')
      BY <1>3, <2>1, StillThere
    <2> QED
      BY <1>2, <2>1, <2>2, <2>3 DEF Points, Nodes
  <1>7. CASE ReadOldTable(v)
    <2>1. /\ kid'[v] = kid[v] /\ old'[v] = table /\ at'[v] = at[v] /\ tab'[v] = tab[v]
          /\ first'[v] = first[v] /\ walked'[v] = walked[v] /\ ahead'[v] = ahead[v]
          /\ head'[v] = head[v] /\ tail'[v] = tail[v] /\ pc'[v] = "oldThreshold"
      BY <1>0, <1>7 DEF ReadOldTable, searchVars
    <2>2. kid[v] \in KeyIds
      BY <1>0, <1>1, <1>7 DEF ReadOldTable
    <2>3. tab[v] <= Len(length') /\ old'[v] <= Len(length')
      BY <1>3, <2>1, StillThere
    <2> QED
      BY <1>2, <2>1, <2>2, <2>3 DEF Points, Nodes
  <1>8. CASE SetTable(v)
    <2>1. /\ kid'[v] = kid[v] /\ old'[v] = old[v] /\ at'[v] = at[v]
          /\ tab'[v] = Len(length) + 1 /\ bucket'[v] = 0
          /\ first'[v] = first[v] /\ walked'[v] = walked[v] /\ ahead'[v] = ahead[v]
          /\ head'[v] = head[v] /\ tail'[v] = tail[v]
          /\ pc'[v] = IF old[v] = 0 THEN "lookup" ELSE "take"
          /\ length' = Append(length, NewCapacity(v)) /\ pc[v] = "newTable"
      BY <1>0, <1>8 DEF SetTable
    <2>2. length \in Seq(1..MaxCapacity) /\ NewCapacity(v) \in 1..MaxCapacity
      BY <1>1, <2>1, NewCapacityFacts, CapacityAssumption DEF MapInv, MapTypeOK
    <2>3. Len(length') = Len(length) + 1 /\ length'[Len(length) + 1] = NewCapacity(v)
      BY ONLY <2>1, <2>2
    <2>4. pc'[v] \in Moving => Moves(v)'
      <3>1. CASE old[v] = 0
        BY <2>1, <3>1
      <3>2. CASE old[v] # 0
        <4>1. length'[old[v]] = length[old[v]]
          BY <3>2, StillThere
        <4>2. length[old[v]] \in 1..MaxCapacity
          BY <1>0, <1>3, <3>2, TableFacts DEF LocalInv, Points, Tables
        <4>3. NewCapacity(v) = 2 * length[old[v]]
          BY <3>2 DEF NewCapacity
        <4> QED
          BY <1>0, <2>1, <2>3, <3>2, <4>1, <4>2, <4>3, CapacityAssumption DEF Moves
      <3> QED
        BY <3>1, <3>2
    <2>5. tab'[v] <= Len(length') /\ tab'[v] # 0 /\ old[v] <= Len(length')
      BY <1>3, <2>1, <2>3, StillThere
    <2>6. kid[v] \in KeyIds /\ pc'[v] \in {"lookup", "take"}
      BY <1>1, <2>1
    <2> QED
      BY <1>2, <2>1, <2>4, <2>5, <2>6 DEF Points, Nodes
  <1>9. ASSUME NextBucket(v)
        PROVE  /\ pc'[v] \in {"take", "lookup"}
               /\ pc'[v] = "take" => bucket'[v] < length[old[v]]
    BY <1>0, <1>9 DEF NextBucket
  <1>10. CASE Take(v)
    <2>1. /\ kid'[v] = kid[v] /\ tab'[v] = tab[v] /\ old'[v] = old[v]
          /\ at'[v] = slot[old[v]][bucket[v]]
          /\ first'[v] = first[v] /\ walked'[v] = walked[v] /\ ahead'[v] = ahead[v]
          /\ head'[v] = head[v] /\ tail'[v] = tail[v] /\ pc[v] = "take"
      BY <1>0, <1>10 DEF Take
    <2>2. slot[old[v]][bucket[v]] \in 0..Len(key)
      BY <2>1, MovingFacts, TableFacts
    <2>3. at'[v] <= Len(key')
      BY <1>3, <2>1, <2>2
    <2>4. \/ NextBucket(v)
          \/ at'[v] # 0 /\ pc'[v] = "clear" /\ bucket'[v] = bucket[v]
      BY <1>0, <1>10 DEF Take
    <2>5. /\ pc'[v] \in {"take", "lookup", "clear"}
          /\ pc'[v] = "clear" => at'[v] # 0
          /\ pc'[v] \in Moving => bucket'[v] < length[old[v]]
      BY <1>1, <1>9, <2>1, <2>4
    <2> QED
      BY <1>1, <1>2, <2>1, <2>3, <2>5, SamePoints
  <1>11. CASE Clear(v) \/ CheckSingle(v) \/ PutLow(v)
    <2>1. /\ kid'[v] = kid[v] /\ tab'[v] = tab[v] /\ old'[v] = old[v] /\ at'[v] = at[v]
          /\ first'[v] = first[v] /\ walked'[v] = walked[v] /\ ahead'[v] = ahead[v]
          /\ bucket'[v] = bucket[v]
      BY <1>11 DEF Clear, CheckSingle, PutLow, searchVars, moveVars
    <2>2. \A h \in Halves : head'[v][h] <= Len(key') /\ tail'[v][h] <= Len(key')
      <3>1. CASE Clear(v) \/ PutLow(v)
        BY <1>2, <3>1 DEF Clear, PutLow, moveVars
      <3>2. CASE CheckSingle(v)
        BY <1>0, <1>3, <3>2 DEF CheckSingle, NoNodes
      <3> QED
        BY <1>11, <3>1, <3>2
    <2>3. /\ pc[v] \in {"clear", "single", "putLow"}
          /\ pc'[v] \in {"single", "place", "split", "endHigh"}
          /\ pc'[v] # "endHigh" => pc[v] \in {"clear", "single"}
      BY <1>0, <1>11 DEF Clear, CheckSingle, PutLow
    <2> QED
      BY <1>1, <1>2, <2>1, <2>2, <2>3, SamePoints
  <1>12. CASE Place(v) \/ PutHigh(v)
    <2>1. /\ kid'[v] = kid[v] /\ tab'[v] = tab[v] /\ old'[v] = old[v] /\ at'[v] = at[v]
          /\ first'[v] = first[v] /\ walked'[v] = walked[v] /\ ahead'[v] = ahead[v]
          /\ head'[v] = head[v] /\ tail'[v] = tail[v]
      BY <1>12 DEF Place, PutHigh, searchVars
    <2>2. pc[v] \in {"place", "putHigh"} /\ NextBucket(v)
      BY <1>12 DEF Place, PutHigh
    <2> QED
      BY <1>1, <1>2, <1>9, <2>1, <2>2, SamePoints
  <1>13. CASE ReadNext(v)
    <2>1. /\ kid'[v] = kid[v] /\ tab'[v] = tab[v] /\ old'[v] = old[v] /\ at'[v] = at[v]
          /\ first'[v] = first[v] /\ walked'[v] = walked[v] /\ ahead'[v] = next[at[v]]
          /\ head'[v] = head[v] /\ tail'[v] = tail[v] /\ bucket'[v] = bucket[v]
          /\ pc[v] = "split" /\ pc'[v] = "link"
      BY <1>0, <1>13 DEF ReadNext, searchVars
    <2>2. ahead'[v] <= Len(key') /\ at[v] # 0
      BY <1>1, <1>4, <2>1
    <2> QED
      BY <1>1, <1>2, <2>1, <2>2, SamePoints
  <1>14. CASE Link(v)
    <2> DEFINE h == HalfOf(v, at[v])
    <2>1. h \in Halves /\ pc[v] = "link"
      BY <1>14 DEF Link, HalfOf, Halves
    <2>2. /\ kid'[v] = kid[v] /\ tab'[v] = tab[v] /\ old'[v] = old[v] /\ at'[v] = ahead[v]
          /\ first'[v] = first[v] /\ walked'[v] = walked[v] /\ ahead'[v] = ahead[v]
          /\ bucket'[v] = bucket[v]
          /\ pc'[v] = IF ahead[v] = 0 THEN "endLow" ELSE "split"
      BY <1>0, <1>14 DEF Link
    <2>3. /\ tail' = [tail EXCEPT ![v][h] = at[v]]
          /\ head' = head \/ head' = [head EXCEPT ![v][h] = at[v]]
      BY <1>14 DEF Link
    <2>4. \A i \in Halves : head'[v][i] <= Len(key') /\ tail'[v][i] <= Len(key')
      <3> HIDE DEF h
      <3>1. \A i \in Halves : tail'[v][i] = IF i = h THEN at[v] ELSE tail[v][i]
        BY <1>0, <2>1, <2>3
      <3>2. \A i \in Halves : head'[v][i] \in {at[v], head[v][i]}
        BY <1>0, <2>1, <2>3
      <3> QED
        BY <1>2, <3>1, <3>2
    <2> QED
      BY <1>1, <1>2, <2>1, <2>2, <2>4, SamePoints
  <1>15. CASE EndLow(v) \/ EndHigh(v)
    <2>1. /\ kid'[v] = kid[v] /\ tab'[v] = tab[v] /\ old'[v] = old[v] /\ at'[v] = at[v]
          /\ first'[v] = first[v] /\ walked'[v] = walked[v] /\ ahead'[v] = ahead[v]
          /\ head'[v] = head[v] /\ tail'[v] = tail[v] /\ pc[v] \in {"endLow", "endHigh"}
      BY <1>15 DEF EndLow, EndHigh, EndChain, searchVars
    <2>2. \/ NextBucket(v)
          \/ bucket' = bucket /\ pc'[v] \in {"endHigh", "putLow", "putHigh"}
      BY <1>0, <1>15 DEF EndLow, EndHigh, EndChain
    <2>3. /\ pc'[v] \in {"take", "lookup", "endHigh", "putLow", "putHigh"}
          /\ pc'[v] \in Moving => bucket'[v] < length[old[v]]
      BY <1>1, <1>9, <2>1, <2>2
    <2> QED
      BY <1>1, <1>2, <2>1, <2>3, SamePoints
  <1>16. pc[v] \in {"lookup", "getFirst"} =>
           slot[tab[v]][Index(tab[v], kid[v])] \in 0..Len(key)
    <2>1. pc[v] \in {"lookup", "getFirst"} => tab[v] \in Tables
      BY <1>0, <1>1, <1>3 DEF LocalInv, Points, Tables
    <2> QED
      BY <1>1, <2>1, TableFacts
  <1>17. CASE Lookup(v) \/ GetFirst(v)
    <2> DEFINE n == slot[tab[v]][Index(tab[v], kid[v])]
    <2>1. /\ kid'[v] = kid[v] /\ tab'[v] = tab[v] /\ old'[v] = old[v] /\ at'[v] = n
          /\ first'[v] \in {first[v], n} /\ walked'[v] \subseteq walked[v]
          /\ ahead'[v] = ahead[v] /\ head'[v] = head[v] /\ tail'[v] = tail[v]
          /\ pc[v] \in {"lookup", "getFirst"}
          /\ pc'[v] \in {"fetch", "walk", "refused", "getWalk"}
          /\ pc'[v] \in {"walk", "getWalk"} => n # 0
      BY <1>0, <1>17 DEF Lookup, GetFirst, moveVars
    <2>2. n <= Len(key')
      BY <1>3, <1>16, <2>1
    <2> HIDE DEF n
    <2> QED
      BY <1>1, <1>2, <2>1, <2>2, SamePoints
  <1>18. CASE Walk(v) \/ GetWalk(v)
    <2>1. /\ kid'[v] = kid[v] /\ tab'[v] = tab[v] /\ old'[v] = old[v]
          /\ at'[v] \in {at[v], next[at[v]]}
          /\ first'[v] = first[v] /\ walked'[v] \subseteq walked[v] \cup {at[v]}
          /\ ahead'[v] = ahead[v] /\ head'[v] = head[v] /\ tail'[v] = tail[v]
          /\ pc[v] \in {"walk", "getWalk"}
          /\ pc'[v] \in {"walk", "fetch", "get", "verified", "refused", "getWalk"}
          /\ pc'[v] \in {"walk", "getWalk"} => at'[v] # 0
      BY <1>0, <1>18 DEF Walk, GetWalk, moveVars
    <2>2. at[v] # 0
      BY <1>1, <2>1
    <2>3. at'[v] <= Len(key') /\ walked'[v] \subseteq 1..Len(key')
      BY <1>2, <1>4, <2>1, <2>2
    <2> QED
      BY <1>1, <1>2, <2>1, <2>3, SamePoints
  <1>19. CASE Insert(v)
    <2>1. /\ kid'[v] = kid[v] /\ tab'[v] = tab[v] /\ old'[v] = old[v] /\ at'[v] = at[v]
          /\ first'[v] = first[v] /\ walked'[v] = {Len(key) + 1} /\ ahead'[v] = ahead[v]
          /\ head'[v] = head[v] /\ tail'[v] = tail[v]
          /\ pc[v] = "insert" /\ pc'[v] = "count" /\ key' = Append(key, kid[v])
      BY <1>0, <1>19 DEF Insert, moveVars
    <2>2. key \in Seq(KeyIds) /\ kid[v] \in KeyIds
      BY <1>1, <2>1 DEF MapInv, MapTypeOK
    <2>3. Len(key') = Len(key) + 1
      BY ONLY <2>1, <2>2
    <2>4. walked'[v] \subseteq 1..Len(key')
      BY <1>3, <2>1, <2>3
    <2> QED
      BY <1>1, <1>2, <2>1, <2>4, SamePoints
  <1> QED
    BY <1>5, <1>6, <1>7, <1>8, <1>10, <1>11, <1>12, <1>13, <1>14, <1>15, <1>17, <1>18, <1>19
    DEF Step, Compute, Resize

(* A step keeps the order of what its thread links. *)
LEMMA LinksNext ==
  ASSUME MapInv, LocalInv, NEW v \in Verifications, Step(v)
  PROVE  Links(v)'
  <1> USE DEF Continue
  <1>0. /\ v \in DOMAIN pc /\ v \in DOMAIN at /\ v \in DOMAIN ahead /\ v \in DOMAIN tail
        /\ at[v] \in Nat /\ ahead[v] \in Nat /\ tail[v] \in [Halves -> Nat]
        /\ Points(v) /\ Links(v)
    BY Locals DEF LocalInv, LocalTypeOK
  <1>1. CASE pc'[v] \notin {"split", "link"}
    BY <1>1 DEF Links
  <1>2. CASE CheckSingle(v)
    BY <1>0, <1>2 DEF CheckSingle, NoNodes, Links
  <1>3. CASE ReadNext(v)
    <2>1. at[v] \in Nodes
      BY <1>0, <1>3, NodeFacts DEF ReadNext, Points, Nodes
    <2>2. /\ ahead'[v] = next[at[v]] /\ at'[v] = at[v] /\ tail'[v] = tail[v]
          /\ pc[v] = "split" /\ pc'[v] = "link"
      BY <1>0, <1>3 DEF ReadNext, searchVars
    <2> QED
      BY <1>0, <2>1, <2>2, NodeFacts DEF Links
  <1>4. CASE Link(v)
    <2> DEFINE h == HalfOf(v, at[v])
    <2>1. /\ h \in Halves /\ pc[v] = "link" /\ at'[v] = ahead[v]
          /\ pc'[v] \in {"split", "endLow"} /\ tail' = [tail EXCEPT ![v][h] = at[v]]
      BY <1>0, <1>4 DEF Link, HalfOf, Halves
    <2> HIDE DEF h
    <2>2. \A i \in Halves : tail'[v][i] = IF i = h THEN at[v] ELSE tail[v][i]
      BY <1>0, <2>1
    <2>3. ahead[v] < at[v] /\ \A i \in Halves : tail[v][i] = 0 \/ at[v] < tail[v][i]
      BY <1>0, <2>1 DEF Links
    <2>4. \A i \in Halves : tail'[v][i] = 0 \/ at'[v] < tail'[v][i]
      BY <1>0, <2>1, <2>2, <2>3
    <2> QED
      BY <2>1, <2>4 DEF Links
  <1>5. ASSUME ~CheckSingle(v), ~ReadNext(v), ~Link(v)
        PROVE  pc'[v] \notin {"split", "link"}
    <2>1. CASE \/ Verify(v) \/ ReadSize(v) \/ ReadThreshold(v) \/ ReadTable(v)
               \/ ReadOldTable(v) \/ ReadOldThreshold(v) \/ SetThreshold(v) \/ SetTable(v)
      BY <1>0, <2>1 DEF Verify, ReadSize, ReadThreshold, ReadTable, ReadOldTable,
                        ReadOldThreshold, SetThreshold, SetTable
    <2>2. CASE \/ Take(v) \/ Clear(v) \/ Place(v) \/ EndLow(v) \/ PutLow(v) \/ EndHigh(v)
               \/ PutHigh(v)
      BY <1>0, <2>2 DEF Take, Clear, Place, EndLow, PutLow, EndHigh, PutHigh, EndChain, NextBucket
    <2>3. CASE \/ Lookup(v) \/ Walk(v) \/ Fetch(v) \/ Insert(v) \/ ReadCount(v)
               \/ WriteCount(v) \/ Get(v) \/ GetFirst(v) \/ GetWalk(v)
      BY <1>0, <2>3 DEF Lookup, Walk, Fetch, Insert, ReadCount, WriteCount, Get, GetFirst, GetWalk
    <2> QED
      BY <1>5, <2>1, <2>2, <2>3 DEF Step, Compute, Resize
  <1> QED
    BY <1>1, <1>2, <1>3, <1>4, <1>5

-----------------------------------------------------------------------------
(* What a thread may rely on *)

(* A step that writes to tables or links disturbs the others. *)
LEMMA QuietOrDisturbs ==
  ASSUME NEW v \in Verifications, Step(v)
  PROVE  \/ UNCHANGED <<nodeVars, tableVars, table, disturbed>>
         \/ Disturb(v)
  <1>1. CASE \/ Verify(v) \/ ReadSize(v) \/ ReadThreshold(v) \/ ReadTable(v)
             \/ ReadOldTable(v) \/ ReadOldThreshold(v) \/ SetThreshold(v) \/ SetTable(v)
    BY <1>1 DEF Verify, ReadSize, ReadThreshold, ReadTable, ReadOldTable,
                ReadOldThreshold, SetThreshold, SetTable, fieldVars
  <1>2. CASE \/ Take(v) \/ Clear(v) \/ CheckSingle(v) \/ Place(v) \/ ReadNext(v)
             \/ PutLow(v) \/ PutHigh(v)
    BY <1>2 DEF Take, Clear, CheckSingle, Place, ReadNext, PutLow, PutHigh, Write, fieldVars
  <1>3. CASE Link(v) \/ EndLow(v) \/ EndHigh(v)
    BY <1>3 DEF Link, EndLow, EndHigh, EndChain, fieldVars, nodeVars
  <1>4. CASE \/ Lookup(v) \/ Walk(v) \/ Fetch(v) \/ Insert(v) \/ ReadCount(v)
             \/ WriteCount(v) \/ Get(v) \/ GetFirst(v) \/ GetWalk(v)
    BY <1>4 DEF Lookup, Walk, Fetch, Insert, ReadCount, WriteCount, Get, GetFirst, GetWalk,
                Write, fieldVars
  <1> QED
    BY <1>1, <1>2, <1>3, <1>4 DEF Step, Compute, Resize

(* Who is disturbed stays so, and nobody disturbs itself. *)
LEMMA DisturbedStays ==
  ASSUME LocalTypeOK, NEW v \in Verifications, Step(v), NEW w \in Verifications
  PROVE  /\ disturbed[w] => disturbed'[w]
         /\ disturbed'[v] = disturbed[v]
         /\ Disturb(v) /\ w # v /\ pc[w] \in InMap => disturbed'[w]
  <1>1. CASE Disturb(v)
    BY <1>1 DEF Disturb, LocalTypeOK
  <1>2. CASE ~Disturb(v)
    BY <1>2, QuietOrDisturbs
  <1> QED
    BY <1>1, <1>2

(* What another thread relies on is untouched, or it has been disturbed. *)
LEMMA OthersRely ==
  ASSUME LocalInv, CacheCoherent, NEW v \in Verifications, Step(v),
         NEW w \in Verifications, w # v, ~disturbed'[w]
  PROVE  Relies(w)'
  <1>1. /\ pc'[w] = pc[w] /\ kid'[w] = kid[w] /\ tab'[w] = tab[w]
        /\ at'[w] = at[w] /\ walked'[w] = walked[w]
    BY OthersStay DEF LocalInv
  <1>2. CASE pc[w] \notin InMap
    BY <1>1, <1>2 DEF Relies, InMap, Moving, Searching
  <1>3. CASE pc[w] \in InMap
    <2>1. UNCHANGED <<nodeVars, tableVars, table>> /\ ~disturbed[w]
      BY <1>3, QuietOrDisturbs, DisturbedStays DEF LocalInv
    <2>2. Relies(w)
      BY <2>1 DEF CacheCoherent
    <2>3. key' = key /\ next' = next /\ length' = length /\ slot' = slot /\ table' = table
      BY <2>1 DEF nodeVars, tableVars
    <2>4. Passed(w) => Passed(w)'
      BY <1>1, <2>3 DEF Passed, FirstNode, Index
    <2>5. Found(w) => Found(w)'
      BY <1>1, <2>3 DEF Found, Index
    <2> QED
      BY <1>1, <2>2, <2>3, <2>4, <2>5 DEF Relies
  <1> QED
    BY <1>2, <1>3

(* What a thread relies on is so after its own step. *)
LEMMA ActorRelies ==
  ASSUME MapInv, LocalInv, CacheCoherent, NEW v \in Verifications, Step(v), ~disturbed'[v]
  PROVE  Relies(v)'
  <1> USE DEF Continue
  <1>0. /\ v \in DOMAIN pc /\ v \in DOMAIN tab /\ v \in DOMAIN at
        /\ v \in DOMAIN first /\ v \in DOMAIN walked /\ Relies(v)
    BY DisturbedStays DEF LocalInv, LocalTypeOK, CacheCoherent
  <1>1. CASE \/ Verify(v) \/ ReadSize(v) \/ ReadThreshold(v) \/ ReadOldTable(v)
             \/ ReadOldThreshold(v) \/ SetThreshold(v)
    <2>1. pc'[v] \in {"failed", "size", "threshold", "oldTable", "table", "oldThreshold",
                      "newThreshold", "newTable"}
      BY <1>0, <1>1 DEF Verify, ReadSize, ReadThreshold, ReadOldTable, ReadOldThreshold,
                        SetThreshold
    <2> QED
      BY <2>1 DEF Relies, Moving, Searching
  <1>2. CASE ReadTable(v) \/ SetTable(v)
    <2>1. pc'[v] \in {"oldTable", "lookup", "take"} /\ tab'[v] = table'
      BY <1>0, <1>2 DEF ReadTable, SetTable, fieldVars
    <2> QED
      BY <2>1 DEF Relies, Moving, Searching
  <1>3. CASE \/ Take(v) \/ Clear(v) \/ CheckSingle(v) \/ Place(v) \/ ReadNext(v) \/ Link(v)
             \/ EndLow(v) \/ PutLow(v) \/ EndHigh(v) \/ PutHigh(v)
    <2>1. pc[v] \in Moving
      BY <1>3 DEF Take, Clear, CheckSingle, Place, ReadNext, Link, EndLow, PutLow, EndHigh,
                  PutHigh, Moving
    <2>2. tab[v] = table
      BY <1>0, <2>1 DEF Relies, Moving
    <2>3. tab' = tab /\ table' = table
      BY <1>3 DEF Take, Clear, CheckSingle, Place, ReadNext, Link, EndLow, PutLow, EndHigh,
                  PutHigh, EndChain, fieldVars, searchVars
    <2>4. pc'[v] \in Moving \cup {"lookup"}
      <3>1. CASE Take(v) \/ Clear(v) \/ CheckSingle(v) \/ Place(v) \/ ReadNext(v)
        BY <1>0, <3>1 DEF Take, Clear, CheckSingle, Place, ReadNext, NextBucket, Moving
      <3>2. CASE Link(v)
        BY <1>0, <3>2 DEF Link, Moving
      <3>3. CASE EndLow(v) \/ EndHigh(v)
        BY <1>0, <3>3 DEF EndLow, EndHigh, EndChain, NextBucket, Moving
      <3>4. CASE PutLow(v) \/ PutHigh(v)
        BY <1>0, <3>4 DEF PutLow, PutHigh, NextBucket, Moving
      <3> QED
        BY <1>3, <3>1, <3>2, <3>3, <3>4
    <2> QED
      BY <2>2, <2>3, <2>4 DEF Relies, Moving
  <1>4. pc[v] \in Searching \ {"get"} => tab[v] = table
    BY <1>0 DEF Relies
  <1>5. CASE Lookup(v)
    <2>1. /\ tab' = tab /\ table' = table /\ slot' = slot /\ length' = length /\ kid' = kid
          /\ at'[v] = FirstNode(v) /\ walked'[v] = {} /\ pc'[v] \in {"fetch", "walk"}
          /\ pc[v] = "lookup"
      BY <1>0, <1>5 DEF Lookup, fieldVars, tableVars, FirstNode
    <2>2. FirstNode(v)' = FirstNode(v)
      BY <2>1 DEF FirstNode, Index
    <2>3. Passed(v)'
      BY <2>1, <2>2 DEF Passed
    <2>4. tab'[v] = table'
      BY <1>4, <2>1 DEF Searching
    <2> QED
      BY <2>1, <2>3, <2>4 DEF Relies
  <1>6. CASE Walk(v)
    <2>1. /\ tab' = tab /\ table' = table /\ slot' = slot /\ length' = length /\ kid' = kid
          /\ key' = key /\ next' = next
          /\ walked'[v] = walked[v] \cup {at[v]} /\ pc[v] = "walk"
      BY <1>0, <1>6 DEF Walk, fieldVars, tableVars, nodeVars
    <2>2. Passed(v) /\ tab[v] = table
      BY <1>0, <1>4, <2>1 DEF Relies, Searching
    <2>3. FirstNode(v)' = FirstNode(v)
      BY <2>1 DEF FirstNode, Index
    <2>4. CASE key[at[v]] = kid[v]
      <3>1. pc'[v] = "get"
        BY <1>0, <1>6, <2>4 DEF Walk
      <3>2. slot[table][Index(table, kid[v])] = FirstNode(v)
        BY <2>2 DEF FirstNode
      <3>3. Found(v)'
        BY <2>1, <2>2, <2>4, <3>2 DEF Passed, Found, Index
      <3> QED
        BY <3>1, <3>3 DEF Relies
    <2>5. CASE key[at[v]] # kid[v]
      <3>1. at'[v] = next[at[v]] /\ pc'[v] \in {"fetch", "walk"}
        BY <1>0, <1>6, <2>5 DEF Walk
      <3>2. FirstNode(v)' \in walked'[v] \cup {at'[v]}
        BY <2>1, <2>2, <2>3 DEF Passed
      <3>3. \A n \in walked'[v] : key[n] # kid[v] /\ next[n] \in walked'[v] \cup {at'[v]}
        BY <2>1, <2>2, <2>5, <3>1 DEF Passed
      <3>4. Passed(v)'
        BY <2>1, <3>2, <3>3 DEF Passed
      <3> QED
        BY <2>1, <2>2, <3>1, <3>4 DEF Relies
    <2> QED
      BY <2>4, <2>5
  <1>7. CASE Fetch(v)
    <2>1. tab' = tab /\ table' = table /\ pc[v] = "fetch" /\ pc'[v] \in {"insert", "failed"}
      BY <1>0, <1>7 DEF Fetch, fieldVars, searchVars
    <2> QED
      BY <1>4, <2>1 DEF Relies, Moving, Searching
  <1>8. CASE Insert(v)
    <2> DEFINE n == Len(key) + 1
    <2>1. /\ tab' = tab /\ table' = table /\ length' = length /\ kid' = kid
          /\ key' = Append(key, kid[v]) /\ walked'[v] = {n}
          /\ slot' = [slot EXCEPT ![tab[v]][Index(tab[v], kid[v])] = n]
          /\ pc[v] = "insert" /\ pc'[v] = "count"
      BY <1>0, <1>8 DEF Insert, Write, fieldVars
    <2>2. tab[v] = table
      BY <1>4, <2>1 DEF Searching
    <2>3. kid[v] \in KeyIds /\ tab[v] \in Tables
      BY <2>1, Locals DEF LocalInv, Points, InMap, Searching, Tables, MapInv, MapTypeOK
    <2>4. key'[n] = kid[v]
      <3>1. key \in Seq(KeyIds)
        BY DEF MapInv, MapTypeOK
      <3> QED
        BY ONLY <2>1, <2>3, <3>1
    <2>5. slot'[tab[v]][Index(tab[v], kid[v])] = n
      <3> DEFINE i == Index(tab[v], kid[v])
      <3>1. tab[v] \in DOMAIN slot /\ slot[tab[v]] \in [0..(length[tab[v]] - 1) -> 0..Len(key)]
        BY <2>3 DEF MapInv, MapTypeOK
      <3>2. i \in 0..(length[tab[v]] - 1)
        BY <2>3, TableFacts
      <3> HIDE DEF i
      <3>3. slot'[tab[v]][i] = n
        BY <2>1, <3>1, <3>2 DEF i
      <3> QED
        BY <3>3 DEF i
    <2>6. Index(table, kid[v])' = Index(tab[v], kid[v])
      BY <2>1, <2>2 DEF Index
    <2> HIDE DEF n
    <2>7. Found(v)'
      BY <2>1, <2>2, <2>4, <2>5, <2>6 DEF Found
    <2> QED
      BY <2>1, <2>2, <2>7 DEF Relies
  <1>9. CASE ReadCount(v) \/ WriteCount(v) \/ Get(v)
    <2>1. /\ table' = table /\ slot' = slot /\ length' = length /\ kid' = kid
          /\ key' = key /\ next' = next /\ walked' = walked
          /\ pc[v] \in {"count", "counted", "get"}
      BY <1>9 DEF ReadCount, WriteCount, Get, fieldVars, nodeVars, tableVars, searchVars
    <2>2. /\ pc'[v] \in {"counted", "get", "getFirst"}
          /\ pc'[v] # "get" => tab'[v] = table'
      <3>1. CASE ReadCount(v) \/ WriteCount(v)
        BY <1>0, <1>4, <2>1, <3>1 DEF ReadCount, WriteCount, Searching, searchVars
      <3>2. CASE Get(v)
        BY <1>0, <2>1, <3>2 DEF Get
      <3> QED
        BY <1>9, <3>1, <3>2
    <2>3. Found(v)
      BY <1>0, <2>1 DEF Relies
    <2>4. Found(v)'
      BY <2>1, <2>3 DEF Found, Index
    <2> QED
      BY <2>2, <2>4 DEF Relies
  <1>10. CASE GetFirst(v) \/ GetWalk(v)
    <2>1. /\ tab' = tab /\ table' = table /\ slot' = slot /\ length' = length /\ kid' = kid
          /\ key' = key /\ next' = next /\ walked' = walked
          /\ pc[v] \in {"getFirst", "getWalk"}
          /\ pc'[v] \in {"refused", "getWalk", "verified"}
      BY <1>0, <1>10 DEF GetFirst, GetWalk, fieldVars, nodeVars, tableVars
    <2>2. tab[v] = table /\ Found(v)
      BY <1>0, <2>1 DEF Relies, Searching
    <2>3. Found(v)'
      BY <2>1, <2>2 DEF Found, Index
    <2>4. pc'[v] = "getWalk" => at'[v] \in walked'[v]
      <3>1. CASE GetFirst(v)
        <4>1. at'[v] = slot[tab[v]][Index(tab[v], kid[v])]
          BY <1>0, <3>1 DEF GetFirst
        <4> QED
          BY <2>1, <2>2, <4>1 DEF Found
      <3>2. CASE GetWalk(v)
        <4>1. pc[v] = "getWalk" /\ at[v] \in walked[v]
          BY <1>0, <3>2 DEF GetWalk, Relies
        <4>2. CASE key[at[v]] = kid[v]
          BY <1>0, <3>2, <4>2 DEF GetWalk
        <4>3. CASE key[at[v]] # kid[v]
          <5>1. at'[v] = next[at[v]]
            BY <1>0, <3>2, <4>3 DEF GetWalk
          <5> QED
            BY <2>1, <2>2, <4>1, <4>3, <5>1 DEF Found
        <4> QED
          BY <4>2, <4>3
      <3> QED
        BY <1>10, <3>1, <3>2
    <2> QED
      BY <2>1, <2>2, <2>3, <2>4 DEF Relies
  <1> QED
    BY <1>1, <1>2, <1>3, <1>5, <1>6, <1>7, <1>8, <1>9, <1>10 DEF Step, Compute, Resize

-----------------------------------------------------------------------------
(* Who may be refused *)

(* A step refuses only a token whose thread has been disturbed: the nodes that
   lead to a key that can be found are not null. *)
LEMMA RefusalNext ==
  ASSUME MapInv, LocalInv, CacheCoherent, RefusedOnlyWhenDisturbed,
         NEW v \in Verifications, Step(v)
  PROVE  RefusedOnlyWhenDisturbed'
  <1> USE DEF Continue
  <1> SUFFICES ASSUME NEW w \in Verifications, pc'[w] = "refused", ~disturbed'[w]
               PROVE  FALSE
    BY DEF RefusedOnlyWhenDisturbed
  <1>1. ~disturbed[w]
    BY DisturbedStays DEF LocalInv
  <1>2. pc[w] # "refused"
    BY <1>1 DEF RefusedOnlyWhenDisturbed
  <1>3. w = v
    BY <1>2, OthersStay DEF LocalInv
  <1>4. v \in DOMAIN pc /\ Relies(v) /\ 0 \notin walked[v]
    BY <1>1, <1>3 DEF LocalInv, LocalTypeOK, CacheCoherent, Points, Nodes
  <1>5. GetFirst(v) \/ GetWalk(v)
    <2>1. CASE \/ Verify(v) \/ ReadSize(v) \/ ReadThreshold(v) \/ ReadTable(v)
               \/ ReadOldTable(v) \/ ReadOldThreshold(v) \/ SetThreshold(v) \/ SetTable(v)
      BY <1>3, <1>4, <2>1 DEF Verify, ReadSize, ReadThreshold, ReadTable, ReadOldTable,
                              ReadOldThreshold, SetThreshold, SetTable
    <2>2. CASE \/ Take(v) \/ Clear(v) \/ CheckSingle(v) \/ Place(v) \/ ReadNext(v) \/ Link(v)
      BY <1>2, <1>3, <1>4, <2>2 DEF Take, Clear, CheckSingle, Place, ReadNext, Link, NextBucket
    <2>3. CASE EndLow(v) \/ PutLow(v) \/ EndHigh(v) \/ PutHigh(v)
      BY <1>3, <1>4, <2>3 DEF EndLow, PutLow, EndHigh, PutHigh, EndChain, NextBucket
    <2>4. CASE \/ Lookup(v) \/ Walk(v) \/ Fetch(v) \/ Insert(v) \/ ReadCount(v)
               \/ WriteCount(v) \/ Get(v)
      BY <1>3, <1>4, <2>4 DEF Lookup, Walk, Fetch, Insert, ReadCount, WriteCount, Get
    <2> QED
      BY <2>1, <2>2, <2>3, <2>4 DEF Step, Compute, Resize
  <1>6. CASE GetFirst(v)
    <2>1. pc[v] = "getFirst" /\ slot[tab[v]][Index(tab[v], kid[v])] = 0
      BY <1>3, <1>4, <1>6 DEF GetFirst
    <2>2. tab[v] = table /\ Found(v)
      BY <1>4, <2>1 DEF Relies, Searching
    <2> QED
      BY <1>4, <2>1, <2>2 DEF Found
  <1>7. CASE GetWalk(v)
    <2>1. pc[v] = "getWalk" /\ key[at[v]] # kid[v] /\ next[at[v]] = 0
      BY <1>3, <1>4, <1>7 DEF GetWalk
    <2>2. at[v] \in walked[v] /\ Found(v)
      BY <1>4, <2>1 DEF Relies
    <2> QED
      BY <1>4, <2>1, <2>2 DEF Found
  <1> QED
    BY <1>5, <1>6, <1>7

-----------------------------------------------------------------------------
(* The map found *)

(* The newest of some nodes is one of them. *)
LEMMA NewestFacts ==
  ASSUME NEW m \in Nat, NEW S \in SUBSET (1..m)
  PROVE  Newest(S) \in 0..m
  <1>1. CASE \E n \in S : \A j \in S : j <= n
    <2>1. Newest(S) = CHOOSE n \in S : \A j \in S : j <= n
      BY <1>1, Zenon DEF Newest
    <2>2. (CHOOSE n \in S : \A j \in S : j <= n) \in S
      BY <1>1, Zenon
    <2>3. Newest(S) \in S
      BY <2>1, <2>2, Zenon
    <2>4. Newest(S) \in 1..m
      BY <2>3, Zenon
    <2>5. 1..m \subseteq 0..m
      OBVIOUS
    <2> QED
      BY <2>4, <2>5, Zenon
  <1>2. CASE ~\E n \in S : \A j \in S : j <= n
    <2>1. Newest(S) = 0
      BY <1>2, Zenon DEF Newest
    <2> QED
      BY <2>1
  <1> QED
    BY <1>1, <1>2

(* A map that has been filled has the types of one. *)
LEMMA FilledMap ==
  ASSUME NEW capacity \in {InitialCapacity, (3 * InitialCapacity) \div 4},
         NEW fill \in Seq(KeyIds), Filled(capacity, fill)
  PROVE  MapInv
  <1> DEFINE slotOf(n) == BitAnd(capacity - 1, Hash[fill[n]])
             older(n) == {m \in 1..(n - 1) : slotOf(m) = slotOf(n)}
             put(i) == {n \in DOMAIN fill : slotOf(n) = i}
             array == [i \in 0..(capacity - 1) |-> Newest(put(i))]
  <1>1. capacity \in 1..MaxCapacity /\ capacity \in Nat
    <2>1. (3 * InitialCapacity) \div 4 \in 1..InitialCapacity
      BY CapacityAssumption
    <2> QED
      BY <2>1, CapacityAssumption
  <1>2. key = fill /\ Len(fill) \in Nat /\ DOMAIN fill = 1..Len(fill)
    BY DEF Filled
  <1>3. next = [n \in DOMAIN fill |-> Newest(older(n))]
    BY DEF Filled
  <1>4. \A n \in 1..Len(fill) : Newest(older(n)) \in 0..(n - 1)
    <2> TAKE n \in 1..Len(fill)
    <2>1. n - 1 \in Nat /\ older(n) \in SUBSET (1..(n - 1))
      BY <1>2
    <2> HIDE DEF older
    <2> QED
      BY <2>1, NewestFacts
  <1>5. \A i \in 0..(capacity - 1) : Newest(put(i)) \in 0..Len(fill)
    <2> TAKE i \in 0..(capacity - 1)
    <2>1. put(i) \in SUBSET (1..Len(fill))
      BY <1>2
    <2> HIDE DEF put
    <2> QED
      BY <1>2, <2>1, NewestFacts
  <1>6. /\ next \in Seq(Nat) /\ Len(next) = Len(fill)
        /\ \A n \in 1..Len(fill) : next[n] <= Len(fill) /\ next[n] < n
    <2> HIDE DEF older
    <2>1. \A n \in 1..Len(fill) :
            /\ Newest(older(n)) \in Nat /\ Newest(older(n)) <= Len(fill)
            /\ Newest(older(n)) < n
      BY <1>2, <1>4
    <2> QED
      BY <1>2, <1>3, <2>1
  <1>7. array \in [0..(capacity - 1) -> 0..Len(fill)] /\ array \in Arrays
    <2> HIDE DEF put
    <2>1. array \in [0..(capacity - 1) -> 0..Len(fill)]
      BY <1>5
    <2>2. array \in [0..(capacity - 1) -> Nat]
      BY <1>2, <1>5
    <2> HIDE DEF array
    <2> QED
      BY <1>1, <2>1, <2>2 DEF Arrays
  <1>8. threshold \in Nat /\ size \in Nat /\ table = Len(length)
    <2>1. (3 * capacity) \div 4 \in Nat
      BY <1>1
    <2> QED
      BY <1>2, <2>1 DEF Filled
  <1>9. CASE fill = << >>
    <2>1. length = << >> /\ slot = << >>
      BY <1>9 DEF Filled
    <2>2. length \in Seq(1..MaxCapacity) /\ slot \in Seq(Arrays) /\ Len(length) = 0
          /\ DOMAIN slot = 1..0
      BY <2>1
    <2> QED
      BY <1>2, <1>6, <1>8, <2>2 DEF MapInv, MapTypeOK, LinksLeadToOlderNodes, Nodes, Tables
  <1>10. CASE fill # << >>
    <2>1. length = <<capacity>> /\ slot = <<array>>
      BY <1>10 DEF Filled
    <2> HIDE DEF array
    <2>2. /\ length \in Seq(1..MaxCapacity) /\ Len(length) = 1 /\ length[1] = capacity
          /\ slot \in Seq(Arrays) /\ DOMAIN slot = 1..1 /\ slot[1] = array
      BY <1>1, <1>7, <2>1
    <2>3. \A t \in 1..1 : slot[t] \in [0..(length[t] - 1) -> 0..Len(key)]
      BY <1>2, <1>7, <2>2
    <2> QED
      BY <1>2, <1>6, <1>8, <2>2, <2>3 DEF MapInv, MapTypeOK, LinksLeadToOlderNodes, Nodes, Tables
  <1> QED
    BY <1>9, <1>10

-----------------------------------------------------------------------------
(* Theorems *)

(* The inductive invariant: what a thread relies on needs the types, and the links
   lead to older nodes because of the order in which threads link them. *)
CacheInv == MapInv /\ LocalInv /\ CacheCoherent /\ RefusedOnlyWhenDisturbed

(* It holds of every map that can be found. *)
LEMMA CacheInit ==
  ASSUME Init
  PROVE  CacheInv
  <1>1. PICK load \in Workloads : Filled(load.capacity, load.fill) /\ kid = load.kids
    BY DEF Init
  <1>2. MapInv /\ kid \in [Verifications -> KeyIds \cup {NoKeyId}]
    <2>1. /\ load.capacity \in {InitialCapacity, (3 * InitialCapacity) \div 4}
          /\ load.fill \in Seq(KeyIds) /\ load.kids \in [Verifications -> KeyIds \cup {NoKeyId}]
      BY WorkloadAssumption
    <2> QED
      BY <1>1, <2>1, FilledMap
  <1>3. LocalTypeOK
    BY <1>2 DEF Init, LocalTypeOK, Stages, NoNodes
  <1>4. \A v \in Verifications :
          /\ pc[v] = "idle" /\ tab[v] = 0 /\ at[v] = 0 /\ first[v] = 0 /\ walked[v] = {}
          /\ old[v] = 0 /\ ahead[v] = 0 /\ head[v] = NoNodes /\ tail[v] = NoNodes
    BY DEF Init
  <1>5. Len(key) \in Nat /\ Len(length) \in Nat
    BY <1>2, NodeFacts DEF MapInv, MapTypeOK
  <1>6. \A v \in Verifications : Points(v) /\ Links(v) /\ Relies(v)
    BY <1>4, <1>5 DEF Points, Links, Relies, InMap, Moving, Searching, NoNodes
  <1>7. RefusedOnlyWhenDisturbed
    BY <1>4 DEF RefusedOnlyWhenDisturbed
  <1> QED
    BY <1>2, <1>3, <1>6, <1>7 DEF CacheInv, LocalInv, CacheCoherent

(* Every step keeps it. *)
LEMMA CacheNext ==
  ASSUME CacheInv, [Next]_vars
  PROVE  CacheInv'
  <1>1. ASSUME NEW v \in Verifications, Step(v)
        PROVE  CacheInv'
    <2>1. MapInv /\ LocalInv /\ CacheCoherent /\ RefusedOnlyWhenDisturbed
      BY DEF CacheInv
    <2>2. MapInv' /\ MapGrows
      BY <1>1, <2>1, MapNext
    <2>3. LocalTypeOK'
      BY <1>1, <2>1, LocalTypeNext
    <2>4. \A w \in Verifications : Points(w)' /\ Links(w)'
      BY <1>1, <2>1, <2>2, PointsStay, PointsNext, LinksNext
    <2>5. \A w \in Verifications : ~disturbed'[w] => Relies(w)'
      BY <1>1, <2>1, OthersRely, ActorRelies
    <2>6. RefusedOnlyWhenDisturbed'
      BY <1>1, <2>1, RefusalNext
    <2> QED
      BY <2>2, <2>3, <2>4, <2>5, <2>6 DEF CacheInv, LocalInv, CacheCoherent
  <1>2. CASE UNCHANGED vars
    <2>1. /\ UNCHANGED nodeVars /\ UNCHANGED tableVars /\ UNCHANGED fieldVars
          /\ UNCHANGED searchVars /\ UNCHANGED moveVars /\ pc' = pc /\ disturbed' = disturbed
      BY <1>2 DEF vars
    <2> USE <2>1 DEF nodeVars, tableVars, fieldVars, searchVars, moveVars
    <2>2. MapInv'
      BY DEF CacheInv, MapInv, MapTypeOK, LinksLeadToOlderNodes, Nodes, Tables
    <2>3. LocalTypeOK'
      BY DEF CacheInv, LocalInv, LocalTypeOK
    <2>4. ASSUME NEW w \in Verifications
          PROVE  Points(w)' /\ Links(w)'
      <3>1. Points(w) /\ Links(w)
        BY DEF CacheInv, LocalInv
      <3>2. Points(w)'
        BY <3>1 DEF Points, Moves, NewCapacity, Nodes
      <3>3. Links(w)'
        BY <3>1 DEF Links
      <3> QED
        BY <3>2, <3>3
    <2>5. CacheCoherent'
      BY DEF CacheInv, CacheCoherent, Relies, Passed, Found, FirstNode, Index
    <2>6. RefusedOnlyWhenDisturbed'
      BY DEF CacheInv, RefusedOnlyWhenDisturbed
    <2> QED
      BY <2>2, <2>3, <2>4, <2>5, <2>6 DEF CacheInv, LocalInv
  <1> QED
    BY <1>1, <1>2 DEF Next, Idle, Step

(* All of it is kept by every behaviour. *)
LEMMA CacheInvariant == Spec => []CacheInv
  BY CacheInit, CacheNext, PTL DEF Spec

(* Every variable of the cache keeps its type, and no thread looks outside a table
   or at a node that does not exist, for any number of threads (getPublicKey and
   java.util.HashMap). *)
THEOREM CacheTypeCorrect == Spec => []CacheTypeOK
  <1>1. CacheInv => CacheTypeOK
    BY DEF CacheInv, MapInv, LocalInv, CacheTypeOK
  <1> QED
    BY <1>1, CacheInvariant, PTL

(* However many threads relink the nodes of one chain at the same time, no chain
   closes into a cycle (the split of a chain by resize). *)
THEOREM ChainsEnd == Spec => []LinksLeadToOlderNodes
  <1>1. CacheInv => LinksLeadToOlderNodes
    BY DEF CacheInv, MapInv
  <1> QED
    BY <1>1, CacheInvariant, PTL

(* What a thread has found or put stays there to be found, whatever races have left
   in the map before, for as long as no other thread writes to it (getPublicKey). *)
THEOREM CacheCoherence == Spec => []CacheCoherent
  <1>1. CacheInv => CacheCoherent
    BY DEF CacheInv
  <1> QED
    BY <1>1, CacheInvariant, PTL

(* A token whose key the issuer knows is refused only by a thread that another has
   written to the map under, and never because of what earlier races have left in
   it (getPublicKey). *)
THEOREM UndisturbedNotRefused == Spec => []RefusedOnlyWhenDisturbed
  <1>1. CacheInv => RefusedOnlyWhenDisturbed
    BY DEF CacheInv
  <1> QED
    BY <1>1, CacheInvariant, PTL

-----------------------------------------------------------------------------
(* No two threads are between the first and the last look at the map. *)
OneInMap == \A v, w \in Verifications : pc[v] \in InMap /\ pc[w] \in InMap => v = w

(* "null in case its invalid token" (TokenVerifier.java) is kept for as long as
   the threads use the map one after the other, for any number of tokens, keys
   and tables: for want of a lock, and of nothing else, valid tokens are refused
   (getPublicKey). *)
THEOREM OneAtATime == Spec /\ []OneInMap => []ValidTokensAreNotRefused
  <1> DEFINE Calm == \A v \in Verifications : ~disturbed[v]
  <1>1. Init => Calm
    BY DEF Init
  <1>2. OneInMap /\ Calm /\ [Next]_vars => Calm'
    <2> SUFFICES ASSUME OneInMap, Calm, [Next]_vars
                 PROVE  Calm'
      OBVIOUS
    <2>1. ASSUME NEW v \in Verifications, Disturb(v), pc[v] \in InMap
          PROVE  Calm'
      BY <2>1 DEF Disturb, OneInMap
    <2>2. CASE UNCHANGED disturbed
      BY <2>2
    <2>3. ASSUME NEW v \in Verifications, Step(v), Disturb(v)
          PROVE  pc[v] \in InMap \/ UNCHANGED disturbed
      <3>1. CASE \/ SetTable(v) \/ Clear(v) \/ Place(v) \/ Link(v) \/ EndLow(v) \/ PutLow(v)
                 \/ EndHigh(v) \/ PutHigh(v) \/ Insert(v)
        BY <3>1 DEF SetTable, Clear, Place, Link, EndLow, PutLow, EndHigh, PutHigh, Insert,
                    InMap, Moving, Searching
      <3>2. CASE \/ Verify(v) \/ ReadSize(v) \/ ReadThreshold(v) \/ ReadTable(v)
                 \/ ReadOldTable(v) \/ ReadOldThreshold(v) \/ SetThreshold(v) \/ Take(v)
                 \/ CheckSingle(v) \/ ReadNext(v) \/ Lookup(v) \/ Walk(v) \/ Fetch(v)
                 \/ ReadCount(v) \/ WriteCount(v) \/ Get(v) \/ GetFirst(v) \/ GetWalk(v)
        BY <3>2 DEF Verify, ReadSize, ReadThreshold, ReadTable, ReadOldTable, ReadOldThreshold,
                    SetThreshold, Take, CheckSingle, ReadNext, Lookup, Walk, Fetch, ReadCount,
                    WriteCount, Get, GetFirst, GetWalk
      <3> QED
        BY <2>3, <3>1, <3>2 DEF Step, Compute, Resize
    <2>4. ASSUME NEW v \in Verifications, Step(v)
          PROVE  Calm'
      BY <2>1, <2>2, <2>3, <2>4, QuietOrDisturbs
    <2>5. CASE UNCHANGED vars
      BY <2>2, <2>5 DEF vars
    <2> QED
      BY <2>4, <2>5 DEF Next, Idle, Step
  <1>3. CacheInv /\ Calm => ValidTokensAreNotRefused
    BY DEF CacheInv, RefusedOnlyWhenDisturbed, ValidTokensAreNotRefused
  <1> QED
    BY <1>1, <1>2, <1>3, CacheInvariant, PTL DEF Spec
=============================================================================
