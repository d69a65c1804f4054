------------------------- MODULE ClientFactoryProofs -------------------------
(***************************************************************************)
(* Proofs about ClientFactory, for any number of hosts, configurations,    *)
(* clients, calls and states, and any capacity of the cache.               *)
(***************************************************************************)
EXTENDS ClientFactory, DataLemmas

(* The cache: an entry is of a state that was built for that cache and not *)
(* evicted, no two entries have the same key, and a state in use is one of *)
(* the entries unless the capacity pushed it out.                          *)
CacheType ==
    [key : [StateIds -> Keys \cup {None}], entries : [Caches -> Seq(StateIds)],
     pushed : SUBSET StateIds, alive : SUBSET StateIds, id : StateIds \cup {0}]

Has(seq, i) == \E n \in DOMAIN seq : seq[n] = i

ListOK(seq, keys, k) ==
    /\ seq \in Seq(StateIds)
    /\ \A n \in DOMAIN seq : keys[seq[n]] # None /\ keys[seq[n]].cache = k
    /\ \A m, n \in DOMAIN seq : keys[seq[m]].config = keys[seq[n]].config => m = n

Kept(cs) ==
    \A i \in cs.alive : /\ cs.key[i] # None
                        /\ i \notin cs.pushed => Has(cs.entries[cs.key[i].cache], i)

CacheOK(cs) ==
    /\ cs \in CacheType /\ Kept(cs)
    /\ \A k \in Caches : ListOK(cs.entries[k], cs.key, k) /\ Len(cs.entries[k]) <= Capacity

(* A client has a state, built with the settings of the factory it came    *)
(* from: the collection's for the client of a host.                        *)
BuiltWith(keys, i, b) ==
    i \in StateIds /\ keys[i] # None /\ keys[i].cache = b.manager /\ keys[i].config.own = b.own

ClientInv ==
    /\ \A c \in Clients : stage[c] = "free" => state[c] = 0
    /\ \A c \in Clients : stage[c] \in {"built", "live"} => BuiltWith(key, state[c], state_builder[c])
    /\ \A c \in Clients : stage[c] = "host" => BuiltWith(key, state[c], collection.state_builder)

(* A live client's state is that of its configuration, which is the        *)
(* present one unless a refresh is still to reach it.                      *)
LiveInv ==
    /\ todo \subseteq {c \in Clients : stage[c] = "live"} \cup {0}
    /\ \A c \in Clients : stage[c] = "live" =>
          /\ ~failed[c] => key[state[c]].config = CachedConfig(cell[c], state_builder[c], 0)
          /\ c \notin todo => cell[c] = ServiceConfig

(* A handle is of one host's client, and has the host's configuration. *)
HandleInv ==
    \A h \in Hosts : client_handles[h] # 0 => LET c == client_handles[h] IN
        /\ stage[c] = "host"
        /\ cell[c] = HostConfig(collection.cell, h)
        /\ ~failed[c] => key[state[c]].config = CachedConfig(cell[c], collection.state_builder, index[c])
        /\ \A g \in Hosts : client_handles[g] = c => g = h

CollectionInv ==
    /\ \A h \in Hosts : published[h] # 0 => stage[published[h]] = "host"
    /\ collection.exists /\ 0 \notin todo => collection.cell = ServiceConfig
    /\ ~collection.exists =>
          /\ 0 \notin todo /\ client_handles = NoHosts /\ published = NoHosts
          /\ \A c \in Clients : stage[c] # "host"

FactoryInv ==
    /\ TypeOK /\ CacheOK(TheCache)
    /\ ClientInv /\ LiveInv /\ HandleInv /\ CollectionInv

-----------------------------------------------------------------------------
(* Lists of entries *)

(* Min is an element, the least, of a set of numbers. *)
LEMMA MinIsIn ==
    ASSUME NEW T \in SUBSET Nat, T # {}
    PROVE  Min(T) \in T
<1>1. \E x \in T : \A y \in T : x <= y
  BY LeastNumber
<1> QED
  BY <1>1, Zenon DEF Min

(* s is q without the places that are not in D. *)
Thinned(s, q, D) ==
    \E f \in [DOMAIN s -> D] :
        /\ \A i, j \in DOMAIN s : f[i] = f[j] => i = j
        /\ \A d \in D : \E j \in DOMAIN s : f[j] = d
        /\ \A j \in DOMAIN s : s[j] = q[f[j]]

(* What remains of a list is a list. *)
LEMMA ThinnedList ==
    ASSUME NEW q, NEW s \in Seq(StateIds), NEW D \in SUBSET DOMAIN q, NEW keys, NEW k,
           ListOK(q, keys, k), Thinned(s, q, D)
    PROVE  /\ ListOK(s, keys, k)
           /\ \A i : Has(s, i) <=> \E d \in D : q[d] = i
<1>1. PICK f \in [DOMAIN s -> D] :
        /\ \A i, j \in DOMAIN s : f[i] = f[j] => i = j
        /\ \A d \in D : \E j \in DOMAIN s : f[j] = d
        /\ \A j \in DOMAIN s : s[j] = q[f[j]]
  BY DEF Thinned
<1>2. \A j \in DOMAIN s : f[j] \in D /\ f[j] \in DOMAIN q
  OBVIOUS
<1>3. \A j \in DOMAIN s : keys[s[j]] # None /\ keys[s[j]].cache = k
  BY <1>1, <1>2 DEF ListOK
<1>4. ASSUME NEW i \in DOMAIN s, NEW j \in DOMAIN s, keys[s[i]].config = keys[s[j]].config
      PROVE  i = j
  <2>1. f[i] = f[j]
    BY <1>1, <1>2, <1>4 DEF ListOK
  <2> QED
    BY <2>1, <1>1
<1>5. \A i : Has(s, i) <=> \E d \in D : q[d] = i
  BY <1>1, <1>2 DEF Has
<1> QED
  BY <1>3, <1>4, <1>5 DEF ListOK

(* A list grows by a state whose configuration it does not have. *)
LEMMA LongerList ==
    ASSUME NEW q, NEW keys, NEW k, ListOK(q, keys, k), NEW i \in StateIds,
           keys[i] # None, keys[i].cache = k, \A n \in DOMAIN q : keys[q[n]].config # keys[i].config
    PROVE  /\ ListOK(Append(q, i), keys, k)
           /\ Len(Append(q, i)) = Len(q) + 1
           /\ \A j : Has(Append(q, i), j) <=> Has(q, j) \/ j = i
<1> DEFINE s == Append(q, i)
<1>0. q \in Seq(StateIds)
  BY DEF ListOK
<1>1. /\ s \in Seq(StateIds) /\ Len(s) = Len(q) + 1 /\ DOMAIN s = 1 .. Len(q) + 1 /\ DOMAIN q = 1 .. Len(q)
      /\ Len(q) \in Nat /\ s[Len(q) + 1] = i /\ \A n \in DOMAIN q : s[n] = q[n]
  BY <1>0, AppendProperties, LenProperties
<1> HIDE DEF s
<1>2. Len(q) + 1 \in DOMAIN s /\ \A n \in DOMAIN s : n \in DOMAIN q \/ n = Len(q) + 1
  BY <1>1
<1>2a. \A n \in DOMAIN q : n \in DOMAIN s
  BY <1>1
<1>3. \A n \in DOMAIN s : keys[s[n]] # None /\ keys[s[n]].cache = k
  BY <1>1, <1>2 DEF ListOK
<1>4. \A m, n \in DOMAIN s : keys[s[m]].config = keys[s[n]].config => m = n
  BY <1>1, <1>2, ZenonT(40) DEF ListOK
<1>5. \A j : Has(s, j) <=> Has(q, j) \/ j = i
  BY <1>1, <1>2, <1>2a, Zenon DEF Has
<1> QED
  BY <1>1, <1>3, <1>4, <1>5 DEF ListOK, s

(* A list depends on the keys of its own states only. *)
LEMMA SameList ==
    ASSUME NEW q, NEW keys, NEW other, NEW k, ListOK(q, keys, k),
           \A n \in DOMAIN q : other[q[n]] = keys[q[n]]
    PROVE  ListOK(q, other, k)
  BY Zenon DEF ListOK

(* Without takes one of the places out, if there is one. *)
LEMMA WithoutThins ==
    ASSUME NEW q \in Seq(StateIds), NEW ps \in SUBSET DOMAIN q, ps # {}
    PROVE  \E n \in ps : /\ n = CHOOSE m \in ps : TRUE
                         /\ Without(q, ps) \in Seq(StateIds)
                         /\ Len(Without(q, ps)) = Len(q) - 1
                         /\ Thinned(Without(q, ps), q, DOMAIN q \ {n})
<1> DEFINE n == CHOOSE m \in ps : TRUE
           s == RemoveAt(q, n)
<1>1. n \in ps /\ n \in DOMAIN q
  OBVIOUS
<1>2. s = Without(q, ps)
  BY DEF Without
<1> HIDE DEF n
<1>3. /\ s \in Seq(StateIds) /\ Len(s) = Len(q) - 1
      /\ \A j \in 1 .. Len(q) - 1 : s[j] = q[IF j < n THEN j ELSE j + 1]
  BY <1>1, Removed
<1> HIDE DEF s
<1>4. DOMAIN s = 1 .. Len(q) - 1 /\ DOMAIN q = 1 .. Len(q) /\ Len(q) \in Nat /\ n \in 1 .. Len(q)
  BY <1>1, <1>3, LenProperties
<1> DEFINE f == [j \in DOMAIN s |-> IF j < n THEN j ELSE j + 1]
<1>5. f \in [DOMAIN s -> DOMAIN q \ {n}]
  BY <1>4
<1>6. \A i, j \in DOMAIN s : f[i] = f[j] => i = j
  BY <1>4
<1>7. ASSUME NEW d \in DOMAIN q \ {n} PROVE \E j \in DOMAIN s : f[j] = d
  <2>1. CASE d < n
    BY <2>1, <1>4
  <2>2. CASE ~(d < n)
    <3>1. d - 1 \in DOMAIN s /\ f[d - 1] = d
      BY <2>2, <1>4
    <3> QED
      BY <3>1
  <2> QED
    BY <2>1, <2>2
<1>8. \A j \in DOMAIN s : s[j] = q[f[j]]
  BY <1>3, <1>4
<1>9. Thinned(s, q, DOMAIN q \ {n})
  <2> HIDE DEF f
  <2> QED
    BY <1>5, <1>6, <1>7, <1>8 DEF Thinned
<1> QED
  BY <1>1, <1>2, <1>3, <1>9 DEF n

(* LastN leaves as many entries as the capacity allows, the last ones. *)
LEMMA LastThins ==
    ASSUME NEW q \in Seq(StateIds)
    PROVE  /\ LastN(q) \in Seq(StateIds) /\ Len(LastN(q)) <= Capacity
           /\ \E D \in SUBSET DOMAIN q : Thinned(LastN(q), q, D)
<1> DEFINE first == IF Len(q) > Capacity THEN Len(q) - Capacity + 1 ELSE 1
           s == SubSeq(q, first, Len(q))
<1>1. Capacity \in Nat /\ Len(q) \in Nat /\ DOMAIN q = 1 .. Len(q)
  BY FactoryAssumption, LenProperties
<1>2. first \in 1 .. Len(q) + 1 /\ Len(q) + 1 - first <= Capacity /\ Len(q) + 1 - first \in Nat
  BY <1>1
<1>2a. \A i \in first .. Len(q) : i \in 1 .. Len(q) /\ q[i] \in StateIds
  BY <1>1, <1>2
<1> HIDE DEF first
<1>3. /\ s \in Seq(StateIds) /\ Len(s) = Len(q) + 1 - first
      /\ DOMAIN s = 1 .. Len(q) + 1 - first
      /\ \A j \in 1 .. Len(q) + 1 - first : s[j] = q[first + j - 1]
  BY <1>1, <1>2, <1>2a
<1> HIDE DEF s
<1> DEFINE f == [j \in DOMAIN s |-> first + j - 1]
           D == first .. Len(q)
<1>4. f \in [DOMAIN s -> D] /\ D \in SUBSET DOMAIN q
  BY <1>1, <1>2, <1>3
<1>5. \A i, j \in DOMAIN s : f[i] = f[j] => i = j
  BY <1>1, <1>2, <1>3
<1>6. ASSUME NEW d \in D PROVE \E j \in DOMAIN s : f[j] = d
  <2>1. d - first + 1 \in DOMAIN s /\ f[d - first + 1] = d
    BY <1>1, <1>2, <1>3
  <2> QED
    BY <2>1
<1>7. \A j \in DOMAIN s : s[j] = q[f[j]]
  BY <1>3
<1>8. Thinned(s, q, D)
  <2> HIDE DEF f, D
  <2> QED
    BY <1>4, <1>5, <1>6, <1>7 DEF Thinned
<1>9. s = LastN(q)
  BY DEF LastN, s, first
<1> QED
  BY <1>2, <1>3, <1>4, <1>8, <1>9

-----------------------------------------------------------------------------
(* A lookup *)

(* The places of a list that have a configuration: one at most. *)
At(q, keys, cc) == {n \in DOMAIN q : keys[q[n]].config = cc}

(* What is left of a list when the entry of a configuration is taken out. *)
LEMMA OtherEntries ==
    ASSUME NEW q, NEW keys, NEW k, ListOK(q, keys, k), NEW cc, NEW ps,
           ps = At(q, keys, cc), NEW others, others = Without(q, ps), NEW old, old = q[CHOOSE n \in ps : TRUE]
    PROVE  /\ ListOK(others, keys, k)
           /\ \A n \in DOMAIN others : keys[others[n]].config # cc
           /\ ps = {} => others = q
           /\ ps # {} => /\ Has(q, old) /\ keys[old].config = cc /\ Len(others) = Len(q) - 1
                         /\ \A i : Has(q, i) <=> Has(others, i) \/ i = old
<1>0. q \in Seq(StateIds) /\ ps \in SUBSET DOMAIN q /\ ps = {n \in DOMAIN q : keys[q[n]].config = cc}
  BY DEF ListOK, At
<1>1. CASE ps = {}
  <2>1. others = q
    BY <1>1 DEF Without
  <2>2. \A n \in DOMAIN others : keys[others[n]].config # cc
    BY <1>0, <1>1, <2>1
  <2> QED
    BY <1>1, <2>1, <2>2
<1>2. CASE ps # {}
  <2>1. PICK n \in ps : /\ n = CHOOSE m \in ps : TRUE
                        /\ others \in Seq(StateIds)
                        /\ Len(others) = Len(q) - 1
                        /\ Thinned(others, q, DOMAIN q \ {n})
    BY <1>0, <1>2, WithoutThins
  <2>2. old = q[n] /\ n \in DOMAIN q /\ keys[q[n]].config = cc
    BY <1>0, <2>1
  <2>3. ListOK(others, keys, k) /\ \A i : Has(others, i) <=> \E d \in DOMAIN q \ {n} : q[d] = i
    <3>1. DOMAIN q \ {n} \in SUBSET DOMAIN q
      OBVIOUS
    <3> QED
      BY <3>1, <2>1, ThinnedList
  <2>4. ASSUME NEW j \in DOMAIN others, keys[others[j]].config = cc PROVE FALSE
    <3>1. Has(others, others[j])
      BY DEF Has
    <3>2. PICK d \in DOMAIN q \ {n} : q[d] = others[j]
      BY <3>1, <2>3
    <3>3. d = n
      BY <3>2, <2>2, <2>4 DEF ListOK
    <3> QED
      BY <3>3
  <2>5. \A i : Has(q, i) <=> Has(others, i) \/ i = old
    BY <2>2, <2>3 DEF Has
  <2>6. Has(q, old)
    BY <2>2 DEF Has
  <2> QED
    BY <1>2, <2>1, <2>2, <2>3, <2>4, <2>5, <2>6
<1> QED
  BY <1>1, <1>2

(* One list is replaced, and no state in use loses its key. *)
LEMMA ListReplaced ==
    ASSUME NEW cs, CacheOK(cs), NEW r \in CacheType, Kept(r), NEW k \in Caches, NEW s,
           r.entries = [cs.entries EXCEPT ![k] = s], ListOK(s, r.key, k), Len(s) <= Capacity,
           \A i \in StateIds : cs.key[i] # None => r.key[i] = cs.key[i]
    PROVE  CacheOK(r)
<1>0. cs.entries \in [Caches -> Seq(StateIds)]
  BY DEF CacheOK, CacheType
<1>1. ASSUME NEW j \in Caches PROVE ListOK(r.entries[j], r.key, j) /\ Len(r.entries[j]) <= Capacity
  <2>1. CASE j = k
    BY <2>1, <1>0
  <2>2. CASE j # k
    <3>1. r.entries[j] = cs.entries[j]
      BY <2>2, <1>0
    <3>2. ListOK(cs.entries[j], cs.key, j) /\ Len(cs.entries[j]) <= Capacity
      BY DEF CacheOK
    <3>3. ASSUME NEW n \in DOMAIN cs.entries[j]
          PROVE  r.key[cs.entries[j][n]] = cs.key[cs.entries[j][n]]
      <4>1. cs.entries[j][n] \in StateIds /\ cs.key[cs.entries[j][n]] # None
        BY <3>2 DEF ListOK
      <4> QED
        BY <4>1
    <3> QED
      BY <3>1, <3>2, <3>3, SameList
  <2> QED
    BY <2>1, <2>2
<1> QED
  BY <1>1 DEF CacheOK

(* What a lookup promises of the cache after it. *)
Looked(r, cs, k, cc) ==
    /\ CacheOK(r)
    /\ \A i \in StateIds : cs.key[i] # None => r.key[i] = cs.key[i]
    /\ \E x \in StateIds \cup {0} : \A i \in StateIds : cs.key[i] = None /\ i # x => r.key[i] = None
    /\ \/ r.id = 0 /\ r.alive = cs.alive
       \/ /\ r.id \in StateIds /\ r.alive = cs.alive \cup {r.id}
          /\ r.key[r.id] = [cache |-> k, config |-> cc]

(* The entry becomes the youngest: no other change. *)
LEMMA Refreshed ==
    ASSUME NEW cs, CacheOK(cs), NEW k \in Caches, NEW cc, NEW ps, ps = Places(cs, k, cc),
           NEW id, NEW old, old = cs.entries[k][CHOOSE n \in ps : TRUE],
           id = 0 \/ (ps # {} /\ id = old /\ id \in cs.alive), NEW s,
           s = IF ps = {} THEN Without(cs.entries[k], ps) ELSE Append(Without(cs.entries[k], ps), old)
    PROVE  Looked([cs EXCEPT !.entries[k] = s, !.id = id], cs, k, cc)
<1> DEFINE r == [cs EXCEPT !.entries[k] = s, !.id = id]
           q == cs.entries[k]
           others == Without(q, ps)
<1>1. /\ cs \in CacheType /\ q \in Seq(StateIds) /\ ListOK(q, cs.key, k) /\ Len(q) <= Capacity
      /\ Capacity \in Nat
  BY FactoryAssumption DEF CacheOK, CacheType
<1>2. ps = At(q, cs.key, cc)
  BY DEF Places, At
<1> HIDE DEF q
<1>3. /\ ListOK(others, cs.key, k)
      /\ \A n \in DOMAIN others : cs.key[others[n]].config # cc
      /\ ps = {} => others = q
      /\ ps # {} => /\ Has(q, old) /\ cs.key[old].config = cc /\ Len(others) = Len(q) - 1
                    /\ \A i : Has(q, i) <=> Has(others, i) \/ i = old
  <2>1. old = q[CHOOSE n \in ps : TRUE]
    BY DEF q
  <2> HIDE DEF others
  <2>2. others = Without(q, ps)
    BY DEF others
  <2> QED
    BY ONLY <2>1, <2>2, <1>1, <1>2, OtherEntries
<1> HIDE DEF others
<1>4. ps # {} => old \in StateIds /\ cs.key[old] # None /\ cs.key[old].cache = k
  BY <1>1, <1>3 DEF Has, ListOK
<1>5. ListOK(s, cs.key, k) /\ Len(s) <= Capacity /\ \A i : Has(s, i) <=> Has(q, i)
  <2>1. CASE ps = {}
    BY <2>1, <1>1, <1>3 DEF others, q
  <2>2. CASE ps # {}
    <3>1. s = Append(others, old) /\ \A n \in DOMAIN others : cs.key[others[n]].config # cs.key[old].config
      BY <2>2, <1>3 DEF others, q
    <3>2. ListOK(s, cs.key, k) /\ Len(s) = Len(others) + 1 /\ \A j : Has(s, j) <=> Has(others, j) \/ j = old
      <4>1. /\ ListOK(others, cs.key, k) /\ old \in StateIds /\ cs.key[old] # None /\ cs.key[old].cache = k
            /\ \A n \in DOMAIN others : cs.key[others[n]].config # cs.key[old].config
        BY <3>1, <2>2, <1>3, <1>4
      <4>2. /\ ListOK(Append(others, old), cs.key, k) /\ Len(Append(others, old)) = Len(others) + 1
            /\ \A j : Has(Append(others, old), j) <=> Has(others, j) \/ j = old
        BY ONLY <4>1, LongerList
      <4> QED
        BY <4>2, <3>1
    <3>3. Len(q) \in Nat
      BY <1>1
    <3> QED
      BY <3>2, <3>3, <2>2, <1>1, <1>3
  <2> QED
    BY <2>1, <2>2
<1>6. s \in Seq(StateIds) /\ id \in StateIds \cup {0}
  BY <1>4, <1>5 DEF ListOK
<1>7. /\ r \in CacheType /\ r.entries = [cs.entries EXCEPT ![k] = s]
      /\ r.key = cs.key /\ r.pushed = cs.pushed /\ r.alive = cs.alive /\ r.id = id
  BY <1>1, <1>6 DEF CacheType
<1> HIDE DEF r
<1>8. Kept(r)
  <2>1. ASSUME NEW i \in cs.alive
        PROVE  cs.key[i] # None /\ (i \notin cs.pushed => Has(r.entries[cs.key[i].cache], i))
    <3>1. i \in StateIds /\ cs.key[i] # None /\ cs.key[i].cache \in Caches
      BY <1>1 DEF CacheType, CacheOK, Kept, Keys
    <3>2. i \notin cs.pushed => Has(cs.entries[cs.key[i].cache], i)
      BY DEF CacheOK, Kept
    <3>3. r.entries[cs.key[i].cache] = IF cs.key[i].cache = k THEN s ELSE cs.entries[cs.key[i].cache]
      BY <3>1, <1>1, <1>7 DEF CacheType
    <3> QED
      BY <3>1, <3>2, <3>3, <1>5 DEF q
  <2> QED
    BY <2>1, <1>7 DEF Kept
<1>9. CacheOK(r)
  BY <1>5, <1>7, <1>8, ListReplaced
<1>10. id = 0 \/ (id \in StateIds /\ id \in cs.alive /\ cs.key[id] = [cache |-> k, config |-> cc])
  <2>1. id # 0 =>
               /\ cs.key[id] \in Keys /\ cs.key[id].cache = k /\ cs.key[id].config = cc
               /\ id \in StateIds /\ id \in cs.alive
    BY <1>1, <1>3, <1>4 DEF CacheType
  <2>2. \A x \in Keys : x.cache = k /\ x.config = cc => x = [cache |-> k, config |-> cc]
    BY DEF Keys
  <2> QED
    BY <2>1, <2>2
<1>11. \A i \in StateIds : cs.key[i] = None /\ i # 0 => r.key[i] = None
  BY <1>7
<1> QED
  BY <1>7, <1>9, <1>10, <1>11 DEF Looked, r

(* The elements of a sequence, as the library has them. *)
LEMMA ToSetHas == ASSUME NEW s, NEW i PROVE i \in ToSet(s) <=> Has(s, i)
  BY DEF ToSet, Has

(* A new state takes the place of the old entry; the capacity may push     *)
(* others out.                                                             *)
LEMMA Replaced ==
    ASSUME NEW cs, CacheOK(cs), NEW k \in Caches, NEW cc \in CachedConfigs, NEW ps, ps = Places(cs, k, cc),
           NEW old, old = cs.entries[k][CHOOSE n \in ps : TRUE], ~(ps # {} /\ old \in cs.alive),
           NEW new \in StateIds, cs.key[new] = None,
           NEW all, all = Append(Without(cs.entries[k], ps), new)
    PROVE  Looked([cs EXCEPT !.entries[k] = LastN(all), !.key[new] = [cache |-> k, config |-> cc],
                             !.alive = @ \cup {new}, !.pushed = @ \cup (ToSet(all) \ ToSet(LastN(all))),
                             !.id = new], cs, k, cc)
<1> DEFINE nk == [cache |-> k, config |-> cc]
           r == [cs EXCEPT !.entries[k] = LastN(all), !.key[new] = nk,
                           !.alive = @ \cup {new}, !.pushed = @ \cup (ToSet(all) \ ToSet(LastN(all))),
                           !.id = new]
           q == cs.entries[k]
           others == Without(q, ps)
           s == LastN(all)
           keys == [cs.key EXCEPT ![new] = nk]
<1>1. /\ cs \in CacheType /\ q \in Seq(StateIds) /\ ListOK(q, cs.key, k)
      /\ cs.key \in [StateIds -> Keys \cup {None}]
  BY DEF CacheOK, CacheType
<1>2. ps = At(q, cs.key, cc)
  BY DEF Places, At
<1>3. nk \in Keys /\ nk # None /\ nk.cache = k /\ nk.config = cc
  BY NoneAssumption DEF Keys
<1> HIDE DEF q, nk
<1>4. /\ ListOK(others, cs.key, k)
      /\ \A n \in DOMAIN others : cs.key[others[n]].config # cc
      /\ ps = {} => others = q
      /\ ps # {} => \A i : Has(q, i) <=> Has(others, i) \/ i = old
  <2>1. old = q[CHOOSE n \in ps : TRUE]
    BY DEF q
  <2> HIDE DEF others
  <2>2. others = Without(q, ps)
    BY DEF others
  <2> QED
    BY ONLY <2>1, <2>2, <1>1, <1>2, OtherEntries
<1>5. all = Append(others, new)
  BY DEF q
<1> HIDE DEF others
<1>6. /\ keys \in [StateIds -> Keys \cup {None}] /\ keys[new] = nk
      /\ \A i \in StateIds : cs.key[i] # None => keys[i] = cs.key[i]
      /\ \A i \in StateIds : i # new => keys[i] = cs.key[i]
  BY <1>1, <1>3
<1> HIDE DEF keys
<1>7. ASSUME NEW n \in DOMAIN others PROVE keys[others[n]] = cs.key[others[n]]
  <2>1. others[n] \in StateIds /\ cs.key[others[n]] # None
    BY <1>4 DEF ListOK
  <2> QED
    BY <2>1, <1>6
<1>8. ListOK(others, keys, k) /\ \A n \in DOMAIN others : keys[others[n]].config # keys[new].config
  <2>1. ListOK(others, keys, k)
    BY <1>4, <1>7, SameList
  <2> QED
    BY <2>1, <1>3, <1>4, <1>6, <1>7
<1>9. ListOK(all, keys, k) /\ \A j : Has(all, j) <=> Has(others, j) \/ j = new
  <2>1. keys[new] # None /\ keys[new].cache = k
    BY <1>3, <1>6
  <2>2. /\ ListOK(Append(others, new), keys, k)
        /\ \A j : Has(Append(others, new), j) <=> Has(others, j) \/ j = new
    BY ONLY <2>1, <1>8, new \in StateIds, LongerList
  <2> QED
    BY <2>2, <1>5
<1>10. all \in Seq(StateIds)
  BY <1>9 DEF ListOK
<1>11. s \in Seq(StateIds) /\ Len(s) <= Capacity /\ \E D \in SUBSET DOMAIN all : Thinned(s, all, D)
  BY <1>10, LastThins
<1> HIDE DEF s
<1>12. ListOK(s, keys, k)
  <2>1. PICK D \in SUBSET DOMAIN all : Thinned(s, all, D)
    BY <1>11
  <2> QED
    BY ONLY <2>1, <1>9, <1>11, ThinnedList
<1>13. ToSet(all) \ ToSet(s) \in SUBSET StateIds
  BY <1>10 DEF ToSet
<1>14. /\ r \in CacheType /\ r.entries = [cs.entries EXCEPT ![k] = s] /\ r.key = keys
       /\ r.alive = cs.alive \cup {new} /\ r.pushed = cs.pushed \cup (ToSet(all) \ ToSet(s)) /\ r.id = new
  <2>1. r = [cs EXCEPT !.entries = [cs.entries EXCEPT ![k] = s], !.key = keys, !.alive = cs.alive \cup {new},
                       !.pushed = cs.pushed \cup (ToSet(all) \ ToSet(s)), !.id = new]
    BY <1>1 DEF CacheType, s, keys
  <2> HIDE DEF r
  <2>2. /\ [cs.entries EXCEPT ![k] = s] \in [Caches -> Seq(StateIds)] /\ cs.alive \cup {new} \in SUBSET StateIds
        /\ cs.pushed \cup (ToSet(all) \ ToSet(s)) \in SUBSET StateIds
    BY <1>1, <1>11, <1>13 DEF CacheType
  <2> QED
    BY <2>1, <2>2, <1>1, <1>6 DEF CacheType
<1> HIDE DEF r
<1>15. ASSUME NEW i \in r.alive
       PROVE  r.key[i] # None /\ (i \notin r.pushed => Has(r.entries[r.key[i].cache], i))
  <2>1. Has(all, i) /\ i \notin r.pushed => Has(s, i)
    BY <1>14, ToSetHas
  <2>2. CASE i = new
    <3>1. r.key[i] # None /\ r.key[i].cache = k /\ Has(all, i)
      BY <2>2, <1>3, <1>6, <1>9, <1>14
    <3>2. r.entries[k] = s
      BY <1>1, <1>14 DEF CacheType
    <3> QED
      BY <3>1, <3>2, <2>1
  <2>3. CASE i # new
    <3>1. i \in cs.alive /\ i \in StateIds /\ r.key[i] = cs.key[i]
      BY <2>3, <1>1, <1>6, <1>14 DEF CacheType
    <3>2. cs.key[i] # None /\ (i \notin cs.pushed => Has(cs.entries[cs.key[i].cache], i))
      BY <3>1 DEF CacheOK, Kept
    <3>3. cs.key[i].cache \in Caches
      BY <3>1, <3>2, <1>1 DEF Keys
    <3>4. r.entries[cs.key[i].cache] = IF cs.key[i].cache = k THEN s ELSE cs.entries[cs.key[i].cache]
      BY <3>3, <1>1, <1>14 DEF CacheType
    <3>5. Has(q, i) => Has(all, i)
      BY <3>1, <1>4, <1>9
    <3>6. i \notin r.pushed => i \notin cs.pushed
      BY <1>14
    <3> QED
      BY <3>1, <3>2, <3>4, <3>5, <3>6, <2>1 DEF q
  <2> QED
    BY <2>2, <2>3
<1>16. Kept(r)
  BY <1>15 DEF Kept
<1>17. CacheOK(r)
  BY <1>6, <1>11, <1>12, <1>14, <1>16, ListReplaced
<1>18. \A i \in StateIds : cs.key[i] = None /\ i # new => r.key[i] = None
  BY <1>6, <1>14
<1> QED
  BY <1>6, <1>14, <1>17, <1>18 DEF Looked, r, s, nk

(* WeakCache::get keeps the cache in order, and the state it returns was   *)
(* built for the configuration asked for.                                  *)
LEMMA GetLooked ==
    ASSUME NEW cs, CacheOK(cs), NEW sc \in ServiceConfigs \cup HostConfigs, NEW b \in StateBuilders,
           NEW at \in 0 .. Cardinality(Hosts), NEW made \in BOOLEAN,
           made => \E i \in StateIds : cs.key[i] = None
    PROVE  Looked(Get(cs, sc, b, at, made), cs, b.manager, CachedConfig(sc, b, at))
<1> DEFINE k == b.manager
           cc == CachedConfig(sc, b, at)
           ps == Places(cs, k, cc)
           old == cs.entries[k][CHOOSE n \in ps : TRUE]
           others == Without(cs.entries[k], ps)
           found == ps # {} /\ old \in cs.alive
           refreshed == IF ps = {} THEN others ELSE Append(others, old)
           new == Fresh(cs)
           all == Append(others, new)
<1>1. k \in Caches /\ cc \in CachedConfigs
  BY DEF StateBuilders, CachedConfigs
<1>2. made => new \in StateIds /\ cs.key[new] = None
  <2> DEFINE T == {i \in StateIds : cs.key[i] = None}
  <2>1. T \in SUBSET Nat /\ (made => T # {})
    BY FactoryAssumption
  <2> QED
    BY <2>1, MinIsIn DEF Fresh
<1>3. CASE found
  <2>1. Get(cs, sc, b, at, made) = [cs EXCEPT !.entries[k] = refreshed, !.id = old]
    BY <1>3 DEF Get
  <2>2. Looked([cs EXCEPT !.entries[k] = refreshed, !.id = old], cs, k, cc)
    <3> HIDE DEF k, cc, ps
    <3>1. CacheOK(cs) /\ k \in Caches /\ ps = Places(cs, k, cc)
      BY <1>1 DEF ps
    <3>2. /\ old = cs.entries[k][CHOOSE n \in ps : TRUE] /\ (ps # {} /\ old = old /\ old \in cs.alive)
          /\ refreshed = IF ps = {} THEN Without(cs.entries[k], ps) ELSE Append(Without(cs.entries[k], ps), old)
      BY <1>3
    <3> HIDE DEF old, refreshed
    <3> QED
      BY ONLY <3>1, <3>2, Refreshed, ZenonT(40)
  <2> QED
    BY <2>1, <2>2
<1>4. CASE ~found /\ ~made
  <2>1. Get(cs, sc, b, at, made) = [cs EXCEPT !.entries[k] = refreshed, !.id = 0]
    BY <1>4 DEF Get
  <2>2. Looked([cs EXCEPT !.entries[k] = refreshed, !.id = 0], cs, k, cc)
    <3> HIDE DEF k, cc, ps
    <3>1. CacheOK(cs) /\ k \in Caches /\ ps = Places(cs, k, cc)
      BY <1>1 DEF ps
    <3>2. /\ old = cs.entries[k][CHOOSE n \in ps : TRUE] /\ 0 = 0
          /\ refreshed = IF ps = {} THEN Without(cs.entries[k], ps) ELSE Append(Without(cs.entries[k], ps), old)
      OBVIOUS
    <3> HIDE DEF old, refreshed
    <3> QED
      BY ONLY <3>1, <3>2, Refreshed
  <2> QED
    BY <2>1, <2>2
<1>5. CASE ~found /\ made
  <2>1. Get(cs, sc, b, at, made) =
            [cs EXCEPT !.entries[k] = LastN(all), !.key[new] = [cache |-> k, config |-> cc],
                       !.alive = @ \cup {new}, !.pushed = @ \cup (ToSet(all) \ ToSet(LastN(all))),
                       !.id = new]
    BY <1>5 DEF Get
  <2>2. Looked([cs EXCEPT !.entries[k] = LastN(all), !.key[new] = [cache |-> k, config |-> cc],
                          !.alive = @ \cup {new}, !.pushed = @ \cup (ToSet(all) \ ToSet(LastN(all))),
                          !.id = new], cs, k, cc)
    <3> HIDE DEF k, cc, ps, new
    <3>1. /\ CacheOK(cs) /\ k \in Caches /\ cc \in CachedConfigs /\ ps = Places(cs, k, cc)
          /\ new \in StateIds /\ cs.key[new] = None
      BY <1>1, <1>2, <1>5 DEF ps
    <3>2. /\ old = cs.entries[k][CHOOSE n \in ps : TRUE] /\ ~(ps # {} /\ old \in cs.alive)
          /\ all = Append(Without(cs.entries[k], ps), new)
      BY <1>5
    <3> HIDE DEF old, all
    <3> QED
      BY ONLY <3>1, <3>2, Replaced, ZenonT(40)
  <2> QED
    BY <2>1, <2>2
<1> QED
  BY <1>3, <1>4, <1>5

-----------------------------------------------------------------------------
(* The cache between the steps *)

(* The places of a state in a list: one at most. *)
Of(q, i) == {n \in DOMAIN q : q[n] = i}

(* The evictor of a state takes its entry along, and no other. *)
LEMMA Dropped ==
    ASSUME NEW cs, CacheOK(cs), NEW i \in StateIds, i \notin cs.alive, cs.key[i] # None,
           NEW k, k = cs.key[i].cache, NEW s, s = Without(cs.entries[k], Of(cs.entries[k], i))
    PROVE  CacheOK([cs EXCEPT !.entries[k] = s, !.key[i] = None, !.pushed = @ \ {i}])
<1> DEFINE r == [cs EXCEPT !.entries[k] = s, !.key[i] = None, !.pushed = @ \ {i}]
           q == cs.entries[k]
           ps == Of(q, i)
<1>1. cs \in CacheType /\ k \in Caches
  BY DEF CacheOK, CacheType, Keys
<1>2. ListOK(q, cs.key, k) /\ q \in Seq(StateIds) /\ Len(q) <= Capacity /\ Len(q) \in Nat /\ Capacity \in Nat
  <2>1. ListOK(q, cs.key, k) /\ Len(q) <= Capacity
    BY <1>1 DEF CacheOK
  <2>2. q \in Seq(StateIds)
    BY <2>1 DEF ListOK
  <2> HIDE DEF q
  <2> QED
    BY <2>1, <2>2, FactoryAssumption, LenProperties
<1> HIDE DEF q
<1>3. /\ ListOK(s, cs.key, k) /\ Len(s) <= Capacity
      /\ \A j : Has(s, j) <=> (Has(q, j) /\ j # i)
  <2>0. s = Without(q, ps) /\ ps \in SUBSET DOMAIN q
    BY DEF q, Of
  <2>1. CASE ps = {}
    <3>1. s = q
      BY <2>0, <2>1 DEF Without
    <3>2. ~Has(q, i)
      BY <2>1 DEF Of, Has
    <3> QED
      BY <3>1, <3>2, <1>2
  <2>2. CASE ps # {}
    <3> HIDE DEF ps
    <3>1. PICK n \in ps : s \in Seq(StateIds) /\ Len(s) = Len(q) - 1 /\ Thinned(s, q, DOMAIN q \ {n})
      BY ONLY <2>0, <2>2, <1>2, WithoutThins
    <3>2. n \in DOMAIN q /\ q[n] = i /\ DOMAIN q \ {n} \in SUBSET DOMAIN q
      BY <2>0 DEF ps, Of
    <3>3. ListOK(s, cs.key, k) /\ \A j : Has(s, j) <=> \E d \in DOMAIN q \ {n} : q[d] = j
      BY ONLY <1>2, <3>1, <3>2, ThinnedList
    <3>4. \A d \in DOMAIN q : q[d] = i => d = n
      BY <1>2, <3>2 DEF ListOK
    <3>5. \A j : Has(s, j) <=> (Has(q, j) /\ j # i)
      <4>1. \A j : (\E d \in DOMAIN q \ {n} : q[d] = j) <=> ((\E d \in DOMAIN q : q[d] = j) /\ j # i)
        BY <3>2, <3>4
      <4> QED
        BY <4>1, <3>3, ZenonT(40) DEF Has
    <3>6. Len(s) <= Capacity
      BY ONLY <3>1, <1>2
    <3> QED
      BY <3>3, <3>5, <3>6, Zenon
  <2> QED
    BY <2>1, <2>2
<1>4. s \in Seq(StateIds)
  BY <1>3 DEF ListOK
<1>5. /\ r \in CacheType /\ r.entries = [cs.entries EXCEPT ![k] = s] /\ r.key = [cs.key EXCEPT ![i] = None]
      /\ r.alive = cs.alive /\ r.pushed = cs.pushed \ {i}
  BY <1>1, <1>4 DEF CacheType
<1> HIDE DEF r
<1>6. cs.key \in [StateIds -> Keys \cup {None}] /\ cs.entries \in [Caches -> Seq(StateIds)]
  BY <1>1 DEF CacheType
<1>7. ASSUME NEW j \in Caches
      PROVE  ListOK(r.entries[j], r.key, j) /\ Len(r.entries[j]) <= Capacity
  <2>1. ListOK(r.entries[j], cs.key, j) /\ Len(r.entries[j]) <= Capacity /\ ~Has(r.entries[j], i)
    <3>1. CASE j = k
      BY <3>1, <1>3, <1>5, <1>6
    <3>2. CASE j # k
      <4>1. r.entries[j] = cs.entries[j] /\ ListOK(cs.entries[j], cs.key, j) /\ Len(cs.entries[j]) <= Capacity
        BY <3>2, <1>5, <1>6 DEF CacheOK
      <4>2. ~Has(cs.entries[j], i)
        BY <4>1, <3>2 DEF ListOK, Has
      <4> QED
        BY <4>1, <4>2
    <3> QED
      BY <3>1, <3>2
  <2>2. ASSUME NEW n \in DOMAIN r.entries[j] PROVE r.key[r.entries[j][n]] = cs.key[r.entries[j][n]]
    <3>1. r.entries[j][n] # i /\ r.entries[j][n] \in StateIds
      <4>1. r.entries[j][n] # i
        BY <2>1, Zenon DEF Has
      <4>2. r.entries[j] \in Seq(StateIds)
        BY <2>1, Zenon DEF ListOK
      <4> QED
        BY <4>1, <4>2
    <3> QED
      BY <3>1, <1>5, <1>6
  <2> QED
    BY <2>1, <2>2, SameList
<1>8. ASSUME NEW j \in r.alive
      PROVE  r.key[j] # None /\ (j \notin r.pushed => Has(r.entries[r.key[j].cache], j))
  <2>1. j \in cs.alive /\ j \in StateIds /\ j # i /\ r.key[j] = cs.key[j]
    BY <1>1, <1>5, <1>6 DEF CacheType
  <2>2. cs.key[j] # None /\ (j \notin cs.pushed => Has(cs.entries[cs.key[j].cache], j))
    BY <2>1 DEF CacheOK, Kept
  <2>3. cs.key[j].cache \in Caches
    BY <2>1, <2>2, <1>6 DEF Keys
  <2>4. r.entries[cs.key[j].cache] = IF cs.key[j].cache = k THEN s ELSE cs.entries[cs.key[j].cache]
    BY <2>3, <1>5, <1>6
  <2>5. j \notin r.pushed => j \notin cs.pushed
    BY <2>1, <1>5
  <2> QED
    BY <2>1, <2>2, <2>4, <2>5, <1>3 DEF q
<1> QED
  BY <1>5, <1>7, <1>8 DEF CacheOK, Kept, r

(* What the type invariant says of the cache. *)
CacheTyped ==
    /\ key \in [StateIds -> Keys \cup {None}] /\ entries \in [Caches -> Seq(StateIds)]
    /\ pushed \subseteq StateIds /\ \A k \in Caches : Len(entries[k]) <= Capacity

(* The cache is in order with fewer states in use, too. *)
LEMMA Stored ==
    ASSUME NEW cs, CacheOK(cs), StoreCache(cs), (Alive \ {0})' \subseteq cs.alive
    PROVE  CacheOK(TheCache)' /\ CacheTyped'
<1> DEFINE r == TheCache'
<1>1. r = [key |-> cs.key, entries |-> cs.entries, pushed |-> cs.pushed, alive |-> (Alive \ {0})', id |-> 0]
  BY DEF TheCache, StoreCache
<1>1a. cs \in CacheType
  BY DEF CacheOK
<1>2. /\ r \in CacheType /\ r.key = cs.key /\ r.entries = cs.entries /\ r.pushed = cs.pushed
      /\ r.alive \subseteq cs.alive
  <2> HIDE DEF r
  <2>1. (Alive \ {0})' \in SUBSET StateIds
    BY <1>1a DEF CacheType
  <2> QED
    BY <1>1, <1>1a, <2>1 DEF CacheType
<1> HIDE DEF r
<1>3. Kept(r)
  BY <1>2 DEF CacheOK, Kept
<1>4. \A k \in Caches : ListOK(r.entries[k], r.key, k) /\ Len(r.entries[k]) <= Capacity
  BY <1>2 DEF CacheOK
<1>5. CacheOK(r)
  BY <1>2, <1>3, <1>4 DEF CacheOK
<1>6. CacheTyped'
  BY <1>1a DEF CacheTyped, CacheType, CacheOK, StoreCache
<1> QED
  BY <1>5, <1>6 DEF r, CacheOK

(* The cache the invariant speaks of, field by field. *)
LEMMA CacheFields ==
    /\ TheCache.key = key /\ TheCache.entries = entries /\ TheCache.pushed = pushed
    /\ TheCache.alive = Alive \ {0} /\ TheCache.id = 0
  BY DEF TheCache

(* Room is for as many new states. *)
LEMMA RoomForOne ==
    ASSUME Room(1)
    PROVE  \E i \in StateIds : key[i] = None
<1>1. SUFFICES ASSUME ~ \E i \in StateIds : key[i] = None PROVE FALSE
  OBVIOUS
<1>2. {i \in StateIds : key[i] = None} = {}
  BY <1>1
<1> QED
  BY <1>2, FS_EmptySet DEF Room

-----------------------------------------------------------------------------
(* Steps of one client *)

(* A state that a client has is in use, and its key is of the cache and    *)
(* the configuration it was built for.                                     *)
LEMMA StatesInUse ==
    ASSUME FactoryInv
    PROVE  \A c \in Clients : stage[c] # "free" =>
                state[c] \in StateIds /\ state[c] \in Alive \ {0} /\ key[state[c]] # None
<1>1. \A c \in Clients : stage[c] # "free" => state[c] \in StateIds /\ key[state[c]] # None
  BY DEF FactoryInv, TypeOK, ClientInv, BuiltWith
<1>2. \A c \in Clients : state[c] \in Alive
  BY DEF Alive
<1>3. 0 \notin StateIds
  BY FactoryAssumption
<1> QED
  BY <1>1, <1>2, <1>3

KeysLast == \A c \in Clients : stage[c] # "free" => key'[state[c]] = key[state[c]]

SameClient(d) ==
    /\ stage'[d] = stage[d] /\ cell'[d] = cell[d] /\ index'[d] = index[d] /\ state'[d] = state[d]
    /\ failed'[d] = failed[d] /\ state_builder'[d] = state_builder[d]

(* What the invariant asks of a plain client. *)
PlainOK(c) ==
    /\ stage[c] # "host"
    /\ stage[c] = "free" => state[c] = 0
    /\ stage[c] # "free" => BuiltWith(key, state[c], state_builder[c])
    /\ stage[c] = "live" /\ ~failed[c] => key[state[c]].config = CachedConfig(cell[c], state_builder[c], 0)
    /\ stage[c] = "live" /\ c \notin todo => cell[c] = ServiceConfig
    /\ c \in todo => stage[c] = "live"

(* A step of one plain client leaves the others and the collection alone. *)
LEMMA OneClient ==
    ASSUME FactoryInv, TypeOK', KeysLast, UNCHANGED <<config, hostVars>>, NEW c \in Clients,
           stage[c] # "host", \A d \in Clients \ {c} : SameClient(d), PlainOK(c)',
           \A d \in (Clients \cup {0}) \ {c} : d \in todo' <=> d \in todo
    PROVE  ClientInv' /\ LiveInv' /\ HandleInv' /\ CollectionInv'
<1>0. 0 \notin Clients /\ 0 # c
  BY FactoryAssumption
<1>1. \A d \in Clients \ {c} : BuiltWith(key', state[d], state_builder[d]) <=> BuiltWith(key, state[d], state_builder[d])
  <2>1. ASSUME NEW d \in Clients PROVE stage[d] # "free" => key'[state[d]] = key[state[d]]
    BY DEF KeysLast
  <2>2. \A d \in Clients : stage[d] = "free" => state[d] = 0
    BY DEF FactoryInv, ClientInv
  <2>3. 0 \notin StateIds
    BY FactoryAssumption
  <2> QED
    BY <2>1, <2>2, <2>3 DEF BuiltWith
<1>2. ClientInv'
  <2>1. ASSUME NEW d \in Clients
        PROVE  /\ stage'[d] = "free" => state'[d] = 0
               /\ stage'[d] \in {"built", "live"} => BuiltWith(key', state'[d], state_builder'[d])
               /\ stage'[d] = "host" => BuiltWith(key', state'[d], collection'.state_builder)
    <3>1. CASE d = c
      BY <3>1 DEF PlainOK
    <3>2. CASE d # c
      <4>1. SameClient(d) /\ collection' = collection
        BY <3>2 DEF hostVars
      <4>2. stage[d] = "host" => key'[state[d]] = key[state[d]]
        BY DEF KeysLast
      <4> QED
        BY <4>1, <4>2, <3>2, <1>1 DEF FactoryInv, ClientInv, SameClient, BuiltWith
    <3> QED
      BY <3>1, <3>2
  <2> QED
    BY <2>1 DEF ClientInv
<1>3. LiveInv'
  <2>1. todo' \subseteq Clients \cup {0}
    BY DEF TypeOK
  <2>2. ServiceConfig' = ServiceConfig
    BY DEF ServiceConfig
  <2>3. ASSUME NEW d \in Clients, d # c
        PROVE  /\ d \in todo' => stage'[d] = "live"
               /\ stage'[d] = "live" =>
                     /\ ~failed'[d] => key'[state'[d]].config = CachedConfig(cell'[d], state_builder'[d], 0)
                     /\ d \notin todo' => cell'[d] = ServiceConfig'
    <3>1. SameClient(d) /\ (d \in todo' <=> d \in todo)
      BY <2>3
    <3>2. stage[d] = "live" => key'[state[d]] = key[state[d]]
      BY DEF KeysLast
    <3> QED
      BY <3>1, <3>2, <2>2, <1>0 DEF FactoryInv, LiveInv, SameClient
  <2>4. /\ c \in todo' => stage'[c] = "live"
        /\ stage'[c] = "live" =>
              /\ ~failed'[c] => key'[state'[c]].config = CachedConfig(cell'[c], state_builder'[c], 0)
              /\ c \notin todo' => cell'[c] = ServiceConfig'
    BY DEF PlainOK
  <2> QED
    BY <2>1, <2>3, <2>4 DEF LiveInv
<1>4. HandleInv'
  <2>1. ASSUME NEW h \in Hosts, client_handles[h] # 0
        PROVE  client_handles[h] \in Clients /\ client_handles[h] # c
    BY <2>1 DEF FactoryInv, TypeOK, HandleInv
  <2>2. client_handles' = client_handles /\ collection' = collection
    BY DEF hostVars
  <2>3. ASSUME NEW h \in Hosts, client_handles[h] # 0
        PROVE  LET d == client_handles[h] IN
               /\ stage'[d] = "host"
               /\ cell'[d] = HostConfig(collection.cell, h)
               /\ ~failed'[d] => key'[state'[d]].config = CachedConfig(cell'[d], collection.state_builder, index'[d])
               /\ \A g \in Hosts : client_handles[g] = d => g = h
    <3>1. SameClient(client_handles[h]) /\ stage[client_handles[h]] = "host"
      BY <2>1, <2>3 DEF FactoryInv, HandleInv
    <3>2. key'[state[client_handles[h]]] = key[state[client_handles[h]]]
      BY <3>1, <2>1, <2>3 DEF KeysLast
    <3> QED
      BY <3>1, <3>2, <2>3 DEF FactoryInv, HandleInv, SameClient
  <2> QED
    BY <2>2, <2>3 DEF HandleInv
<1>5. CollectionInv'
  <2>1. client_handles' = client_handles /\ collection' = collection /\ published' = published
    BY DEF hostVars
  <2>2. ServiceConfig' = ServiceConfig /\ (0 \in todo' <=> 0 \in todo)
    BY <1>0 DEF ServiceConfig
  <2>3. \A d \in Clients : stage'[d] = "host" <=> stage[d] = "host"
    BY DEF SameClient, PlainOK
  <2>4. \A h \in Hosts : published[h] # 0 => published[h] \in Clients
    BY DEF FactoryInv, TypeOK
  <2> QED
    BY <2>1, <2>2, <2>3, <2>4 DEF FactoryInv, CollectionInv
<1> QED
  BY <1>2, <1>3, <1>4, <1>5

(* A lookup in the cache of the present state, and what it is used for. *)
LEMMA LookupStep ==
    ASSUME FactoryInv, NEW sc \in ServiceConfigs \cup HostConfigs, NEW b \in StateBuilders,
           NEW at \in 0 .. Cardinality(Hosts), NEW made \in BOOLEAN, made => Room(1),
           NEW cs, cs = Get(TheCache, sc, b, at, made), StoreCache(cs)
    PROVE  /\ KeysLast
           /\ CacheOK(cs)
           /\ \/ cs.id = 0 /\ cs.alive = Alive \ {0}
              \/ /\ cs.id \in StateIds /\ cs.id # 0 /\ cs.alive = (Alive \ {0}) \cup {cs.id}
                 /\ BuiltWith(key', cs.id, b) /\ key'[cs.id].config = CachedConfig(sc, b, at)
<1>1. made => \E i \in StateIds : TheCache.key[i] = None
  BY RoomForOne, CacheFields
<1>2. Looked(cs, TheCache, b.manager, CachedConfig(sc, b, at))
  BY <1>1, GetLooked DEF FactoryInv
<1>3. key' = cs.key
  BY DEF StoreCache
<1>4. KeysLast
  BY <1>2, <1>3, StatesInUse, CacheFields DEF KeysLast, Looked
<1>5. b.manager \in Caches /\ CachedConfig(sc, b, at) \in CachedConfigs
  BY DEF StateBuilders, CachedConfigs
<1>6. CachedConfig(sc, b, at).own = b.own
  BY DEF CachedConfig, with_own, from_config, with_uris, with_setting, override_host_index, BuilderDefault
<1>7. ASSUME NEW x, x = [cache |-> b.manager, config |-> CachedConfig(sc, b, at)]
      PROVE  x # None /\ x.cache = b.manager /\ x.config = CachedConfig(sc, b, at)
  BY <1>5, <1>7, NoneAssumption DEF Keys
<1>8. 0 \notin StateIds
  BY FactoryAssumption
<1>9. ASSUME cs.id \in StateIds, cs.key[cs.id] = [cache |-> b.manager, config |-> CachedConfig(sc, b, at)]
      PROVE  BuiltWith(key', cs.id, b) /\ key'[cs.id].config = CachedConfig(sc, b, at)
  BY <1>3, <1>6, <1>7, <1>9 DEF BuiltWith
<1> QED
  BY <1>2, <1>4, <1>8, <1>9, CacheFields DEF Looked

(* The service's configuration, as the callbacks see it. *)
LEMMA ServiceConfigType ==
    ASSUME TypeOK
    PROVE  ServiceConfig \in ServiceConfigs \cup HostConfigs \cup {None} /\ ServiceConfig \in ServiceConfigs
  BY DEF TypeOK, ServiceConfig, ServiceConfigs

(* Building a state has two outcomes. *)
LEMMA OutcomesAreBoolean == ClientState_new = BOOLEAN
  BY DEF ClientState_new, RawClient_new, ProxyConfig_from_config

(* 0 is no client, and the index of a plain one. *)
LEMMA Zero == 0 \notin Clients /\ 0 \notin StateIds /\ 0 \in 0 .. Cardinality(Hosts)
<1>1. Cardinality(Hosts) \in Nat
  BY FactoryAssumption, FS_CardinalityType
<1> QED
  BY <1>1, FactoryAssumption

(* The states in use after a client changes its state. *)
LEMMA AliveAfter ==
    ASSUME TypeOK, NEW c \in Clients, NEW x, state' = [state EXCEPT ![c] = x], using' = using
    PROVE  (Alive \ {0})' \subseteq (Alive \ {0}) \cup ({x} \ {0})
<1>1. state \in [Clients -> StateIds \cup {0}]
  BY DEF TypeOK
<1>2. \A d \in Clients : state'[d] = x \/ state'[d] = state[d]
  BY <1>1
<1> QED
  BY <1>2 DEF Alive

Takes(c, x) == state' = [state EXCEPT ![c] = x]

(* A client looks up a state: it takes the one it gets, or keeps its own,  *)
(* or has none.                                                            *)
LEMMA ClientLooksUp ==
    ASSUME FactoryInv, NEW sc \in ServiceConfigs \cup HostConfigs, NEW b \in StateBuilders,
           NEW made \in BOOLEAN, made => Room(1),
           NEW cs, cs = Get(TheCache, sc, b, 0, made), StoreCache(cs), using' = using,
           NEW c \in Clients, NEW x, x \in {cs.id, state[c], 0}, Takes(c, x)
    PROVE  /\ KeysLast /\ CacheOK(TheCache)' /\ CacheTyped' /\ state' \in [Clients -> StateIds \cup {0}] /\ state'[c] = x
           /\ cs.id # 0 => BuiltWith(key', cs.id, b)
           /\ cs.id # 0 => key'[cs.id].config = CachedConfig(sc, b, 0)
<1>1. /\ KeysLast /\ CacheOK(cs)
      /\ \/ cs.id = 0 /\ cs.alive = Alive \ {0}
         \/ /\ cs.id \in StateIds /\ cs.id # 0 /\ cs.alive = (Alive \ {0}) \cup {cs.id}
            /\ BuiltWith(key', cs.id, b) /\ key'[cs.id].config = CachedConfig(sc, b, 0)
  BY Zero, LookupStep
<1>2. (Alive \ {0})' \subseteq (Alive \ {0}) \cup ({x} \ {0})
  BY AliveAfter DEF FactoryInv, Takes
<1>3. state[c] \in Alive
  BY DEF Alive
<1>4. (Alive \ {0})' \subseteq cs.alive
  BY <1>1, <1>2, <1>3
<1>5. CacheOK(TheCache)' /\ CacheTyped'
  BY <1>1, <1>4, Stored
<1>6. state' \in [Clients -> StateIds \cup {0}] /\ state'[c] = x
  BY <1>1 DEF FactoryInv, TypeOK, Takes
<1> QED
  BY <1>1, <1>5, <1>6

(* build_client *)
LEMMA StepBuild ==
    ASSUME FactoryInv, NEW c \in Clients, build_client(c)
    PROVE  FactoryInv'
<1>0. TypeOK /\ stage[c] = "free" /\ state[c] = 0
  <2>1. Free \in SUBSET Nat /\ Free # {}
    BY FactoryAssumption DEF build_client, Free
  <2>2. c \in Free
    BY <2>1, MinIsIn DEF build_client
  <2> QED
    BY <2>2 DEF FactoryInv, Free, ClientInv
<1>1. PICK made \in ClientState_new :
          LET cs == Get(TheCache, ServiceConfig, factory, 0, made) IN
          /\ StoreCache(cs)
          /\ IF cs.id = 0 THEN UNCHANGED <<stage, cell, state_builder, state>>
             ELSE /\ state' = [state EXCEPT ![c] = cs.id]
                  /\ stage' = [stage EXCEPT ![c] = "built"]
                  /\ cell' = [cell EXCEPT ![c] = ServiceConfig]
                  /\ state_builder' = [state_builder EXCEPT ![c] = factory]
  BY DEF build_client
<1> DEFINE cs == Get(TheCache, ServiceConfig, factory, 0, made)
<1>2. /\ made \in BOOLEAN /\ Room(1) /\ using' = using /\ ServiceConfig \in ServiceConfigs
      /\ factory \in StateBuilders /\ StoreCache(cs)
  BY <1>0, <1>1, OutcomesAreBoolean, ServiceConfigType DEF build_client, TypeOK
<1>3. state' = [state EXCEPT ![c] = cs.id]
  BY <1>0, <1>1 DEF TypeOK
<1>3a. IF cs.id = 0 THEN UNCHANGED <<stage, cell, state_builder>>
       ELSE /\ stage' = [stage EXCEPT ![c] = "built"]
            /\ cell' = [cell EXCEPT ![c] = ServiceConfig]
            /\ state_builder' = [state_builder EXCEPT ![c] = factory]
  BY <1>1
<1> HIDE DEF cs
<1>4. /\ KeysLast /\ CacheOK(TheCache)' /\ CacheTyped' /\ state' \in [Clients -> StateIds \cup {0}] /\ state'[c] = cs.id
      /\ cs.id # 0 => BuiltWith(key', cs.id, factory)
  BY <1>2, <1>3, ClientLooksUp DEF cs, Takes
<1>5. TypeOK'
  <2>1. /\ config' \in Configs /\ factory' \in StateBuilders /\ todo' \subseteq Clients \cup {0}
        /\ index' \in [Clients -> 0 .. Cardinality(Hosts)] /\ failed' \in [Clients -> BOOLEAN]
        /\ using' \in [Requests -> StateIds \cup {0}]
    BY <1>0 DEF TypeOK, build_client
  <2>2. /\ stage' \in [Clients -> {"free", "built", "live", "host"}]
        /\ cell' \in [Clients -> ServiceConfigs \cup HostConfigs \cup {None}]
        /\ state_builder' \in [Clients -> StateBuilders]
    <3>1. /\ stage \in [Clients -> {"free", "built", "live", "host"}]
          /\ cell \in [Clients -> ServiceConfigs \cup HostConfigs \cup {None}]
          /\ state_builder \in [Clients -> StateBuilders]
      BY <1>0 DEF TypeOK
    <3>2. CASE cs.id = 0
      BY <3>1, <3>2, <1>3a
    <3>3. CASE cs.id # 0
      BY <3>1, <3>3, <1>2, <1>3a
    <3> QED
      BY <3>2, <3>3
  <2>3. UNCHANGED hostVars
    BY DEF build_client
  <2> QED
    BY <2>1, <2>2, <2>3, <1>0, <1>4 DEF TypeOK, CacheTyped, hostVars
<1>6. \A d \in Clients \ {c} : SameClient(d)
  BY <1>0, <1>3, <1>3a DEF SameClient, TypeOK, build_client
<1>7. PlainOK(c)'
  <2>1. stage'[c] \in {"free", "built"} /\ (stage'[c] = "free" <=> cs.id = 0)
    BY <1>0, <1>3a DEF TypeOK
  <2>2. cs.id # 0 => state_builder'[c] = factory
    BY <1>0, <1>3a DEF TypeOK
  <2>3. c \notin todo /\ todo' = todo
    BY <1>0, Zero DEF FactoryInv, LiveInv, build_client
  <2> QED
    BY <2>1, <2>2, <2>3, <1>4 DEF PlainOK
<1> QED
  BY <1>0, <1>4, <1>5, <1>6, <1>7, OneClient DEF FactoryInv, build_client

(* The callback of a plain client keeps what it has if nothing is built. *)
LEMMA Reloads ==
    ASSUME FactoryInv, NEW c \in Clients, stage[c] # "free", stage[c] # "host",
           NEW made \in BOOLEAN, made => Room(1), Reload(c, made), using' = using, state_builder' = state_builder,
           cell' = [cell EXCEPT ![c] = ServiceConfig]
    PROVE  /\ KeysLast /\ CacheOK(TheCache)' /\ CacheTyped' /\ BuiltWith(key', state'[c], state_builder[c])
           /\ state' \in [Clients -> StateIds \cup {0}] /\ failed' \in [Clients -> BOOLEAN]
           /\ cell' \in [Clients -> ServiceConfigs \cup HostConfigs \cup {None}] /\ cell'[c] = ServiceConfig
           /\ \A d \in Clients \ {c} : state'[d] = state[d] /\ failed'[d] = failed[d] /\ cell'[d] = cell[d]
           /\ ~failed'[c] => key'[state'[c]].config = CachedConfig(ServiceConfig, state_builder[c], 0)
<1> DEFINE cs == Get(TheCache, ServiceConfig, state_builder[c], 0, made)
           x == IF cs.id = 0 THEN state[c] ELSE cs.id
<1>0. /\ TypeOK /\ ServiceConfig \in ServiceConfigs /\ state_builder[c] \in StateBuilders
      /\ state \in [Clients -> StateIds \cup {0}] /\ failed \in [Clients -> BOOLEAN]
      /\ cell \in [Clients -> ServiceConfigs \cup HostConfigs \cup {None}]
  BY ServiceConfigType DEF FactoryInv, TypeOK
<1>1. StoreCache(cs) /\ state' = [state EXCEPT ![c] = x] /\ failed' = [failed EXCEPT ![c] = cs.id = 0]
  BY <1>0 DEF Reload
<1> HIDE DEF cs
<1>2. x \in {cs.id, state[c], 0}
  OBVIOUS
<1> HIDE DEF x
<1>3. /\ KeysLast /\ CacheOK(TheCache)' /\ CacheTyped' /\ state' \in [Clients -> StateIds \cup {0}] /\ state'[c] = x
      /\ cs.id # 0 => BuiltWith(key', cs.id, state_builder[c])
      /\ cs.id # 0 => key'[cs.id].config = CachedConfig(ServiceConfig, state_builder[c], 0)
  <2>1. cs = Get(TheCache, ServiceConfig, state_builder[c], 0, made)
    BY DEF cs
  <2>2. /\ FactoryInv /\ ServiceConfig \in ServiceConfigs \cup HostConfigs /\ state_builder[c] \in StateBuilders
        /\ made \in BOOLEAN /\ (made => Room(1)) /\ StoreCache(cs) /\ using' = using /\ c \in Clients
        /\ Takes(c, x)
    BY <1>0, <1>1 DEF Takes
  <2> QED
    BY ONLY <1>2, <2>1, <2>2, ClientLooksUp
<1>4. /\ failed' \in [Clients -> BOOLEAN] /\ (~failed'[c] => cs.id # 0)
      /\ \A d \in Clients \ {c} : failed'[d] = failed[d]
  <2>1. (cs.id = 0) \in BOOLEAN
    OBVIOUS
  <2> QED
    BY <2>1, <1>0, <1>1, Zenon
<1>5. /\ cell' \in [Clients -> ServiceConfigs \cup HostConfigs \cup {None}] /\ cell'[c] = ServiceConfig
      /\ \A d \in Clients \ {c} : state'[d] = state[d] /\ cell'[d] = cell[d]
  BY <1>0, <1>1
<1>6. BuiltWith(key', state'[c], state_builder[c])
  <2>1. CASE cs.id = 0
    <3>1. state'[c] = state[c] /\ key'[state[c]] = key[state[c]]
      BY <2>1, <1>3 DEF x, KeysLast
    <3>2. BuiltWith(key, state[c], state_builder[c])
      BY <1>0 DEF FactoryInv, ClientInv, TypeOK
    <3> QED
      BY <3>1, <3>2 DEF BuiltWith
  <2>2. CASE cs.id # 0
    BY <2>2, <1>3 DEF x
  <2> QED
    BY <2>1, <2>2
<1>7. cs.id # 0 => state'[c] = cs.id
  BY <1>3 DEF x
<1> QED
  BY <1>3, <1>4, <1>5, <1>6, <1>7

(* subscribe *)
LEMMA StepSubscribe ==
    ASSUME FactoryInv, NEW c \in Clients, subscribe(c)
    PROVE  FactoryInv'
<1>0. /\ TypeOK /\ stage[c] = "built" /\ Room(1) /\ Reload(c, TRUE) /\ using' = using
      /\ state_builder' = state_builder /\ cell' = [cell EXCEPT ![c] = ServiceConfig] /\ todo = {}
      /\ stage' = [stage EXCEPT ![c] = "live"] /\ index' = index /\ UNCHANGED <<config, todo, factory, hostVars>>
  BY DEF FactoryInv, subscribe, Unlocked
<1>1. /\ KeysLast /\ CacheOK(TheCache)' /\ CacheTyped' /\ BuiltWith(key', state'[c], state_builder[c])
      /\ state' \in [Clients -> StateIds \cup {0}] /\ failed' \in [Clients -> BOOLEAN]
      /\ cell' \in [Clients -> ServiceConfigs \cup HostConfigs \cup {None}] /\ cell'[c] = ServiceConfig
      /\ \A d \in Clients \ {c} : state'[d] = state[d] /\ failed'[d] = failed[d] /\ cell'[d] = cell[d]
      /\ ~failed'[c] => key'[state'[c]].config = CachedConfig(ServiceConfig, state_builder[c], 0)
  BY <1>0, Reloads
<1>2. /\ stage' \in [Clients -> {"free", "built", "live", "host"}] /\ stage'[c] = "live"
      /\ \A d \in Clients \ {c} : stage'[d] = stage[d]
  BY <1>0 DEF TypeOK
<1>3. TypeOK'
  BY <1>0, <1>1, <1>2 DEF TypeOK, CacheTyped, hostVars
<1>4. \A d \in Clients \ {c} : SameClient(d)
  BY <1>0, <1>1, <1>2 DEF SameClient
<1>5. PlainOK(c)'
  <2>1. ServiceConfig' = ServiceConfig /\ c \notin todo'
    BY <1>0 DEF ServiceConfig
  <2> QED
    BY <2>1, <1>0, <1>1, <1>2 DEF PlainOK
<1>6. stage[c] # "host" /\ UNCHANGED <<config, hostVars>> /\ todo' = todo
  BY <1>0
<1> QED
  BY <1>1, <1>3, <1>4, <1>5, <1>6, OneClient DEF FactoryInv

(* A client that is gone keeps nothing. *)
LEMMA GoneClient ==
    ASSUME TypeOK, NEW c \in Clients, Released(c)
    PROVE  /\ stage' \in [Clients -> {"free", "built", "live", "host"}] /\ stage'[c] = "free"
           /\ cell' \in [Clients -> ServiceConfigs \cup HostConfigs \cup {None}]
           /\ state_builder' \in [Clients -> StateBuilders]
           /\ state' \in [Clients -> StateIds \cup {0}] /\ state'[c] = 0 /\ Takes(c, 0)
           /\ failed' \in [Clients -> BOOLEAN] /\ index' = index
           /\ \A d \in Clients \ {c} : SameClient(d)
<1>1. NewFactory \in StateBuilders
  BY FactoryAssumption DEF NewFactory, StateBuilders
<1>2. failed' = [failed EXCEPT ![c] = FALSE] /\ failed \in [Clients -> BOOLEAN]
  BY DEF Released, TypeOK
<1>3. failed' \in [Clients -> BOOLEAN] /\ \A d \in Clients \ {c} : failed'[d] = failed[d]
  BY <1>2, Zenon
<1> QED
  BY <1>1, <1>3 DEF Released, TypeOK, SameClient, Takes

(* subscribe_fails *)
LEMMA StepSubscribeFails ==
    ASSUME FactoryInv, NEW c \in Clients, subscribe_fails(c)
    PROVE  FactoryInv'
<1> DEFINE cs == Get(TheCache, ServiceConfig, state_builder[c], 0, FALSE)
<1>0. /\ TypeOK /\ stage[c] = "built" /\ Released(c) /\ using' = using /\ todo = {}
      /\ UNCHANGED <<config, todo, factory, hostVars>> /\ StoreCache(cs)
  BY DEF FactoryInv, subscribe_fails, Unlocked
<1>1. cs = Get(TheCache, ServiceConfig, state_builder[c], 0, FALSE)
  OBVIOUS
<1> HIDE DEF cs
<1>2. /\ stage' \in [Clients -> {"free", "built", "live", "host"}] /\ stage'[c] = "free"
      /\ cell' \in [Clients -> ServiceConfigs \cup HostConfigs \cup {None}]
      /\ state_builder' \in [Clients -> StateBuilders]
      /\ state' \in [Clients -> StateIds \cup {0}] /\ state'[c] = 0 /\ Takes(c, 0)
      /\ failed' \in [Clients -> BOOLEAN] /\ index' = index
      /\ \A d \in Clients \ {c} : SameClient(d)
  BY <1>0, GoneClient
<1>3. KeysLast /\ CacheOK(TheCache)' /\ CacheTyped'
  <2>1. ServiceConfig \in ServiceConfigs \cup HostConfigs /\ state_builder[c] \in StateBuilders /\ 0 \in {cs.id, state[c], 0}
    BY <1>0, ServiceConfigType DEF TypeOK
  <2>2. FALSE \in BOOLEAN /\ (FALSE => Room(1))
    OBVIOUS
  <2> QED
    BY <1>0, <1>1, <1>2, <2>1, <2>2, ClientLooksUp
<1>4. TypeOK'
  BY <1>0, <1>2, <1>3 DEF TypeOK, CacheTyped, hostVars
<1>5. PlainOK(c)'
  BY <1>0, <1>2 DEF PlainOK
<1>6. stage[c] # "host" /\ UNCHANGED <<config, hostVars>> /\ todo' = todo
  BY <1>0
<1> QED
  BY <1>2, <1>3, <1>4, <1>5, <1>6, OneClient DEF FactoryInv

(* Fewer states are in use, and the cache is left alone. *)
LEMMA SameCache ==
    ASSUME FactoryInv, UNCHANGED cacheVars, (Alive \ {0})' \subseteq Alive \ {0}
    PROVE  CacheOK(TheCache)' /\ CacheTyped' /\ KeysLast
<1>1. StoreCache(TheCache) /\ TheCache.alive = Alive \ {0} /\ CacheOK(TheCache)
  BY CacheFields DEF StoreCache, cacheVars, FactoryInv
<1>2. CacheOK(TheCache)' /\ CacheTyped'
  BY <1>1, Stored
<1>3. KeysLast
  BY DEF cacheVars, KeysLast
<1> QED
  BY <1>2, <1>3

(* notify *)
LEMMA StepNotify ==
    ASSUME FactoryInv, NEW c \in Clients, notify(c)
    PROVE  FactoryInv'
<1>0. /\ TypeOK /\ stage[c] = "live" /\ Room(1) /\ using' = using /\ c \in todo
      /\ state_builder' = state_builder /\ cell' = [cell EXCEPT ![c] = ServiceConfig] /\ todo' = todo \ {c}
      /\ UNCHANGED <<stage, index>> /\ UNCHANGED <<config, factory, hostVars>>
  BY DEF FactoryInv, notify
<1>1. /\ KeysLast /\ CacheOK(TheCache)' /\ CacheTyped' /\ BuiltWith(key', state'[c], state_builder[c])
      /\ state' \in [Clients -> StateIds \cup {0}] /\ failed' \in [Clients -> BOOLEAN]
      /\ cell' \in [Clients -> ServiceConfigs \cup HostConfigs \cup {None}] /\ cell'[c] = ServiceConfig
      /\ \A d \in Clients \ {c} : state'[d] = state[d] /\ failed'[d] = failed[d] /\ cell'[d] = cell[d]
      /\ ~failed'[c] => key'[state'[c]].config = CachedConfig(ServiceConfig, state_builder[c], 0)
  <2>1. CASE cell[c] = ServiceConfig
    <3>1. UNCHANGED <<cacheVars, state, failed>>
      BY <2>1 DEF notify
    <3>2. Alive' = Alive
      BY <3>1, <1>0 DEF Alive
    <3>3. KeysLast /\ CacheOK(TheCache)' /\ CacheTyped' /\ key' = key
      BY <3>1, <3>2, SameCache DEF cacheVars
    <3>4. BuiltWith(key, state[c], state_builder[c])
      BY <1>0 DEF FactoryInv, ClientInv
    <3>5. ~failed[c] => key[state[c]].config = CachedConfig(ServiceConfig, state_builder[c], 0)
      BY <1>0, <2>1 DEF FactoryInv, LiveInv
    <3>6. /\ cell' \in [Clients -> ServiceConfigs \cup HostConfigs \cup {None}] /\ cell'[c] = ServiceConfig
          /\ \A d \in Clients \ {c} : cell'[d] = cell[d]
      BY <1>0, ServiceConfigType DEF TypeOK
    <3>7. state \in [Clients -> StateIds \cup {0}] /\ failed \in [Clients -> BOOLEAN]
      BY <1>0 DEF TypeOK
    <3> QED
      BY <3>1, <3>3, <3>4, <3>5, <3>6, <3>7
  <2>2. CASE cell[c] # ServiceConfig
    <3>1. PICK made \in ClientState_new : Reload(c, made)
      BY <2>2 DEF notify
    <3>2. made \in BOOLEAN
      BY OutcomesAreBoolean
    <3> QED
      BY <3>1, <3>2, <1>0, Reloads
  <2> QED
    BY <2>1, <2>2
<1>2. TypeOK'
  BY <1>0, <1>1 DEF TypeOK, CacheTyped, hostVars
<1>3. \A d \in Clients \ {c} : SameClient(d)
  BY <1>0, <1>1 DEF SameClient
<1>4. PlainOK(c)'
  <2>1. ServiceConfig' = ServiceConfig /\ c \notin todo'
    BY <1>0 DEF ServiceConfig
  <2> QED
    BY <2>1, <1>0, <1>1 DEF PlainOK
<1>5. /\ stage[c] # "host" /\ UNCHANGED <<config, hostVars>>
      /\ \A d \in (Clients \cup {0}) \ {c} : d \in todo' <=> d \in todo
  BY <1>0
<1> QED
  BY <1>1, <1>2, <1>3, <1>4, <1>5, OneClient DEF FactoryInv

(* drop_client *)
LEMMA StepDrop ==
    ASSUME FactoryInv, NEW c \in Clients, drop_client(c)
    PROVE  FactoryInv'
<1>0. /\ TypeOK /\ stage[c] = "live" /\ Released(c) /\ using' = using /\ todo' = todo \ {c}
      /\ UNCHANGED <<config, factory, hostVars>> /\ UNCHANGED cacheVars
  BY DEF FactoryInv, drop_client
<1>1. /\ stage' \in [Clients -> {"free", "built", "live", "host"}] /\ stage'[c] = "free"
      /\ cell' \in [Clients -> ServiceConfigs \cup HostConfigs \cup {None}]
      /\ state_builder' \in [Clients -> StateBuilders]
      /\ state' \in [Clients -> StateIds \cup {0}] /\ state'[c] = 0 /\ Takes(c, 0)
      /\ failed' \in [Clients -> BOOLEAN] /\ index' = index
      /\ \A d \in Clients \ {c} : SameClient(d)
  BY <1>0, GoneClient
<1>2. (Alive \ {0})' \subseteq (Alive \ {0}) \cup ({0} \ {0})
  BY <1>0, <1>1, AliveAfter DEF Takes
<1>3. KeysLast /\ CacheOK(TheCache)' /\ CacheTyped'
  BY <1>0, <1>2, SameCache
<1>4. TypeOK'
  BY <1>0, <1>1, <1>3 DEF TypeOK, CacheTyped, hostVars
<1>5. PlainOK(c)'
  BY <1>0, <1>1 DEF PlainOK
<1>6. /\ stage[c] # "host" /\ UNCHANGED <<config, hostVars>>
      /\ \A d \in (Clients \cup {0}) \ {c} : d \in todo' <=> d \in todo
  BY <1>0
<1> QED
  BY <1>1, <1>3, <1>4, <1>5, <1>6, OneClient DEF FactoryInv

-----------------------------------------------------------------------------
(* Steps that change no client *)

(* The keys of the states that clients have is all the invariant needs. *)
LEMMA NoClient ==
    ASSUME FactoryInv, KeysLast, UNCHANGED <<clientVars, hostVars, config, todo>>
    PROVE  ClientInv' /\ LiveInv' /\ HandleInv' /\ CollectionInv'
<1>1. /\ stage' = stage /\ cell' = cell /\ state_builder' = state_builder /\ index' = index /\ state' = state
      /\ failed' = failed /\ collection' = collection /\ client_handles' = client_handles
      /\ published' = published /\ todo' = todo /\ ServiceConfig' = ServiceConfig
  BY DEF clientVars, hostVars, ServiceConfig
<1>2. ClientInv'
  BY <1>1 DEF FactoryInv, ClientInv, BuiltWith, KeysLast
<1>3. LiveInv'
  BY <1>1 DEF FactoryInv, LiveInv, KeysLast
<1>4. HandleInv'
  <2>1. ASSUME NEW h \in Hosts, client_handles[h] # 0
        PROVE  client_handles[h] \in Clients /\ key'[state[client_handles[h]]] = key[state[client_handles[h]]]
    BY <2>1 DEF FactoryInv, TypeOK, HandleInv, KeysLast
  <2> QED
    BY <1>1, <2>1 DEF FactoryInv, HandleInv
<1>5. CollectionInv'
  BY <1>1 DEF FactoryInv, CollectionInv
<1> QED
  BY <1>2, <1>3, <1>4, <1>5

(* send: the call takes part in a state that is in use. *)
LEMMA StepSend ==
    ASSUME FactoryInv, NEW q \in Requests, NEW c \in Clients, send(q, c)
    PROVE  FactoryInv'
<1>0. /\ TypeOK /\ using' = [using EXCEPT ![q] = state[c]] /\ using \in [Requests -> StateIds \cup {0}]
      /\ state[c] \in StateIds \cup {0} /\ UNCHANGED <<config, todo, factory, cacheVars, clientVars, hostVars>>
  BY DEF FactoryInv, TypeOK, send
<1>1. \A r \in Requests : using'[r] = using[r] \/ using'[r] = state[c]
  BY <1>0
<1>2. (Alive \ {0})' \subseteq Alive \ {0}
  BY <1>0, <1>1 DEF Alive, clientVars
<1>3. KeysLast /\ CacheOK(TheCache)' /\ CacheTyped'
  BY <1>0, <1>2, SameCache
<1>4. TypeOK'
  BY <1>0 DEF TypeOK, cacheVars, clientVars, hostVars
<1> QED
  BY <1>0, <1>3, <1>4, NoClient DEF FactoryInv

(* sent *)
LEMMA StepSent ==
    ASSUME FactoryInv, NEW q \in Requests, sent(q)
    PROVE  FactoryInv'
<1>0. /\ TypeOK /\ using' = [using EXCEPT ![q] = 0] /\ using \in [Requests -> StateIds \cup {0}]
      /\ UNCHANGED <<config, todo, factory, cacheVars, clientVars, hostVars>>
  BY DEF FactoryInv, TypeOK, sent
<1>1. \A r \in Requests : using'[r] = using[r] \/ using'[r] = 0
  BY <1>0
<1>2. (Alive \ {0})' \subseteq Alive \ {0}
  BY <1>0, <1>1 DEF Alive, clientVars
<1>3. KeysLast /\ CacheOK(TheCache)' /\ CacheTyped'
  BY <1>0, <1>2, SameCache
<1>4. TypeOK'
  BY <1>0 DEF TypeOK, cacheVars, clientVars, hostVars
<1> QED
  BY <1>0, <1>3, <1>4, NoClient DEF FactoryInv

(* evict: the state is nobody's. *)
LEMMA StepEvict ==
    ASSUME FactoryInv, NEW i \in StateIds, evict(i)
    PROVE  FactoryInv'
<1>0. /\ TypeOK /\ key[i] # None /\ i \notin Alive
      /\ entries' = [entries EXCEPT ![key[i].cache] = Evicted(i)]
      /\ key' = [key EXCEPT ![i] = None] /\ pushed' = pushed \ {i}
      /\ UNCHANGED <<config, todo, factory, clientVars, using, hostVars>>
  BY DEF FactoryInv, evict
<1> DEFINE k == TheCache.key[i].cache
           s == Without(TheCache.entries[k], Of(TheCache.entries[k], i))
           r == [TheCache EXCEPT !.entries[k] = s, !.key[i] = None, !.pushed = @ \ {i}]
<1>1. k = key[i].cache /\ s = Evicted(i)
  BY CacheFields DEF Evicted, Of
<1>2. CacheOK(r)
  BY <1>0, CacheFields, Dropped DEF FactoryInv
<1> HIDE DEF k, s
<1>3. StoreCache(r) /\ r.alive = Alive \ {0}
  BY <1>0, <1>1 DEF TheCache, StoreCache
<1> HIDE DEF r
<1>4. Alive' = Alive
  BY <1>0 DEF Alive, clientVars
<1>5. CacheOK(TheCache)' /\ CacheTyped'
  BY <1>2, <1>3, <1>4, Stored
<1>6. KeysLast
  BY <1>0, StatesInUse DEF KeysLast, TypeOK
<1>7. TypeOK'
  BY <1>0, <1>5 DEF TypeOK, CacheTyped, clientVars, hostVars
<1> QED
  BY <1>0, <1>5, <1>6, <1>7, NoClient DEF FactoryInv

(* The factory's own settings are nobody's but a new client's. *)
LEMMA StepSettings ==
    ASSUME FactoryInv, uncached_mut \/ cached_mut
    PROVE  FactoryInv'
<1>0. TypeOK /\ UNCHANGED <<config, todo, cacheVars, clientVars, using, hostVars>>
  BY DEF FactoryInv, uncached_mut, cached_mut
<1>1. factory' \in StateBuilders
  <2>1. factory \in StateBuilders /\ factory.manager \in Caches /\ factory.own \in 0 .. MaxChanges
    BY <1>0 DEF TypeOK, StateBuilders
  <2>1a. factory.manager \in Nat \ {0} /\ MaxChanges \in Nat
    BY <2>1, FactoryAssumption
  <2>2. CASE uncached_mut
    BY <2>1, <2>2 DEF uncached_mut, StateBuilders
  <2>3. CASE cached_mut
    <3>1. factory.own + 1 \in 0 .. MaxChanges
      BY <2>1, <2>1a, <2>3 DEF cached_mut, Changes
    <3> QED
      BY <3>1, <2>1, <2>3 DEF cached_mut, StateBuilders
  <2> QED
    BY <2>2, <2>3
<1>2. Alive' = Alive
  BY <1>0 DEF Alive, clientVars
<1>3. KeysLast /\ CacheOK(TheCache)' /\ CacheTyped'
  BY <1>0, <1>2, SameCache
<1>4. TypeOK'
  BY <1>0, <1>1 DEF TypeOK, cacheVars, clientVars, hostVars
<1> QED
  BY <1>0, <1>3, <1>4, NoClient DEF FactoryInv

(* refresh: every subscriber is still to see the new configuration. *)
LEMMA StepRefresh ==
    ASSUME FactoryInv, NEW c \in Configs, refresh(c)
    PROVE  FactoryInv'
<1>0. /\ TypeOK /\ config' = c /\ todo = {}
      /\ todo' = {d \in Clients : stage[d] = "live"} \cup (IF collection.exists THEN {0} ELSE {})
      /\ UNCHANGED <<factory, cacheVars, clientVars, using, hostVars>>
  BY DEF FactoryInv, refresh, Unlocked
<1>1. /\ stage' = stage /\ cell' = cell /\ state_builder' = state_builder /\ index' = index /\ state' = state
      /\ failed' = failed /\ collection' = collection /\ client_handles' = client_handles
      /\ published' = published /\ key' = key
  BY <1>0 DEF clientVars, hostVars, cacheVars
<1>2. Alive' = Alive
  BY <1>0, <1>1 DEF Alive
<1>3. CacheOK(TheCache)'
  BY <1>0, <1>2, SameCache
<1>4. TypeOK'
  <2>1. todo' \subseteq Clients \cup {0}
    BY <1>0
  <2> QED
    BY <2>1, <1>0 DEF TypeOK, cacheVars, clientVars, hostVars
<1>5. ClientInv' /\ HandleInv'
  BY <1>1 DEF FactoryInv, ClientInv, HandleInv, BuiltWith
<1>6. LiveInv'
  BY <1>0, <1>1 DEF FactoryInv, LiveInv
<1>7. CollectionInv'
  <2>1. (0 \in todo') <=> collection.exists
    BY <1>0, Zero
  <2> QED
    BY <2>1, <1>1 DEF FactoryInv, CollectionInv
<1> QED
  BY <1>3, <1>4, <1>5, <1>6, <1>7 DEF FactoryInv

(* The initial states. *)
LEMMA InitFactory ==
    ASSUME Init
    PROVE  FactoryInv
<1>1. NewFactory \in StateBuilders /\ 0 \in 0 .. Cardinality(Hosts) /\ Capacity \in Nat /\ EmptyCache \in Seq(StateIds)
  BY Zero, FactoryAssumption DEF NewFactory, StateBuilders, EmptyCache
<1>2. TypeOK
  <2>1. Len(EmptyCache) <= Capacity
    BY FactoryAssumption DEF EmptyCache
  <2>2. failed \in [Clients -> BOOLEAN]
    BY Zenon DEF Init
  <2>3. NoCollection \in [exists : BOOLEAN, cell : ServiceConfigs \cup {None},
                          state_builder : StateBuilders, failed : BOOLEAN]
    BY <1>1 DEF NoCollection
  <2>4. \A k \in Caches : Len(entries[k]) <= Capacity
    BY <2>1 DEF Init
  <2> QED
    BY <1>1, <2>2, <2>3, <2>4 DEF Init, TypeOK, NoHosts
<1>3. TheCache = [key |-> key, entries |-> entries, pushed |-> {}, alive |-> {}, id |-> 0]
  <2>1. Alive \ {0} = {}
    BY DEF Alive, Init
  <2> QED
    BY <2>1 DEF TheCache, Init
<1>4. CacheOK(TheCache)
  <2>1. ASSUME NEW k \in Caches PROVE ListOK(entries[k], key, k) /\ Len(entries[k]) <= Capacity
    <3>1. entries[k] = EmptyCache /\ entries[k] \in Seq(StateIds) /\ Len(entries[k]) <= Capacity
      BY <1>2 DEF Init, TypeOK
    <3>2. DOMAIN entries[k] = {}
      BY <3>1 DEF EmptyCache
    <3> QED
      BY <3>1, <3>2 DEF ListOK
  <2>2. TheCache \in CacheType /\ Kept(TheCache)
    BY <1>2, <1>3 DEF CacheType, TypeOK, Kept
  <2>3. TheCache.entries = entries /\ TheCache.key = key
    BY CacheFields
  <2> QED
    BY <2>1, <2>2, <2>3 DEF CacheOK
<1>5. ClientInv /\ LiveInv
  BY DEF Init, ClientInv, LiveInv
<1>6. HandleInv /\ CollectionInv
  BY DEF Init, HandleInv, CollectionInv, NoHosts, NoCollection
<1> QED
  BY <1>2, <1>4, <1>5, <1>6 DEF FactoryInv

-----------------------------------------------------------------------------
(* The loop over the hosts *)

AccType ==
    [cache : CacheType, state_builder : StateBuilders,
     cell : [Clients -> ServiceConfigs \cup HostConfigs \cup {None}],
     index : [Clients -> 0 .. Cardinality(Hosts)], state : [Clients -> StateIds \cup {0}],
     failed : [Clients -> BOOLEAN], handles : [Hosts -> Clients \cup {0}],
     free : SUBSET Clients, errors : BOOLEAN]

(* The cache as the loop leaves it: states are added, none is lost. *)
CacheGrows(cs) ==
    /\ CacheOK(cs) /\ Alive \ {0} \subseteq cs.alive
    /\ \A i \in StateIds : key[i] # None => cs.key[i] = key[i]

(* The client c of a host the loop has a handle for. *)
HandleOf(acc, sc, h, c) ==
    /\ c = client_handles[h] \/ (client_handles[h] = 0 /\ c \in Free \ acc.free)
    /\ acc.cell[c] = HostConfig(sc, h)
    /\ BuiltWith(acc.cache.key, acc.state[c], acc.state_builder) /\ acc.state[c] \in acc.cache.alive
    /\ ~acc.failed[c] => acc.cache.key[acc.state[c]].config =
                            CachedConfig(HostConfig(sc, h), acc.state_builder, acc.index[c])

HandleOK(acc, sc, h) ==
    /\ HandleOf(acc, sc, h, acc.handles[h])
    /\ \A g \in Hosts : acc.handles[g] = acc.handles[h] => g = h

(* A client no handle is for is as it was. *)
Untouched(acc, c) ==
    /\ acc.cell[c] = cell[c] /\ acc.index[c] = index[c] /\ acc.state[c] = state[c] /\ acc.failed[c] = failed[c]

Reached(acc, sc, b) ==
    /\ acc \in AccType /\ acc.state_builder = b /\ CacheGrows(acc.cache) /\ acc.free \subseteq Free
    /\ \A h \in Hosts : acc.handles[h] # 0 => HandleOK(acc, sc, h)
    /\ \A c \in Clients : (\A h \in Hosts : acc.handles[h] # c) => Untouched(acc, c)

Unbuilt(cs) == {i \in StateIds : cs.key[i] = None}
NewHosts(sc, i) == {n \in DOMAIN sc.uris : n > i /\ client_handles[sc.uris[n]] = 0}

(* After i hosts: there is room for the rest, and only the hosts that were *)
(* visited have a handle.                                                  *)
LoopInv(acc, sc, b, i) ==
    /\ Reached(acc, sc, b)
    /\ Cardinality(Unbuilt(acc.cache)) >= Len(sc.uris) - i
    /\ Cardinality(acc.free) >= Cardinality(NewHosts(sc, i))
    /\ \A h \in Hosts : acc.handles[h] # 0 => \E n \in DOMAIN sc.uris : n <= i /\ sc.uris[n] = h

Loops(g, sc, made, b, n) ==
    g = [i \in 0 .. n |-> IF i = 0 THEN Start(b) ELSE Visit(g[i - 1], sc, i, made[i])]

(* The recursion of the loop has a solution. *)
LEMMA LoopExists ==
    ASSUME NEW sc, NEW made, NEW b, NEW k \in Nat
    PROVE  \E g : Loops(g, sc, made, b, k)
<1> DEFINE P == {n \in Nat : \E g : Loops(g, sc, made, b, n)}
<1>1. 0 \in P
  <2>0. \A i \in 0 .. 0 : i = 0
    OBVIOUS
  <2> DEFINE g == [i \in 0 .. 0 |-> Start(b)]
  <2>1. g = [i \in 0 .. 0 |-> IF i = 0 THEN Start(b) ELSE Visit(g[i - 1], sc, i, made[i])]
    BY <2>0, Zenon
  <2> HIDE DEF g
  <2>2. Loops(g, sc, made, b, 0)
    BY <2>1, Zenon DEF Loops
  <2> QED
    BY <2>2
<1>2. ASSUME NEW n \in P PROVE n + 1 \in P
  <2>1. n \in Nat
    OBVIOUS
  <2>2. PICK g : Loops(g, sc, made, b, n)
    OBVIOUS
  <2> DEFINE h == [i \in 0 .. n + 1 |-> IF i = 0 THEN Start(b) ELSE Visit(g[i - 1], sc, i, made[i])]
  <2>a. \A i \in 0 .. n : i \in 0 .. n + 1
    BY <2>1
  <2>3. \A i \in 0 .. n : h[i] = g[i]
    BY <2>2, <2>a, Zenon DEF Loops
  <2>4. \A i \in 0 .. n + 1 : i # 0 => i - 1 \in 0 .. n
    BY <2>1
  <2>5. Loops(h, sc, made, b, n + 1)
    BY <2>3, <2>4, Zenon DEF Loops
  <2> QED
    BY <2>1, <2>5
<1>3. P = Nat
  <2> HIDE DEF P
  <2>1. P \subseteq Nat
    BY DEF P
  <2> QED
    BY <1>1, <1>2, <2>1, Induction
<1>4. k \in P
  BY <1>3, Zenon
<1> QED
  BY <1>4

(* What the callback computes is the last of the loop's values. *)
LEMMA ReloadedIsLast ==
    ASSUME NEW sc, NEW made, NEW b, Len(sc.uris) \in Nat
    PROVE  \E g : /\ g[0] = Start(b) /\ Reloaded(sc, made, b) = g[Len(sc.uris)]
                  /\ \A i \in 1 .. Len(sc.uris) : g[i] = Visit(g[i - 1], sc, i, made[i])
<1> DEFINE n == Len(sc.uris)
           g == CHOOSE h : Loops(h, sc, made, b, n)
<1>1. Loops(g, sc, made, b, n)
  BY LoopExists
<1>2. Reloaded(sc, made, b) = g[n]
  BY DEF Reloaded, Loops
<1> HIDE DEF g
<1>3. \A i \in 0 .. n : g[i] = IF i = 0 THEN Start(b) ELSE Visit(g[i - 1], sc, i, made[i])
  BY <1>1, Zenon DEF Loops
<1>4. 0 \in 0 .. n /\ \A i \in 1 .. n : i \in 0 .. n /\ i # 0
  OBVIOUS
<1>5. g[0] = Start(b) /\ \A i \in 1 .. n : g[i] = Visit(g[i - 1], sc, i, made[i])
  BY <1>3, <1>4, Zenon
<1> QED
  BY <1>2, <1>5

(* The loop starts from the state of the step. *)
LEMMA StartReached ==
    ASSUME FactoryInv, NEW sc, NEW b \in StateBuilders
    PROVE  Reached(Start(b), sc, b)
<1> DEFINE acc == Start(b)
<1>1. /\ acc.cache = TheCache /\ acc.state_builder = b /\ acc.cell = cell /\ acc.index = index
      /\ acc.state = state /\ acc.failed = failed /\ acc.handles = NoHosts /\ acc.free = Free
      /\ acc.errors = FALSE
  BY DEF Start
<1>2. acc \in AccType
  <2>1. TheCache \in CacheType /\ NoHosts \in [Hosts -> Clients \cup {0}] /\ Free \in SUBSET Clients
    BY DEF FactoryInv, CacheOK, NoHosts, Free
  <2>2. /\ cell \in [Clients -> ServiceConfigs \cup HostConfigs \cup {None}]
        /\ index \in [Clients -> 0 .. Cardinality(Hosts)] /\ state \in [Clients -> StateIds \cup {0}]
        /\ failed \in [Clients -> BOOLEAN]
    BY DEF FactoryInv, TypeOK
  <2> QED
    BY <2>1, <2>2 DEF AccType, Start
<1> HIDE DEF acc
<1>3. CacheGrows(acc.cache)
  BY <1>1, CacheFields DEF CacheGrows, FactoryInv
<1>4. \A h \in Hosts : acc.handles[h] = 0
  BY <1>1 DEF NoHosts
<1>5. \A c \in Clients : Untouched(acc, c)
  BY <1>1 DEF Untouched
<1>6. Reached(acc, sc, b)
  BY <1>1, <1>2, <1>3, <1>4, <1>5 DEF Reached
<1> QED
  BY <1>6 DEF acc

(* What a state that a lookup returned was built for. *)
LEMMA LookedState ==
    ASSUME NEW r, NEW cs, NEW sc \in ServiceConfigs \cup HostConfigs, NEW b \in StateBuilders,
           NEW at \in 0 .. Cardinality(Hosts), Looked(r, cs, b.manager, CachedConfig(sc, b, at)), r.id # 0
    PROVE  /\ BuiltWith(r.key, r.id, b) /\ r.key[r.id].config = CachedConfig(sc, b, at)
           /\ r.id \in StateIds /\ r.id \in r.alive
<1>1. /\ r.id \in StateIds /\ r.alive = cs.alive \cup {r.id}
      /\ r.key[r.id] = [cache |-> b.manager, config |-> CachedConfig(sc, b, at)]
  BY DEF Looked
<1>2. b.manager \in Caches /\ CachedConfig(sc, b, at) \in CachedConfigs
  BY DEF StateBuilders, CachedConfigs
<1>3. CachedConfig(sc, b, at).own = b.own
  BY DEF CachedConfig, with_own, from_config, with_uris, with_setting, override_host_index, BuilderDefault
<1>4. ASSUME NEW x, x = [cache |-> b.manager, config |-> CachedConfig(sc, b, at)]
      PROVE  x # None /\ x.cache = b.manager /\ x.config = CachedConfig(sc, b, at)
  BY <1>2, <1>4, NoneAssumption DEF Keys
<1> QED
  BY <1>1, <1>3, <1>4 DEF BuiltWith

(* A lookup of the loop. *)
LEMMA LoopLooksUp ==
    ASSUME NEW cs, CacheGrows(cs), NEW sc \in ServiceConfigs \cup HostConfigs, NEW b \in StateBuilders,
           NEW at \in 0 .. Cardinality(Hosts), NEW made \in BOOLEAN, NEW n \in Nat \ {0},
           Cardinality(Unbuilt(cs)) >= n, NEW r, r = Get(cs, sc, b, at, made)
    PROVE  /\ CacheGrows(r) /\ Cardinality(Unbuilt(r)) >= n - 1
           /\ cs.alive \subseteq r.alive /\ \A i \in StateIds : cs.key[i] # None => r.key[i] = cs.key[i]
           /\ r.id # 0 => /\ BuiltWith(r.key, r.id, b) /\ r.key[r.id].config = CachedConfig(sc, b, at)
                          /\ r.id \in StateIds /\ r.id \in r.alive
<1>1. \A T : T \in SUBSET StateIds => IsFiniteSet(T) /\ Cardinality(T) \in Nat
  BY FactoryAssumption, FS_Subset, FS_CardinalityType
<1>2. Unbuilt(cs) \in SUBSET StateIds /\ Unbuilt(r) \in SUBSET StateIds
  BY DEF Unbuilt
<1>3. \E i \in StateIds : cs.key[i] = None
  <2>1. Unbuilt(cs) # {}
    BY FS_EmptySet
  <2> QED
    BY <2>1 DEF Unbuilt
<1>4. Looked(r, cs, b.manager, CachedConfig(sc, b, at))
  BY <1>3, GetLooked DEF CacheGrows
<1>5. cs.alive \subseteq r.alive /\ \A i \in StateIds : cs.key[i] # None => r.key[i] = cs.key[i]
  BY <1>4 DEF Looked
<1>6. CacheGrows(r)
  BY <1>4, <1>5 DEF CacheGrows, Looked
<1>7. Cardinality(Unbuilt(r)) >= n - 1
  <2>1. PICK x \in StateIds \cup {0} : \A i \in StateIds : cs.key[i] = None /\ i # x => r.key[i] = None
    BY <1>4 DEF Looked
  <2>2. Unbuilt(cs) \ {x} \in SUBSET Unbuilt(r)
    BY <2>1 DEF Unbuilt
  <2>3. Cardinality(Unbuilt(cs) \ {x}) >= Cardinality(Unbuilt(cs)) - 1
    BY <1>1, <1>2, FS_RemoveElement
  <2>4. Cardinality(Unbuilt(cs) \ {x}) <= Cardinality(Unbuilt(r))
    BY <1>1, <1>2, <2>2, FS_Subset
  <2>5. Cardinality(Unbuilt(cs)) \in Nat /\ Cardinality(Unbuilt(r)) \in Nat /\ Cardinality(Unbuilt(cs) \ {x}) \in Nat
    BY <1>1, <1>2
  <2> QED
    BY <2>3, <2>4, <2>5
<1>8. ASSUME r.id # 0
      PROVE  /\ BuiltWith(r.key, r.id, b) /\ r.key[r.id].config = CachedConfig(sc, b, at)
             /\ r.id \in StateIds /\ r.id \in r.alive
  BY <1>4, <1>8, LookedState
<1> QED
  BY <1>5, <1>6, <1>7, <1>8

(* A handle of another host is not disturbed. *)
LEMMA OtherHandle ==
    ASSUME NEW acc, NEW new, NEW sc, NEW h, NEW d, HandleOf(acc, sc, h, d), acc.cache \in CacheType,
           new.state_builder = acc.state_builder, new.free \subseteq acc.free,
           acc.cache.alive \subseteq new.cache.alive,
           \A i \in StateIds : acc.cache.key[i] # None => new.cache.key[i] = acc.cache.key[i],
           new.cell[d] = acc.cell[d], new.index[d] = acc.index[d], new.state[d] = acc.state[d],
           new.failed[d] = acc.failed[d]
    PROVE  HandleOf(new, sc, h, d)
<1>1. new.cache.key[acc.state[d]] = acc.cache.key[acc.state[d]]
  BY DEF HandleOf, BuiltWith
<1> QED
  BY <1>1 DEF HandleOf, BuiltWith

(* The loop goes on to one more handle, of a client c. *)
LEMMA OneMoreHandle ==
    ASSUME NEW acc, NEW new, NEW sc, NEW b, Reached(acc, sc, b), NEW h \in Hosts, NEW c \in Clients,
           acc.handles[h] = 0, \A g \in Hosts : acc.handles[g] # c,
           new \in AccType, new.state_builder = b, CacheGrows(new.cache), new.free \subseteq acc.free,
           acc.cache.alive \subseteq new.cache.alive,
           \A i \in StateIds : acc.cache.key[i] # None => new.cache.key[i] = acc.cache.key[i],
           new.handles = [acc.handles EXCEPT ![h] = c], HandleOf(new, sc, h, c),
           \A d \in Clients \ {c} : /\ new.cell[d] = acc.cell[d] /\ new.index[d] = acc.index[d]
                                    /\ new.state[d] = acc.state[d] /\ new.failed[d] = acc.failed[d]
    PROVE  Reached(new, sc, b)
<1>0. /\ acc.handles \in [Hosts -> Clients \cup {0}] /\ acc.cache \in CacheType /\ acc.state_builder = b
      /\ acc.free \subseteq Free
  BY DEF Reached, AccType
<1>1. new.handles[h] = c /\ \A g \in Hosts \ {h} : new.handles[g] = acc.handles[g] /\ new.handles[g] # c
  BY <1>0
<1>2. ASSUME NEW g \in Hosts, new.handles[g] # 0 PROVE HandleOK(new, sc, g)
  <2>1. CASE g = h
    BY <2>1, <1>1 DEF HandleOK
  <2>2. CASE g # h
    <3>1. new.handles[g] = acc.handles[g] /\ acc.handles[g] # 0 /\ acc.handles[g] # c /\ acc.handles[g] \in Clients
      BY <2>2, <1>0, <1>1, <1>2
    <3>2. HandleOf(acc, sc, g, acc.handles[g]) /\ \A x \in Hosts : acc.handles[x] = acc.handles[g] => x = g
      BY <3>1 DEF Reached, HandleOK
    <3>3. HandleOf(new, sc, g, acc.handles[g])
      <4> DEFINE d == acc.handles[g]
      <4>1. d \in Clients \ {c} /\ HandleOf(acc, sc, g, d)
        BY <3>1, <3>2
      <4> HIDE DEF d
      <4>2. /\ new.cell[d] = acc.cell[d] /\ new.index[d] = acc.index[d] /\ new.state[d] = acc.state[d]
            /\ new.failed[d] = acc.failed[d] /\ new.state_builder = acc.state_builder
            /\ new.free \subseteq acc.free /\ acc.cache.alive \subseteq new.cache.alive
            /\ \A i \in StateIds : acc.cache.key[i] # None => new.cache.key[i] = acc.cache.key[i]
        BY <4>1, <1>0
      <4>3. HandleOf(new, sc, g, d)
        BY ONLY <4>1, <4>2, <1>0, OtherHandle
      <4> QED
        BY <4>3 DEF d
    <3>4. \A x \in Hosts : new.handles[x] = new.handles[g] => x = g
      BY <3>1, <3>2, <1>1
    <3> QED
      BY <3>1, <3>3, <3>4 DEF HandleOK
  <2> QED
    BY <2>1, <2>2
<1>3. ASSUME NEW d \in Clients, \A g \in Hosts : new.handles[g] # d PROVE Untouched(new, d)
  <2>1. d # c
    BY <1>1, <1>3
  <2>2. \A g \in Hosts : acc.handles[g] # d
    BY <1>1, <1>3, <2>1, Zero
  <2>3. Untouched(acc, d)
    BY <2>2 DEF Reached
  <2> QED
    BY <2>1, <2>3 DEF Untouched
<1>4. new.free \subseteq Free
  BY <1>0
<1> QED
  BY <1>2, <1>3, <1>4 DEF Reached

(* The loop goes on without a handle for the host. *)
LEMMA NoMoreHandle ==
    ASSUME NEW acc, NEW new, NEW sc, NEW b, Reached(acc, sc, b),
           new \in AccType, new.state_builder = b, CacheGrows(new.cache), new.free = acc.free,
           acc.cache.alive \subseteq new.cache.alive,
           \A i \in StateIds : acc.cache.key[i] # None => new.cache.key[i] = acc.cache.key[i],
           new.handles = acc.handles, new.cell = acc.cell, new.index = acc.index,
           new.state = acc.state, new.failed = acc.failed
    PROVE  Reached(new, sc, b)
<1>0. acc.cache \in CacheType /\ acc.state_builder = b /\ acc.free \subseteq Free
  BY DEF Reached, AccType
<1>1. ASSUME NEW g \in Hosts, new.handles[g] # 0 PROVE HandleOK(new, sc, g)
  <2> DEFINE d == acc.handles[g]
  <2>1. HandleOf(acc, sc, g, d) /\ \A x \in Hosts : acc.handles[x] = d => x = g
    BY <1>1 DEF Reached, HandleOK
  <2> HIDE DEF d
  <2>2. /\ new.cell[d] = acc.cell[d] /\ new.index[d] = acc.index[d] /\ new.state[d] = acc.state[d]
        /\ new.failed[d] = acc.failed[d] /\ new.state_builder = acc.state_builder
        /\ new.free \subseteq acc.free /\ acc.cache.alive \subseteq new.cache.alive
        /\ \A i \in StateIds : acc.cache.key[i] # None => new.cache.key[i] = acc.cache.key[i]
    BY <1>0
  <2>3. HandleOf(new, sc, g, d)
    BY ONLY <2>1, <2>2, <1>0, OtherHandle
  <2> QED
    BY <2>1, <2>3 DEF HandleOK, d
<1>2. ASSUME NEW d \in Clients, \A g \in Hosts : new.handles[g] # d PROVE Untouched(new, d)
  BY <1>2 DEF Reached, Untouched
<1> QED
  BY <1>0, <1>1, <1>2 DEF Reached

(* The client of an old handle is not taken by another host. *)
LEMMA OldHandle ==
    ASSUME FactoryInv, NEW acc, NEW sc, NEW b, Reached(acc, sc, b), NEW h \in Hosts, client_handles[h] # 0,
           acc.handles[h] = 0, NEW c, c = client_handles[h]
    PROVE  /\ c \in Clients /\ stage[c] = "host" /\ cell[c] = HostConfig(collection.cell, h)
           /\ \A g \in Hosts : acc.handles[g] # c
           /\ Untouched(acc, c) /\ state[c] \in Alive \ {0}
           /\ BuiltWith(key, state[c], collection.state_builder)
           /\ ~failed[c] => key[state[c]].config = CachedConfig(cell[c], collection.state_builder, index[c])
<1>1. /\ c \in Clients /\ stage[c] = "host" /\ cell[c] = HostConfig(collection.cell, h)
      /\ ~failed[c] => key[state[c]].config = CachedConfig(cell[c], collection.state_builder, index[c])
      /\ \A g \in Hosts : client_handles[g] = c => g = h
  BY DEF FactoryInv, TypeOK, HandleInv
<1>2. BuiltWith(key, state[c], collection.state_builder) /\ state[c] \in Alive \ {0}
  BY <1>1, StatesInUse DEF FactoryInv, ClientInv
<1>3. ASSUME NEW g \in Hosts, acc.handles[g] = c PROVE FALSE
  <2>1. HandleOf(acc, sc, g, c)
    BY <1>3 DEF Reached, HandleOK
  <2>2. c = client_handles[g] \/ c \in Free
    BY <2>1 DEF HandleOf
  <2>3. c \notin Free
    BY <1>1 DEF Free
  <2>4. g = h
    BY <1>1, <2>2, <2>3
  <2> QED
    BY <2>4, <1>3
<1>4. Untouched(acc, c)
  BY <1>1, <1>3 DEF Reached
<1> QED
  BY <1>1, <1>2, <1>3, <1>4

(* RefreshHandle *)
LEMMA HandleRefreshed ==
    ASSUME FactoryInv, NEW sc \in ServiceConfigs, NEW b \in StateBuilders, NEW acc, Reached(acc, sc, b),
           NEW h \in Hosts, client_handles[h] # 0, b = collection.state_builder, acc.handles[h] = 0,
           NEW made \in BOOLEAN, NEW n \in Nat \ {0}, Cardinality(Unbuilt(acc.cache)) >= n,
           NEW new, new = RefreshHandle(acc, sc, h, made)
    PROVE  /\ Reached(new, sc, b) /\ Cardinality(Unbuilt(new.cache)) >= n - 1 /\ new.free = acc.free
           /\ \A g \in Hosts \ {h} : new.handles[g] = acc.handles[g]
<1> DEFINE c == client_handles[h]
           hc == HostConfig(sc, h)
           cs == Get(acc.cache, hc, acc.state_builder, index[c], made)
           kept == [acc EXCEPT !.handles[h] = c]
<1>1. /\ c \in Clients /\ stage[c] = "host"
      /\ \A g \in Hosts : acc.handles[g] # c
      /\ Untouched(acc, c) /\ state[c] \in Alive \ {0}
      /\ BuiltWith(key, state[c], b)
      /\ ~failed[c] => key[state[c]].config = CachedConfig(cell[c], b, index[c])
  BY OldHandle
<1>2. /\ hc \in HostConfigs /\ index[c] \in 0 .. Cardinality(Hosts)
      /\ acc \in AccType /\ acc.state_builder = b /\ CacheGrows(acc.cache)
  BY <1>1 DEF FactoryInv, TypeOK, HostConfigs, Reached
<1>3. Cardinality(Unbuilt(acc.cache)) \in Nat
  <2>1. Unbuilt(acc.cache) \in SUBSET StateIds
    BY DEF Unbuilt
  <2> QED
    BY <2>1, FactoryAssumption, FS_Subset, FS_CardinalityType
<1>4. acc.cache.key[state[c]] = key[state[c]] /\ state[c] \in acc.cache.alive
  BY <1>1, <1>2 DEF CacheGrows, BuiltWith
<1> HIDE DEF c, hc, cs
<1>5. CASE cell[c] = hc
  <2>1. new = kept
    BY <1>5 DEF RefreshHandle, c, hc
  <2>2. /\ new \in AccType /\ new.handles = [acc.handles EXCEPT ![h] = c] /\ new.state_builder = b
        /\ new.cache = acc.cache /\ new.free = acc.free /\ new.cell = acc.cell /\ new.index = acc.index
        /\ new.state = acc.state /\ new.failed = acc.failed
    BY <2>1, <1>1, <1>2 DEF AccType
  <2>3. HandleOf(new, sc, h, c)
    <3>1. /\ new.cell[c] = hc /\ new.state[c] = state[c] /\ new.index[c] = index[c] /\ new.failed[c] = failed[c]
          /\ new.cache.key[state[c]] = key[state[c]] /\ state[c] \in new.cache.alive
      BY <2>2, <1>1, <1>4, <1>5 DEF Untouched
    <3> QED
      BY <3>1, <2>2, <1>1, <1>5 DEF HandleOf, BuiltWith, c, hc
  <2>4. Reached(new, sc, b)
    BY <2>2, <2>3, <1>1, <1>2, OneMoreHandle
  <2>5. \A g \in Hosts \ {h} : new.handles[g] = acc.handles[g]
    BY <2>2, <1>2 DEF AccType
  <2> QED
    BY <2>2, <2>4, <2>5, <1>3
<1>6. CASE cell[c] # hc
  <2>1. new = [acc EXCEPT !.handles[h] = c, !.cache = cs, !.cell[c] = hc, !.failed[c] = (cs.id = 0),
                          !.state[c] = IF cs.id = 0 THEN @ ELSE cs.id, !.errors = @ \/ cs.id = 0]
    BY <1>6 DEF RefreshHandle, c, hc, cs
  <2>2. /\ CacheGrows(cs) /\ Cardinality(Unbuilt(cs)) >= n - 1
        /\ acc.cache.alive \subseteq cs.alive
        /\ \A i \in StateIds : acc.cache.key[i] # None => cs.key[i] = acc.cache.key[i]
        /\ cs.id # 0 => /\ BuiltWith(cs.key, cs.id, b) /\ cs.key[cs.id].config = CachedConfig(hc, b, index[c])
                        /\ cs.id \in StateIds /\ cs.id \in cs.alive
    BY <1>2, LoopLooksUp DEF cs
  <2> DEFINE hs == [acc.handles EXCEPT ![h] = c]
             cells == [acc.cell EXCEPT ![c] = hc]
             fails == [acc.failed EXCEPT ![c] = (cs.id = 0)]
             states == [acc.state EXCEPT ![c] = IF cs.id = 0 THEN acc.state[c] ELSE cs.id]
             errs == acc.errors \/ cs.id = 0
  <2>3. /\ acc.handles \in [Hosts -> Clients \cup {0}] /\ acc.state \in [Clients -> StateIds \cup {0}]
        /\ acc.cell \in [Clients -> ServiceConfigs \cup HostConfigs \cup {None}]
        /\ acc.failed \in [Clients -> BOOLEAN] /\ acc.errors \in BOOLEAN /\ cs \in CacheType
    BY <1>2, <2>2 DEF AccType, CacheGrows, CacheOK
  <2>4. new = [acc EXCEPT !.handles = hs, !.cache = cs, !.cell = cells, !.failed = fails, !.state = states, !.errors = errs]
    BY <2>1, <1>2 DEF AccType
  <2>5. /\ hs \in [Hosts -> Clients \cup {0}] /\ \A g \in Hosts \ {h} : hs[g] = acc.handles[g]
        /\ cells \in [Clients -> ServiceConfigs \cup HostConfigs \cup {None}] /\ cells[c] = hc
        /\ \A d \in Clients \ {c} : cells[d] = acc.cell[d] /\ states[d] = acc.state[d]
        /\ states \in [Clients -> StateIds \cup {0}] /\ states[c] = IF cs.id = 0 THEN acc.state[c] ELSE cs.id
    BY <2>2, <2>3, <1>1, <1>2
  <2>6. /\ fails \in [Clients -> BOOLEAN] /\ (fails[c] <=> cs.id = 0)
        /\ \A d \in Clients \ {c} : fails[d] = acc.failed[d]
    BY <2>3, <1>1, Zenon
  <2>7. errs \in BOOLEAN
    BY Zenon
  <2>8. hs = [acc.handles EXCEPT ![h] = c]
    OBVIOUS
  <2> HIDE DEF hs, cells, fails, states, errs
  <2>9. /\ new \in AccType /\ new.handles = hs /\ new.state_builder = b
        /\ new.cache = cs /\ new.free = acc.free /\ new.cell = cells /\ new.index = acc.index
        /\ new.state = states /\ new.failed = fails
    BY <2>3, <2>4, <2>5, <2>6, <2>7, <1>2, ZenonT(40) DEF AccType
  <2>10. HandleOf(new, sc, h, c)
    <3>1. new.cell[c] = hc /\ new.index[c] = index[c] /\ c = client_handles[h] /\ hc = HostConfig(sc, h)
      BY <2>5, <2>9, <1>1 DEF Untouched, c, hc
    <3>2. CASE cs.id = 0
      <4>1. new.state[c] = state[c] /\ new.failed[c] /\ cs.key[state[c]] = key[state[c]] /\ state[c] \in cs.alive
        BY <3>2, <2>2, <2>5, <2>6, <2>9, <1>1, <1>4 DEF Untouched, BuiltWith
      <4> QED
        BY <3>1, <4>1, <2>9, <1>1 DEF HandleOf, BuiltWith
    <3>3. CASE cs.id # 0
      BY <3>1, <3>3, <2>2, <2>5, <2>9 DEF HandleOf
    <3> QED
      BY <3>2, <3>3
  <2>11. \A d \in Clients \ {c} : /\ new.cell[d] = acc.cell[d] /\ new.index[d] = acc.index[d]
                                  /\ new.state[d] = acc.state[d] /\ new.failed[d] = acc.failed[d]
    BY <2>5, <2>6, <2>9
  <2>12. Reached(new, sc, b)
    BY <2>2, <2>8, <2>9, <2>10, <2>11, <1>1, OneMoreHandle
  <2> QED
    BY <2>2, <2>5, <2>9, <2>12
<1> QED
  BY <1>5, <1>6

(* NewHandle *)
LEMMA HandleMade ==
    ASSUME FactoryInv, NEW sc \in ServiceConfigs, NEW b \in StateBuilders, NEW acc, Reached(acc, sc, b),
           NEW h \in Hosts, client_handles[h] = 0, acc.handles[h] = 0, acc.free # {},
           NEW i \in 1 .. Cardinality(Hosts),
           NEW made \in BOOLEAN, NEW n \in Nat \ {0}, Cardinality(Unbuilt(acc.cache)) >= n,
           NEW new, new = NewHandle(acc, sc, h, i, made)
    PROVE  /\ Reached(new, sc, b) /\ Cardinality(Unbuilt(new.cache)) >= n - 1
           /\ \E x : acc.free \ {x} \subseteq new.free
           /\ \A g \in Hosts \ {h} : new.handles[g] = acc.handles[g]
<1> DEFINE c == Min(acc.free)
           hc == HostConfig(sc, h)
           cs == Get(acc.cache, hc, acc.state_builder, i, made)
<1>1. /\ hc \in HostConfigs /\ acc \in AccType /\ acc.state_builder = b /\ CacheGrows(acc.cache)
      /\ i \in 0 .. Cardinality(Hosts)
  <2>1. Cardinality(Hosts) \in Nat
    BY FactoryAssumption, FS_CardinalityType
  <2> QED
    BY <2>1 DEF HostConfigs, Reached
<1>2. c \in acc.free /\ c \in Clients /\ c \in Free
  <2>1. acc.free \in SUBSET Nat /\ acc.free \in SUBSET Clients /\ acc.free \in SUBSET Free
    BY <1>1, FactoryAssumption DEF AccType, Reached
  <2> QED
    BY <2>1, MinIsIn
<1> HIDE DEF c, hc
<1>3. ASSUME NEW g \in Hosts, acc.handles[g] = c PROVE FALSE
  <2>1. HandleOf(acc, sc, g, c)
    BY <1>2, <1>3, Zero DEF Reached, HandleOK
  <2>2. CASE c = client_handles[g]
    <3>1. stage[c] = "host"
      BY <2>2, <1>2, Zero DEF FactoryInv, HandleInv
    <3> QED
      BY <3>1, <1>2 DEF Free
  <2>3. CASE c \in Free \ acc.free
    BY <2>3, <1>2
  <2> QED
    BY <2>1, <2>2, <2>3 DEF HandleOf
<1>4. /\ CacheGrows(cs) /\ Cardinality(Unbuilt(cs)) >= n - 1
      /\ acc.cache.alive \subseteq cs.alive
      /\ \A j \in StateIds : acc.cache.key[j] # None => cs.key[j] = acc.cache.key[j]
      /\ cs.id # 0 => /\ BuiltWith(cs.key, cs.id, b) /\ cs.key[cs.id].config = CachedConfig(hc, b, i)
                      /\ cs.id \in StateIds /\ cs.id \in cs.alive
  BY <1>1, LoopLooksUp
<1>5. new = IF cs.id = 0 THEN [acc EXCEPT !.cache = cs, !.errors = TRUE]
            ELSE [acc EXCEPT !.cache = cs, !.handles[h] = c, !.free = @ \ {c}, !.cell[c] = hc,
                             !.index[c] = i, !.state[c] = cs.id, !.failed[c] = FALSE]
  BY DEF NewHandle, c, hc
<1> HIDE DEF cs
<1>6. cs \in CacheType
  BY <1>4 DEF CacheGrows, CacheOK
<1>7. CASE cs.id = 0
  <2>1. /\ new \in AccType /\ new.handles = acc.handles /\ new.state_builder = b
        /\ new.cache = cs /\ new.free = acc.free /\ new.cell = acc.cell /\ new.index = acc.index
        /\ new.state = acc.state /\ new.failed = acc.failed
    BY <1>1, <1>5, <1>6, <1>7, ZenonT(40) DEF AccType
  <2>2. Reached(new, sc, b)
    BY <2>1, <1>4, NoMoreHandle
  <2> QED
    BY <2>1, <2>2, <1>4
<1>8. CASE cs.id # 0
  <2> DEFINE hs == [acc.handles EXCEPT ![h] = c]
             cells == [acc.cell EXCEPT ![c] = hc]
             fails == [acc.failed EXCEPT ![c] = FALSE]
             states == [acc.state EXCEPT ![c] = cs.id]
             indexes == [acc.index EXCEPT ![c] = i]
             rest == acc.free \ {c}
  <2>3. /\ acc.handles \in [Hosts -> Clients \cup {0}] /\ acc.state \in [Clients -> StateIds \cup {0}]
        /\ acc.cell \in [Clients -> ServiceConfigs \cup HostConfigs \cup {None}]
        /\ acc.index \in [Clients -> 0 .. Cardinality(Hosts)]
        /\ acc.failed \in [Clients -> BOOLEAN] /\ acc.free \in SUBSET Clients
    BY <1>1 DEF AccType
  <2>4. new = [acc EXCEPT !.handles = hs, !.cache = cs, !.cell = cells, !.failed = fails, !.state = states,
                          !.index = indexes, !.free = rest]
    BY <1>1, <1>5, <1>8, ZenonT(40) DEF AccType
  <2>5. /\ hs \in [Hosts -> Clients \cup {0}] /\ \A g \in Hosts \ {h} : hs[g] = acc.handles[g]
        /\ cells \in [Clients -> ServiceConfigs \cup HostConfigs \cup {None}] /\ cells[c] = hc
        /\ \A d \in Clients \ {c} : cells[d] = acc.cell[d] /\ states[d] = acc.state[d] /\ indexes[d] = acc.index[d]
        /\ states \in [Clients -> StateIds \cup {0}] /\ states[c] = cs.id
        /\ indexes \in [Clients -> 0 .. Cardinality(Hosts)] /\ indexes[c] = i
        /\ rest \in SUBSET Clients /\ rest \subseteq acc.free /\ c \notin rest
    BY <2>3, <1>1, <1>2, <1>4, <1>8
  <2>6. fails \in [Clients -> BOOLEAN] /\ \A d \in Clients \ {c} : fails[d] = acc.failed[d]
    BY <2>3, <1>2, Zenon
  <2>8. hs = [acc.handles EXCEPT ![h] = c] /\ acc.free \ {c} \subseteq rest
    OBVIOUS
  <2> HIDE DEF hs, cells, fails, states, indexes, rest
  <2>9. /\ new \in AccType /\ new.handles = hs /\ new.state_builder = b
        /\ new.cache = cs /\ new.free = rest /\ new.cell = cells /\ new.index = indexes
        /\ new.state = states /\ new.failed = fails
    BY <2>4, <2>5, <2>6, <1>1, <1>6, ZenonT(40) DEF AccType
  <2>10. HandleOf(new, sc, h, c)
    BY <2>5, <2>9, <1>2, <1>4, <1>8 DEF HandleOf, hc
  <2>11. \A d \in Clients \ {c} : /\ new.cell[d] = acc.cell[d] /\ new.index[d] = acc.index[d]
                                  /\ new.state[d] = acc.state[d] /\ new.failed[d] = acc.failed[d]
    BY <2>5, <2>6, <2>9
  <2>12. Reached(new, sc, b)
    BY <2>5, <2>8, <2>9, <2>10, <2>11, <1>2, <1>3, <1>4, OneMoreHandle
  <2> QED
    BY <2>5, <2>8, <2>9, <2>12, <1>4
<1> QED
  BY <1>7, <1>8

(* The hosts of a configuration: each once, and no more than there are. *)
LEMMA Uris ==
    ASSUME NEW sc \in ServiceConfigs
    PROVE  /\ sc.uris \in Seq(Hosts) /\ Len(sc.uris) \in Nat /\ DOMAIN sc.uris = 1 .. Len(sc.uris)
           /\ \A m, n \in DOMAIN sc.uris : sc.uris[m] = sc.uris[n] => m = n
           /\ \A n \in DOMAIN sc.uris : sc.uris[n] \in Hosts /\ n \in 1 .. Cardinality(Hosts)
<1>1. PICK c \in Configs : sc = merged_service(c)
  BY DEF ServiceConfigs
<1>2. c.uris \in Seq(Hosts) /\ \A m, n \in DOMAIN c.uris : c.uris[m] = c.uris[n] => m = n
  BY FactoryAssumption DEF IsInjective
<1>3. sc.uris = IF ~c.present THEN <<>> ELSE c.uris
  BY <1>1 DEF merged_service
<1> DEFINE us == sc.uris
<1>4. us \in Seq(Hosts) /\ \A m, n \in DOMAIN us : us[m] = us[n] => m = n
  BY <1>2, <1>3
<1> HIDE DEF us
<1>5. Len(us) \in Nat /\ DOMAIN us = 1 .. Len(us) /\ \A n \in DOMAIN us : us[n] \in Hosts
  BY <1>4, LenProperties
<1>6. us \in Injection(1 .. Len(us), Hosts)
  <2>1. us \in [1 .. Len(us) -> Hosts]
    BY <1>4, <1>5
  <2> QED
    BY <2>1, <1>4, <1>5 DEF Injection, IsInjective
<1>7. Cardinality(1 .. Len(us)) <= Cardinality(Hosts) /\ Cardinality(Hosts) \in Nat
  BY <1>6, FactoryAssumption, FS_Injection, FS_CardinalityType
<1>8. Cardinality(1 .. Len(us)) = Len(us)
  <2>1. 1 \in Int /\ Len(us) \in Int
    BY <1>5
  <2>2. Cardinality(1 .. Len(us)) = IF 1 > Len(us) THEN 0 ELSE Len(us) - 1 + 1
    BY ONLY <2>1, FS_Interval
  <2> QED
    BY <2>2, <1>5
<1>9. \A n \in DOMAIN us : n \in 1 .. Cardinality(Hosts)
  BY <1>5, <1>7, <1>8
<1> QED
  BY <1>4, <1>5, <1>9 DEF us

(* The new hosts still to come: one less after each of them. *)
LEMMA FewerNewHosts ==
    ASSUME NEW sc \in ServiceConfigs, NEW i \in DOMAIN sc.uris
    PROVE  /\ Cardinality(NewHosts(sc, i)) \in Nat /\ Cardinality(NewHosts(sc, i - 1)) \in Nat
           /\ client_handles[sc.uris[i]] # 0 => NewHosts(sc, i) = NewHosts(sc, i - 1)
           /\ client_handles[sc.uris[i]] = 0 =>
                 Cardinality(NewHosts(sc, i)) = Cardinality(NewHosts(sc, i - 1)) - 1
<1>1. Len(sc.uris) \in Nat /\ DOMAIN sc.uris = 1 .. Len(sc.uris) /\ i \in 1 .. Len(sc.uris)
  BY Uris
<1>2. ASSUME NEW n \in {i, i - 1} PROVE IsFiniteSet(NewHosts(sc, n)) /\ Cardinality(NewHosts(sc, n)) \in Nat
  <2>1. NewHosts(sc, n) \in SUBSET (1 .. Len(sc.uris)) /\ 1 \in Int /\ Len(sc.uris) \in Int
    BY <1>1 DEF NewHosts
  <2>2. IsFiniteSet(1 .. Len(sc.uris))
    BY <2>1, FS_Interval
  <2> QED
    BY <2>1, <2>2, FS_Subset, FS_CardinalityType
<1>3. client_handles[sc.uris[i]] # 0 => NewHosts(sc, i) = NewHosts(sc, i - 1)
  BY <1>1 DEF NewHosts
<1>4. ASSUME client_handles[sc.uris[i]] = 0
      PROVE  Cardinality(NewHosts(sc, i)) = Cardinality(NewHosts(sc, i - 1)) - 1
  <2>1. NewHosts(sc, i) = NewHosts(sc, i - 1) \ {i} /\ i \in NewHosts(sc, i - 1)
    BY <1>1, <1>4 DEF NewHosts
  <2> QED
    BY <2>1, <1>2, FS_RemoveElement, ZenonT(40)
<1> QED
  BY <1>2, <1>3, <1>4

(* One turn of the loop. *)
LEMMA LoopStep ==
    ASSUME FactoryInv, NEW sc \in ServiceConfigs, NEW b \in StateBuilders,
           \A h \in Hosts : client_handles[h] # 0 => b = collection.state_builder,
           NEW i \in DOMAIN sc.uris, NEW acc, LoopInv(acc, sc, b, i - 1), NEW made \in BOOLEAN,
           NEW new, new = Visit(acc, sc, i, made)
    PROVE  LoopInv(new, sc, b, i)
<1> DEFINE h == sc.uris[i]
           left == Len(sc.uris) - (i - 1)
<1>1. /\ Len(sc.uris) \in Nat /\ DOMAIN sc.uris = 1 .. Len(sc.uris) /\ i \in 1 .. Cardinality(Hosts) /\ h \in Hosts
      /\ \A m, n \in DOMAIN sc.uris : sc.uris[m] = sc.uris[n] => m = n
  BY Uris
<1>2. left \in Nat \ {0} /\ i \in Nat /\ Len(sc.uris) - i = left - 1
  BY <1>1
<1>3. /\ Reached(acc, sc, b) /\ Cardinality(Unbuilt(acc.cache)) >= left
      /\ Cardinality(acc.free) >= Cardinality(NewHosts(sc, i - 1))
      /\ \A g \in Hosts : acc.handles[g] # 0 => \E n \in DOMAIN sc.uris : n <= i - 1 /\ sc.uris[n] = g
  BY DEF LoopInv
<1>4. acc.handles[h] = 0
  <2>1. ASSUME NEW n \in DOMAIN sc.uris, n <= i - 1, sc.uris[n] = h PROVE FALSE
    <3>1. n = i
      BY <2>1, <1>1
    <3> QED
      BY <3>1, <2>1, <1>2
  <2> QED
    BY <2>1, <1>1, <1>3
<1>5. IsFiniteSet(acc.free) /\ Cardinality(acc.free) \in Nat
  <2>1. acc.free \in SUBSET Clients
    BY <1>3 DEF Reached, AccType
  <2> QED
    BY <2>1, FactoryAssumption, FS_Subset, FS_CardinalityType
<1> HIDE DEF left
<1>6. /\ Reached(new, sc, b) /\ Cardinality(Unbuilt(new.cache)) >= left - 1
      /\ Cardinality(new.free) >= Cardinality(NewHosts(sc, i))
      /\ \A g \in Hosts \ {h} : new.handles[g] = acc.handles[g]
  <2>1. CASE client_handles[h] # 0
    <3>1. new = RefreshHandle(acc, sc, h, made) /\ b = collection.state_builder
      BY <2>1, <1>1 DEF Visit
    <3> HIDE DEF h
    <3>2. /\ Reached(new, sc, b) /\ Cardinality(Unbuilt(new.cache)) >= left - 1 /\ new.free = acc.free
          /\ \A g \in Hosts \ {h} : new.handles[g] = acc.handles[g]
      BY <3>1, <2>1, <1>1, <1>2, <1>3, <1>4, HandleRefreshed
    <3>3. NewHosts(sc, i) = NewHosts(sc, i - 1)
      BY <2>1, FewerNewHosts DEF h
    <3> QED
      BY <3>2, <3>3, <1>3
  <2>2. CASE client_handles[h] = 0
    <3>1. new = NewHandle(acc, sc, h, i, made)
      BY <2>2 DEF Visit
    <3>2. /\ Cardinality(NewHosts(sc, i)) = Cardinality(NewHosts(sc, i - 1)) - 1
          /\ Cardinality(NewHosts(sc, i)) \in Nat /\ Cardinality(NewHosts(sc, i - 1)) \in Nat
      BY <2>2, FewerNewHosts
    <3>3. acc.free # {}
      BY <3>2, <1>3, <1>5, FS_EmptySet
    <3> HIDE DEF h
    <3>4. /\ Reached(new, sc, b) /\ Cardinality(Unbuilt(new.cache)) >= left - 1
          /\ \E x : acc.free \ {x} \subseteq new.free
          /\ \A g \in Hosts \ {h} : new.handles[g] = acc.handles[g]
      <4>1. /\ FactoryInv /\ sc \in ServiceConfigs /\ b \in StateBuilders /\ Reached(acc, sc, b) /\ h \in Hosts
            /\ acc.handles[h] = 0 /\ i \in 1 .. Cardinality(Hosts) /\ made \in BOOLEAN /\ left \in Nat \ {0}
            /\ Cardinality(Unbuilt(acc.cache)) >= left
        BY <1>1, <1>2, <1>3, <1>4
      <4> QED
        BY ONLY <3>1, <3>3, <2>2, <4>1, HandleMade
    <3>5. PICK x : acc.free \ {x} \subseteq new.free
      BY <3>4
    <3>6. Cardinality(acc.free \ {x}) >= Cardinality(acc.free) - 1 /\ IsFiniteSet(acc.free \ {x})
      BY <1>5, FS_RemoveElement
    <3>7. /\ IsFiniteSet(new.free) /\ Cardinality(new.free) \in Nat /\ Cardinality(acc.free \ {x}) \in Nat
          /\ Cardinality(acc.free \ {x}) <= Cardinality(new.free)
      <4>1. new.free \in SUBSET Clients
        BY <3>4 DEF Reached, AccType
      <4>2. IsFiniteSet(new.free)
        BY <4>1, FactoryAssumption, FS_Subset
      <4> QED
        BY <4>2, <3>5, <3>6, FS_Subset, FS_CardinalityType
    <3>8. Cardinality(new.free) >= Cardinality(NewHosts(sc, i))
      BY <3>2, <3>6, <3>7, <1>3, <1>5
    <3> QED
      BY <3>4, <3>8
  <2> QED
    BY <2>1, <2>2
<1>7. ASSUME NEW g \in Hosts, new.handles[g] # 0
      PROVE  \E n \in DOMAIN sc.uris : n <= i /\ sc.uris[n] = g
  <2>1. CASE g = h
    BY <2>1, <1>2
  <2>2. CASE g # h
    <3>1. PICK n \in DOMAIN sc.uris : n <= i - 1 /\ sc.uris[n] = g
      BY <2>2, <1>3, <1>6, <1>7
    <3>2. n <= i
      BY <3>1, <1>1, <1>2
    <3> QED
      BY <3>1, <3>2
  <2> QED
    BY <2>1, <2>2
<1> QED
  BY <1>2, <1>6, <1>7 DEF LoopInv

(* The whole callback. *)
LEMMA LoopDone ==
    ASSUME FactoryInv, NEW sc \in ServiceConfigs, NEW b \in StateBuilders,
           \A h \in Hosts : client_handles[h] # 0 => b = collection.state_builder,
           Enough(sc), NEW made \in Outcomes(sc)
    PROVE  Reached(Reloaded(sc, made, b), sc, b)
<1> DEFINE n == Len(sc.uris)
<1>1. n \in Nat /\ DOMAIN sc.uris = 1 .. n
  BY Uris
<1>2. PICK g : /\ g[0] = Start(b) /\ Reloaded(sc, made, b) = g[n]
               /\ \A i \in 1 .. n : g[i] = Visit(g[i - 1], sc, i, made[i])
  BY <1>1, ReloadedIsLast
<1>3. \A i \in 1 .. n : made[i] \in BOOLEAN
  BY OutcomesAreBoolean DEF Outcomes
<1> HIDE DEF n
<1>4. LoopInv(g[0], sc, b, 0)
  <2>1. Reached(g[0], sc, b)
    BY <1>2, StartReached
  <2>2. g[0].cache = TheCache /\ g[0].handles = NoHosts /\ g[0].free = Free
    BY <1>2 DEF Start
  <2>3. Unbuilt(g[0].cache) = {i \in StateIds : key[i] = None}
    BY <2>2, CacheFields DEF Unbuilt
  <2>4. NewHosts(sc, 0) = {m \in DOMAIN sc.uris : client_handles[sc.uris[m]] = 0}
    BY <1>1 DEF NewHosts
  <2>5. Cardinality(Unbuilt(g[0].cache)) >= n /\ Cardinality(g[0].free) >= Cardinality(NewHosts(sc, 0))
    BY <2>2, <2>3, <2>4 DEF Enough, Room, n
  <2>6. \A h \in Hosts : g[0].handles[h] = 0
    BY <2>2 DEF NoHosts
  <2>7. n - 0 = n
    BY <1>1
  <2> QED
    BY <2>1, <2>5, <2>6, <2>7 DEF LoopInv, n
<1> DEFINE P == {j \in Nat : j <= n => LoopInv(g[j], sc, b, j)}
<1>5. 0 \in P
  BY <1>4
<1>6. ASSUME NEW j \in P PROVE j + 1 \in P
  <2>1. SUFFICES ASSUME j + 1 <= n PROVE LoopInv(g[j + 1], sc, b, j + 1)
    OBVIOUS
  <2>2. j \in Nat /\ j + 1 \in 1 .. n /\ (j + 1) - 1 = j /\ j <= n
    BY <2>1, <1>1
  <2>3. LoopInv(g[j], sc, b, j)
    BY <2>2
  <2> HIDE DEF P
  <2>4. g[j + 1] = Visit(g[j], sc, j + 1, made[j + 1]) /\ made[j + 1] \in BOOLEAN /\ j + 1 \in DOMAIN sc.uris
    BY <2>2, <1>1, <1>2, <1>3
  <2> DEFINE k == j + 1
             new == g[j + 1]
             acc == g[j]
             m == made[j + 1]
  <2>5. k \in DOMAIN sc.uris /\ LoopInv(acc, sc, b, k - 1) /\ m \in BOOLEAN /\ new = Visit(acc, sc, k, m)
    BY <2>2, <2>3, <2>4
  <2> HIDE DEF k, new, acc, m
  <2>6. LoopInv(new, sc, b, k)
    BY <2>5, LoopStep
  <2> QED
    BY <2>6 DEF new, k
<1>7. P = Nat
  <2> HIDE DEF P
  <2>1. P \subseteq Nat
    BY DEF P
  <2> QED
    BY <1>5, <1>6, <2>1, Induction
<1>8. LoopInv(g[n], sc, b, n)
  <2>1. n \in P
    BY <1>1, <1>7
  <2> QED
    BY <2>1, <1>1
<1> QED
  BY <1>2, <1>8 DEF LoopInv

(* What a callback of the collection leaves behind. *)
Installed(sc, b, handles, pub) ==
    /\ CacheOK(TheCache)' /\ CacheTyped' /\ client_handles' = handles /\ published' = pub
    /\ stage' \in [Clients -> {"free", "built", "live", "host"}]
    /\ cell' \in [Clients -> ServiceConfigs \cup HostConfigs \cup {None}]
    /\ index' \in [Clients -> 0 .. Cardinality(Hosts)] /\ state_builder' = state_builder
    /\ state' \in [Clients -> StateIds \cup {0}] /\ failed' \in [Clients -> BOOLEAN]
    /\ handles \in [Hosts -> Clients \cup {0}] /\ pub \in [Hosts -> Clients \cup {0}]
    /\ \A c \in Clients : IF stage[c] \in {"built", "live"}
                          THEN SameClient(c) /\ key'[state[c]] = key[state[c]]
                          ELSE stage'[c] \in {"free", "host"}
    /\ \A c \in Clients : stage'[c] = "free" => state'[c] = 0
    /\ \A c \in Clients : stage'[c] = "host" => BuiltWith(key', state'[c], b)
    /\ \A h \in Hosts : pub[h] # 0 => stage'[pub[h]] = "host"
    /\ handles = NoHosts /\ pub = NoHosts => \A c \in Clients : stage'[c] # "host"
    /\ \A h \in Hosts : handles[h] # 0 =>
          /\ stage'[handles[h]] = "host" /\ cell'[handles[h]] = HostConfig(sc, h)
          /\ ~failed'[handles[h]] => key'[state'[handles[h]]].config =
                                         CachedConfig(HostConfig(sc, h), b, index'[handles[h]])
          /\ \A g \in Hosts : handles[g] = handles[h] => g = h

(* Install *)
LEMMA Installs ==
    ASSUME FactoryInv, NEW sc, NEW b \in StateBuilders, NEW acc, Reached(acc, sc, b),
           NEW handles, NEW pub, handles \in {acc.handles, NoHosts}, pub \in [Hosts -> Clients \cup {0}],
           \A h \in Hosts : pub[h] # 0 =>
                \/ \E g \in Hosts : acc.handles[g] = pub[h]
                \/ stage[pub[h]] = "host" /\ BuiltWith(key, state[pub[h]], b),
           Install(acc, handles, pub), using' = using
    PROVE  Installed(sc, b, handles, pub)
<1> DEFINE used == {handles[h] : h \in Hosts} \cup {pub[h] : h \in Hosts}
           gone(c) == c \notin used /\ stage[c] \notin {"built", "live"}
<1>1. /\ acc \in AccType /\ acc.state_builder = b /\ CacheGrows(acc.cache)
      /\ acc.handles \in [Hosts -> Clients \cup {0}]
      /\ acc.cell \in [Clients -> ServiceConfigs \cup HostConfigs \cup {None}]
      /\ acc.index \in [Clients -> 0 .. Cardinality(Hosts)] /\ acc.state \in [Clients -> StateIds \cup {0}]
      /\ acc.failed \in [Clients -> BOOLEAN]
  BY DEF Reached, AccType
<1>2. /\ StoreCache(acc.cache) /\ client_handles' = handles /\ published' = pub /\ state_builder' = state_builder
      /\ stage' = [c \in Clients |-> IF gone(c) THEN "free" ELSE IF c \in used THEN "host" ELSE stage[c]]
      /\ cell' = [c \in Clients |-> IF gone(c) THEN None ELSE acc.cell[c]]
      /\ index' = [c \in Clients |-> IF gone(c) THEN 0 ELSE acc.index[c]]
      /\ state' = [c \in Clients |-> IF gone(c) THEN 0 ELSE acc.state[c]]
      /\ failed' = [c \in Clients |-> ~gone(c) /\ acc.failed[c]]
  BY DEF Install
<1>3. /\ \A h \in Hosts : handles[h] \in used /\ pub[h] \in used
      /\ \A c \in used : \E h \in Hosts : handles[h] = c \/ pub[h] = c
  OBVIOUS
<1> HIDE DEF used
<1>4. ASSUME NEW h \in Hosts, acc.handles[h] # 0
      PROVE  /\ acc.handles[h] \in Clients /\ stage[acc.handles[h]] \in {"host", "free"}
             /\ HandleOf(acc, sc, h, acc.handles[h])
  <2>1. HandleOf(acc, sc, h, acc.handles[h]) /\ acc.handles[h] \in Clients
    BY <1>1, <1>4 DEF Reached, HandleOK
  <2>2. acc.handles[h] = client_handles[h] \/ acc.handles[h] \in Free
    BY <2>1 DEF HandleOf
  <2>3. acc.handles[h] = client_handles[h] => stage[acc.handles[h]] = "host"
    BY <1>4 DEF FactoryInv, HandleInv
  <2> QED
    BY <2>1, <2>2, <2>3 DEF Free
<1>5. /\ handles \in [Hosts -> Clients \cup {0}]
      /\ \A h \in Hosts : handles[h] # 0 => handles[h] = acc.handles[h]
      /\ (\E h \in Hosts : handles[h] # 0) => handles = acc.handles
  BY <1>1 DEF NoHosts
<1>6. ASSUME NEW c \in Clients, c \in used
      PROVE  \/ \E g \in Hosts : acc.handles[g] = c
             \/ stage[c] = "host" /\ BuiltWith(key, state[c], b)
  <2>1. PICK h \in Hosts : handles[h] = c \/ pub[h] = c
    BY <1>3, <1>6
  <2>2. c # 0
    BY Zero
  <2> QED
    BY <2>1, <2>2, <1>5
<1>7. \A c \in Clients : c \in used => stage[c] \in {"host", "free"}
  BY <1>4, <1>6, Zero
<1>8. key' = acc.cache.key
  BY <1>2 DEF StoreCache
<1>9. ASSUME NEW c \in Clients
      PROVE  \/ /\ gone(c) /\ stage'[c] = "free" /\ cell'[c] = None /\ index'[c] = 0 /\ state'[c] = 0
                /\ c \notin used /\ stage[c] \notin {"built", "live"}
             \/ /\ ~gone(c) /\ cell'[c] = acc.cell[c] /\ index'[c] = acc.index[c] /\ state'[c] = acc.state[c]
                /\ c \in used /\ stage'[c] = "host" /\ stage[c] \notin {"built", "live"}
             \/ /\ ~gone(c) /\ cell'[c] = acc.cell[c] /\ index'[c] = acc.index[c] /\ state'[c] = acc.state[c]
                /\ c \notin used /\ stage'[c] = stage[c] /\ stage[c] \in {"built", "live"}
  BY <1>2, <1>7
<1>10. /\ failed' \in [Clients -> BOOLEAN]
       /\ \A c \in Clients : ~gone(c) => (failed'[c] <=> acc.failed[c]) /\ failed'[c] = acc.failed[c]
  <2>1. \A c \in Clients : acc.failed[c] \in BOOLEAN
    BY <1>1
  <2> QED
    BY <1>2, <2>1, Zenon
<1> HIDE DEF gone
<1>11. ASSUME NEW c \in Clients, \A h \in Hosts : acc.handles[h] # c
       PROVE  acc.state[c] = state[c] /\ acc.cell[c] = cell[c] /\ acc.index[c] = index[c] /\ acc.failed[c] = failed[c]
  BY <1>11 DEF Reached, Untouched
<1>12. ASSUME NEW c \in Clients PROVE acc.state[c] \in acc.cache.alive \cup {0}
  <2>1. CASE \E h \in Hosts : acc.handles[h] = c
    BY <2>1, <1>4, Zero DEF HandleOf
  <2>2. CASE \A h \in Hosts : acc.handles[h] # c
    BY <2>2, <1>1, <1>11 DEF Alive, CacheGrows
  <2> QED
    BY <2>1, <2>2
<1>13. CacheOK(TheCache)' /\ CacheTyped'
  <2>1. \A c \in Clients : state'[c] \in acc.cache.alive \cup {0}
    BY <1>9, <1>12
  <2>2. \A q \in Requests : using'[q] \in acc.cache.alive \cup {0}
    BY <1>1 DEF Alive, CacheGrows
  <2>3. (Alive \ {0})' \subseteq acc.cache.alive
    BY <2>1, <2>2 DEF Alive
  <2> QED
    BY <2>3, <1>1, <1>2, Stored DEF CacheGrows
<1>14. /\ stage' \in [Clients -> {"free", "built", "live", "host"}]
       /\ cell' \in [Clients -> ServiceConfigs \cup HostConfigs \cup {None}]
       /\ index' \in [Clients -> 0 .. Cardinality(Hosts)] /\ state' \in [Clients -> StateIds \cup {0}]
  <2>1. stage \in [Clients -> {"free", "built", "live", "host"}] /\ 0 \in 0 .. Cardinality(Hosts)
    BY Zero DEF FactoryInv, TypeOK
  <2> QED
    BY <2>1, <1>1, <1>2
<1>15. ASSUME NEW c \in Clients, stage[c] \in {"built", "live"}
       PROVE  SameClient(c) /\ key'[state[c]] = key[state[c]]
  <2>1. \A h \in Hosts : acc.handles[h] # c
    BY <1>4, <1>15, Zero
  <2>2. state[c] \in StateIds /\ key[state[c]] # None
    BY <1>15, StatesInUse
  <2>3. key'[state[c]] = key[state[c]]
    BY <2>2, <1>1, <1>8 DEF CacheGrows
  <2> QED
    BY <2>1, <2>3, <1>2, <1>9, <1>10, <1>11, <1>15 DEF SameClient
<1>16. ASSUME NEW c \in Clients, stage'[c] = "host" PROVE BuiltWith(key', state'[c], b)
  <2>1. c \in used /\ state'[c] = acc.state[c]
    BY <1>9, <1>16
  <2>2. CASE \E g \in Hosts : acc.handles[g] = c
    BY <2>1, <2>2, <1>1, <1>4, <1>8, Zero DEF HandleOf
  <2>3. CASE (\A g \in Hosts : acc.handles[g] # c) /\ BuiltWith(key, state[c], b)
    <3>1. acc.state[c] = state[c] /\ key'[state[c]] = key[state[c]]
      BY <2>3, <1>1, <1>8, <1>11 DEF CacheGrows, BuiltWith
    <3> QED
      BY <3>1, <2>1, <2>3 DEF BuiltWith
  <2> QED
    BY <2>1, <2>2, <2>3, <1>6
<1>17. \A h \in Hosts : pub[h] # 0 => stage'[pub[h]] = "host"
  <2>1. \A h \in Hosts : pub[h] # 0 => pub[h] \in Clients
    OBVIOUS
  <2> QED
    BY <2>1, <1>3, <1>9
<1>18. ASSUME handles = NoHosts, pub = NoHosts, NEW c \in Clients PROVE stage'[c] # "host"
  <2>1. c \notin used
    BY <1>3, <1>18, Zero DEF NoHosts
  <2> QED
    BY <2>1, <1>9
<1>19. ASSUME NEW h \in Hosts, handles[h] # 0
       PROVE  /\ stage'[handles[h]] = "host" /\ cell'[handles[h]] = HostConfig(sc, h)
              /\ ~failed'[handles[h]] => key'[state'[handles[h]]].config =
                                             CachedConfig(HostConfig(sc, h), b, index'[handles[h]])
              /\ \A g \in Hosts : handles[g] = handles[h] => g = h
  <2> DEFINE c == handles[h]
  <2>1. c \in Clients /\ c \in used /\ c = acc.handles[h] /\ acc.handles[h] # 0 /\ handles = acc.handles
    BY <1>3, <1>5, <1>19
  <2>2. HandleOf(acc, sc, h, c) /\ \A g \in Hosts : acc.handles[g] = c => g = h
    BY <2>1 DEF Reached, HandleOK
  <2>3. /\ ~gone(c) /\ stage'[c] = "host" /\ cell'[c] = acc.cell[c] /\ index'[c] = acc.index[c]
        /\ state'[c] = acc.state[c] /\ (failed'[c] <=> acc.failed[c])
    BY <2>1, <1>9, <1>10
  <2> HIDE DEF c
  <2>4. /\ cell'[c] = HostConfig(sc, h)
        /\ ~failed'[c] => key'[state'[c]].config = CachedConfig(HostConfig(sc, h), b, index'[c])
    BY <2>2, <2>3, <1>1, <1>8 DEF HandleOf
  <2>5. \A g \in Hosts : handles[g] = c => g = h
    BY <2>1, <2>2
  <2> QED
    BY <2>3, <2>4, <2>5 DEF c
<1>20. \A c \in Clients : IF stage[c] \in {"built", "live"}
                         THEN SameClient(c) /\ key'[state[c]] = key[state[c]]
                         ELSE stage'[c] \in {"free", "host"}
  BY <1>9, <1>15
<1>21. \A c \in Clients : stage'[c] = "free" => state'[c] = 0
  <2>1. ASSUME NEW c \in Clients, stage'[c] = "free" PROVE state'[c] = 0
    BY <2>1, <1>9
  <2> QED
    BY <2>1
<1> QED
  BY <1>2, <1>5, <1>10, <1>13, <1>14, <1>16, <1>17, <1>18, <1>19, <1>20, <1>21 DEF Installed

CollectionType ==
    [exists : BOOLEAN, cell : ServiceConfigs \cup {None}, state_builder : StateBuilders, failed : BOOLEAN]

(* What is installed, and the collection that goes with it. *)
LEMMA AfterInstall ==
    ASSUME FactoryInv, NEW sc, NEW b, NEW handles, NEW pub, Installed(sc, b, handles, pub),
           UNCHANGED <<config, factory, using>>, todo' = todo \/ todo' = todo \ {0},
           collection' \in CollectionType,
           (handles = NoHosts /\ pub = NoHosts) \/ (collection'.cell = sc /\ collection'.state_builder = b),
           collection'.exists /\ 0 \notin todo' => collection'.cell = ServiceConfig,
           ~collection'.exists => 0 \notin todo' /\ handles = NoHosts /\ pub = NoHosts
    PROVE  FactoryInv'
<1>1. ServiceConfig' = ServiceConfig /\ \A c \in Clients : c \in todo' <=> c \in todo
  BY Zero DEF ServiceConfig
<1>2. TypeOK'
  <2>1. todo' \subseteq Clients \cup {0}
    BY DEF FactoryInv, TypeOK
  <2> QED
    BY <2>1 DEF FactoryInv, TypeOK, Installed, CacheTyped, CollectionType
<1>3. ASSUME NEW c \in Clients
      PROVE  \/ /\ stage[c] \in {"built", "live"} /\ stage'[c] = stage[c] /\ SameClient(c)
                /\ key'[state[c]] = key[state[c]]
             \/ stage[c] \notin {"built", "live"} /\ stage'[c] \in {"free", "host"}
  BY DEF Installed, SameClient
<1>4. ClientInv'
  <2>1. ASSUME NEW c \in Clients, stage'[c] \in {"built", "live"}
        PROVE  BuiltWith(key', state'[c], state_builder'[c])
    <3>1. BuiltWith(key, state[c], state_builder[c]) /\ SameClient(c) /\ key'[state[c]] = key[state[c]]
      BY <2>1, <1>3 DEF FactoryInv, ClientInv
    <3> QED
      BY <3>1 DEF BuiltWith, SameClient
  <2>2. ASSUME NEW c \in Clients, stage'[c] = "host"
        PROVE  BuiltWith(key', state'[c], collection'.state_builder)
    <3>1. BuiltWith(key', state'[c], b)
      BY <2>2 DEF Installed
    <3>2. ~(handles = NoHosts /\ pub = NoHosts)
      BY <2>2 DEF Installed
    <3> QED
      BY <3>1, <3>2
  <2>3. \A c \in Clients : stage'[c] = "free" => state'[c] = 0
    BY DEF Installed
  <2> QED
    BY <2>1, <2>2, <2>3 DEF ClientInv
<1>5. LiveInv'
  <2>1. ASSUME NEW c \in Clients, stage'[c] = "live"
        PROVE  /\ ~failed'[c] => key'[state'[c]].config = CachedConfig(cell'[c], state_builder'[c], 0)
               /\ c \notin todo' => cell'[c] = ServiceConfig'
    <3>1. stage[c] = "live" /\ SameClient(c) /\ key'[state[c]] = key[state[c]]
      BY <2>1, <1>3
    <3> QED
      BY <3>1, <1>1 DEF FactoryInv, LiveInv, SameClient
  <2>2. ASSUME NEW c \in Clients, c \in todo' PROVE stage'[c] = "live"
    <3>1. stage[c] = "live"
      BY <2>2, <1>1, Zero DEF FactoryInv, LiveInv
    <3> QED
      BY <3>1, <1>3
  <2>3. todo' \subseteq Clients \cup {0}
    BY <1>2 DEF TypeOK
  <2> QED
    BY <2>1, <2>2, <2>3 DEF LiveInv
<1>6. HandleInv'
  <2>1. client_handles' = handles
    BY DEF Installed
  <2>2. ASSUME NEW h \in Hosts, handles[h] # 0
        PROVE  LET c == handles[h] IN
               /\ stage'[c] = "host" /\ cell'[c] = HostConfig(collection'.cell, h)
               /\ ~failed'[c] => key'[state'[c]].config = CachedConfig(cell'[c], collection'.state_builder, index'[c])
               /\ \A g \in Hosts : handles[g] = c => g = h
    <3>1. collection'.cell = sc /\ collection'.state_builder = b
      BY <2>2 DEF NoHosts
    <3> QED
      BY <2>2, <3>1 DEF Installed
  <2> QED
    BY <2>1, <2>2 DEF HandleInv
<1>7. CollectionInv'
  <2>1. client_handles' = handles /\ published' = pub /\ NoHosts' = NoHosts
    BY DEF Installed, NoHosts
  <2>2. \A h \in Hosts : pub[h] # 0 => stage'[pub[h]] = "host"
    BY DEF Installed
  <2>3. handles = NoHosts /\ pub = NoHosts => \A c \in Clients : stage'[c] # "host"
    BY DEF Installed
  <2> QED
    BY <2>1, <2>2, <2>3, <1>1 DEF CollectionInv
<1>8. CacheOK(TheCache)'
  BY DEF Installed
<1> QED
  BY <1>2, <1>4, <1>5, <1>6, <1>7, <1>8 DEF FactoryInv

(* create_collection *)
LEMMA StepCreate ==
    ASSUME FactoryInv, create_collection
    PROVE  FactoryInv'
<1>0. /\ ~collection.exists /\ Enough(ServiceConfig) /\ UNCHANGED <<config, factory, using>> /\ todo' = todo
      /\ ServiceConfig \in ServiceConfigs /\ factory \in StateBuilders /\ collection \in CollectionType /\ todo = {}
  BY ServiceConfigType DEF FactoryInv, TypeOK, CollectionType, create_collection, Unlocked
<1>1. client_handles = NoHosts /\ \A h \in Hosts : client_handles[h] = 0
  BY <1>0 DEF FactoryInv, CollectionInv, NoHosts
<1>2. PICK made \in Outcomes(ServiceConfig) : LET acc == Reloaded(ServiceConfig, made, factory) IN
          IF acc.errors
          THEN Install(acc, NoHosts, NoHosts) /\ UNCHANGED collection
          ELSE /\ Install(acc, acc.handles, acc.handles)
               /\ collection' = [exists |-> TRUE, cell |-> ServiceConfig, state_builder |-> factory, failed |-> FALSE]
  BY DEF create_collection
<1> DEFINE acc == Reloaded(ServiceConfig, made, factory)
<1>3. Reached(acc, ServiceConfig, factory)
  BY <1>0, <1>1, LoopDone
<1>4. /\ acc.errors => Install(acc, NoHosts, NoHosts) /\ UNCHANGED collection
      /\ ~acc.errors => /\ Install(acc, acc.handles, acc.handles)
                        /\ collection' = [exists |-> TRUE, cell |-> ServiceConfig,
                                          state_builder |-> factory, failed |-> FALSE]
  BY <1>2
<1> HIDE DEF acc
<1>5. NoHosts \in [Hosts -> Clients \cup {0}] /\ \A h \in Hosts : NoHosts[h] = 0
  BY DEF NoHosts
<1>6. acc.handles \in [Hosts -> Clients \cup {0}]
  BY <1>3 DEF Reached, AccType
<1>7. CASE acc.errors
  <2>1. Installed(ServiceConfig, factory, NoHosts, NoHosts)
    <3>1. NoHosts \in {acc.handles, NoHosts}
      OBVIOUS
    <3> QED
      BY <3>1, <1>0, <1>3, <1>4, <1>5, <1>7, Installs
  <2>2. collection' = collection /\ collection' \in CollectionType /\ ~collection'.exists /\ 0 \notin todo'
    BY <1>0, <1>4, <1>7
  <2> QED
    BY <2>1, <2>2, <1>0, AfterInstall
<1>8. CASE ~acc.errors
  <2> DEFINE hs == acc.handles
  <2>0. /\ hs \in {acc.handles, NoHosts} /\ hs \in [Hosts -> Clients \cup {0}] /\ Install(acc, hs, hs)
    BY <1>4, <1>6, <1>8
  <2>b. \A h \in Hosts : \E g \in Hosts : acc.handles[g] = hs[h]
    OBVIOUS
  <2> HIDE DEF hs
  <2>1. Installed(ServiceConfig, factory, hs, hs)
    <3>1. \A h \in Hosts : hs[h] # 0 =>
              \/ \E g \in Hosts : acc.handles[g] = hs[h]
              \/ stage[hs[h]] = "host" /\ BuiltWith(key, state[hs[h]], factory)
      BY <2>b
    <3>2. FactoryInv /\ factory \in StateBuilders /\ using' = using
      BY <1>0
    <3> QED
      BY ONLY <2>0, <3>1, <3>2, <1>3, Installs
  <2>a. collection' = [exists |-> TRUE, cell |-> ServiceConfig, state_builder |-> factory, failed |-> FALSE]
    BY <1>4, <1>8
  <2>2. /\ collection' \in CollectionType /\ collection'.exists /\ collection'.cell = ServiceConfig
        /\ collection'.state_builder = factory
    BY <1>0, <2>a DEF CollectionType
  <2> QED
    BY <2>1, <2>2, <1>0, AfterInstall
<1> QED
  BY <1>7, <1>8

(* notify_collection *)
LEMMA StepNotifyCollection ==
    ASSUME FactoryInv, notify_collection
    PROVE  FactoryInv'
<1>0. /\ collection.exists /\ Enough(ServiceConfig) /\ UNCHANGED <<config, factory, using>> /\ todo' = todo \ {0}
      /\ ServiceConfig \in ServiceConfigs /\ collection \in CollectionType /\ 0 \in todo
      /\ published \in [Hosts -> Clients \cup {0}]
  BY ServiceConfigType DEF FactoryInv, TypeOK, CollectionType, CollectionInv, notify_collection
<1>1. CASE collection.cell = ServiceConfig
  <2>1. UNCHANGED <<cacheVars, clientVars, hostVars>>
    BY <1>1 DEF notify_collection
  <2>2. /\ stage' = stage /\ cell' = cell /\ state_builder' = state_builder /\ index' = index /\ state' = state
        /\ failed' = failed /\ collection' = collection /\ client_handles' = client_handles
        /\ published' = published /\ key' = key /\ ServiceConfig' = ServiceConfig
    BY <1>0, <2>1 DEF clientVars, hostVars, cacheVars, ServiceConfig
  <2>3. Alive' = Alive
    BY <1>0, <2>2 DEF Alive
  <2>4. CacheOK(TheCache)'
    BY <2>1, <2>3, SameCache
  <2>5. TypeOK'
    BY <1>0, <2>1 DEF FactoryInv, TypeOK, cacheVars, clientVars, hostVars
  <2>6. ClientInv' /\ HandleInv'
    BY <2>2 DEF FactoryInv, ClientInv, HandleInv, BuiltWith
  <2>7. LiveInv'
    BY <1>0, <2>2, Zero DEF FactoryInv, LiveInv
  <2>8. CollectionInv'
    BY <1>0, <1>1, <2>2 DEF FactoryInv, CollectionInv
  <2> QED
    BY <2>4, <2>5, <2>6, <2>7, <2>8 DEF FactoryInv
<1>2. CASE collection.cell # ServiceConfig
  <2>1. PICK made \in Outcomes(ServiceConfig) :
            LET acc == Reloaded(ServiceConfig, made, collection.state_builder) IN
            /\ Install(acc, acc.handles, IF acc.errors THEN published ELSE Publish(published, acc.handles))
            /\ collection' = [collection EXCEPT !.cell = ServiceConfig, !.failed = acc.errors]
    BY <1>2 DEF notify_collection
  <2> DEFINE b == collection.state_builder
             acc == Reloaded(ServiceConfig, made, b)
             pub == IF acc.errors THEN published ELSE Publish(published, acc.handles)
             hs == acc.handles
  <2>2. b \in StateBuilders
    BY <1>0 DEF CollectionType
  <2>3. Reached(acc, ServiceConfig, b)
    BY <1>0, <2>2, LoopDone
  <2>4. /\ Install(acc, hs, pub) /\ hs \in {acc.handles, NoHosts}
        /\ collection' = [collection EXCEPT !.cell = ServiceConfig, !.failed = acc.errors]
    BY <2>1
  <2> HIDE DEF acc
  <2>5. pub = published \/ pub = acc.handles
    BY DEF Publish
  <2>6. acc.handles \in [Hosts -> Clients \cup {0}] /\ acc.errors \in BOOLEAN
    BY <2>3 DEF Reached, AccType
  <2> HIDE DEF pub
  <2>7. pub \in [Hosts -> Clients \cup {0}]
    BY <1>0, <2>5, <2>6
  <2>8. ASSUME NEW h \in Hosts, pub[h] # 0
        PROVE  \/ \E g \in Hosts : acc.handles[g] = pub[h]
               \/ stage[pub[h]] = "host" /\ BuiltWith(key, state[pub[h]], b)
    <3>1. CASE pub = acc.handles
      BY <3>1
    <3>2. CASE pub = published
      <4>1. pub[h] \in Clients /\ stage[pub[h]] = "host"
        BY <3>2, <2>7, <2>8 DEF FactoryInv, CollectionInv
      <4> QED
        BY <4>1 DEF FactoryInv, ClientInv
    <3> QED
      BY <3>1, <3>2, <2>5
  <2> HIDE DEF b, hs
  <2>9. Installed(ServiceConfig, b, hs, pub)
    <3>1. using' = using
      BY <1>0
    <3> QED
      BY <3>1, <2>2, <2>3, <2>4, <2>7, <2>8, Installs
  <2>10. /\ collection' \in CollectionType /\ collection'.exists /\ collection'.cell = ServiceConfig
         /\ collection'.state_builder = b
    BY <1>0, <2>4, <2>6 DEF CollectionType, b
  <2> QED
    BY <2>9, <2>10, <1>0, AfterInstall
<1> QED
  BY <1>1, <1>2

(* drop_collection *)
LEMMA StepDropCollection ==
    ASSUME FactoryInv, drop_collection
    PROVE  FactoryInv'
<1>0. /\ UNCHANGED <<config, factory, using>> /\ todo' = todo /\ todo = {} /\ collection' = NoCollection
      /\ Install(Start(NewFactory), NoHosts, NoHosts)
  BY DEF drop_collection, Unlocked
<1>1. NewFactory \in StateBuilders
  BY FactoryAssumption DEF NewFactory, StateBuilders
<1> DEFINE acc == Start(NewFactory)
<1>2. Reached(acc, ServiceConfig, NewFactory) /\ Install(acc, NoHosts, NoHosts) /\ NoHosts \in {acc.handles, NoHosts}
  BY <1>0, <1>1, StartReached
<1> HIDE DEF acc
<1>3. NoHosts \in [Hosts -> Clients \cup {0}] /\ \A h \in Hosts : NoHosts[h] = 0
  BY DEF NoHosts
<1>4. Installed(ServiceConfig, NewFactory, NoHosts, NoHosts)
  BY <1>0, <1>1, <1>2, <1>3, Installs
<1>5. collection' \in CollectionType /\ ~collection'.exists /\ 0 \notin todo'
  BY <1>0, <1>1 DEF CollectionType, NoCollection
<1> QED
  BY <1>0, <1>4, <1>5, AfterInstall

-----------------------------------------------------------------------------
(* The theorems *)

(* Whatever threads create, use and drop, whichever evictors are late and  *)
(* whichever states cannot be built, the cache stays in order, and every   *)
(* client and handle belongs to the configuration it was last given.       *)
THEOREM FactoryInvariance == Spec => []FactoryInv
<1>1. Init => FactoryInv
  BY InitFactory
<1>2. FactoryInv /\ [Next]_vars => FactoryInv'
  <2> SUFFICES ASSUME FactoryInv, [Next]_vars PROVE FactoryInv'
    OBVIOUS
  <2>1. ASSUME NEW c \in Clients, build_client(c) PROVE FactoryInv'
    BY <2>1, StepBuild
  <2>2. ASSUME NEW c \in Clients, subscribe(c) PROVE FactoryInv'
    BY <2>2, StepSubscribe
  <2>3. ASSUME NEW c \in Clients, subscribe_fails(c) PROVE FactoryInv'
    BY <2>3, StepSubscribeFails
  <2>4. ASSUME NEW c \in Clients, notify(c) PROVE FactoryInv'
    BY <2>4, StepNotify
  <2>5. ASSUME NEW c \in Clients, drop_client(c) PROVE FactoryInv'
    BY <2>5, StepDrop
  <2>6. ASSUME NEW q \in Requests, sent(q) PROVE FactoryInv'
    BY <2>6, StepSent
  <2>7. ASSUME NEW q \in Requests, NEW c \in Clients, send(q, c) PROVE FactoryInv'
    BY <2>7, StepSend
  <2>8. ASSUME NEW i \in StateIds, evict(i) PROVE FactoryInv'
    BY <2>8, StepEvict
  <2>9. CASE create_collection
    BY <2>9, StepCreate
  <2>10. CASE notify_collection
    BY <2>10, StepNotifyCollection
  <2>11. CASE drop_collection
    BY <2>11, StepDropCollection
  <2>12. ASSUME NEW c \in Configs, refresh(c) PROVE FactoryInv'
    BY <2>12, StepRefresh
  <2>13. CASE uncached_mut \/ cached_mut
    BY <2>13, StepSettings
  <2>14. CASE UNCHANGED vars
    <3>1. /\ UNCHANGED <<config, todo, factory, cacheVars, clientVars, using, hostVars>>
      BY <2>14 DEF vars
    <3>2. Alive' = Alive
      BY <3>1 DEF Alive, clientVars
    <3>3. KeysLast /\ CacheOK(TheCache)'
      BY <3>1, <3>2, SameCache
    <3>4. TypeOK'
      BY <3>1 DEF FactoryInv, TypeOK, cacheVars, clientVars, hostVars
    <3> QED
      BY <3>1, <3>3, <3>4, NoClient DEF FactoryInv
  <2> QED
    BY <2>1, <2>2, <2>3, <2>4, <2>5, <2>6, <2>7, <2>8, <2>9, <2>10, <2>11, <2>12, <2>13, <2>14 DEF Next
<1> QED
  BY <1>1, <1>2, PTL DEF Spec

(* Two states in use that were built for the same key, in the cache of one *)
(* factory, exist only if the capacity pushed one of them out.             *)
THEOREM SharedStates == Spec => []StatesAreShared
<1>1. FactoryInv => StatesAreShared
  <2> SUFFICES ASSUME FactoryInv, NEW i \in Alive \ {0}, NEW j \in Alive \ {0}, i # j, key[i] = key[j],
                      i \notin pushed, j \notin pushed
               PROVE  FALSE
    BY DEF StatesAreShared
  <2> DEFINE k == key[i].cache
  <2>1. TheCache \in CacheType /\ Kept(TheCache) /\ \A x \in Caches : ListOK(TheCache.entries[x], TheCache.key, x)
    BY DEF FactoryInv, CacheOK
  <2>2. key[i] # None /\ Has(entries[k], i) /\ Has(entries[k], j)
    BY <2>1, CacheFields DEF Kept
  <2>3. k \in Caches
    <3>1. i \in StateIds /\ key \in [StateIds -> Keys \cup {None}]
      BY <2>1, CacheFields DEF CacheType
    <3> QED
      BY <3>1, <2>2 DEF Keys
  <2>4. ListOK(entries[k], key, k)
    BY <2>1, <2>3, CacheFields
  <2> HIDE DEF k
  <2> QED
    BY <2>2, <2>4 DEF ListOK, Has
<1> QED
  BY <1>1, FactoryInvariance, PTL

(* No entry outlives the state it is for, whatever the evictors of others  *)
(* and the states that replaced it have done.                              *)
THEOREM NoEntryIsGarbage == Spec => []NoGarbage
<1>1. FactoryInv => NoGarbage
  BY CacheFields DEF FactoryInv, CacheOK, ListOK, NoGarbage
<1> QED
  BY <1>1, FactoryInvariance, PTL

(* A client's state has the settings its factory had when it was created,  *)
(* a host's client those of the collection.                                *)
THEOREM MatchingStates == Spec => []StatesMatchFactory
<1>1. FactoryInv => StatesMatchFactory
  BY DEF FactoryInv, TypeOK, ClientInv, BuiltWith, StatesMatchFactory
<1> QED
  BY <1>1, FactoryInvariance, PTL

(* No refresh is lost on a client: with none under way, its state is the   *)
(* present configuration's, unless that could not be built.                *)
THEOREM ClientsFollow == Spec => []ClientsReload
<1>1. FactoryInv => ClientsReload
  BY DEF FactoryInv, LiveInv, ClientsReload, Unlocked
<1> QED
  BY <1>1, FactoryInvariance, PTL

(* The same for the clients the collection has a handle of. *)
THEOREM HandlesFollow == Spec => []HandlesReload
<1>1. FactoryInv => HandlesReload
  <2> SUFFICES ASSUME FactoryInv, Unlocked, NEW h \in Hosts, client_handles[h] # 0, ~failed[client_handles[h]]
               PROVE  key[state[client_handles[h]]].config =
                        CachedConfig(HostConfig(ServiceConfig, h), collection.state_builder, index[client_handles[h]])
    BY DEF HandlesReload
  <2>1. collection.exists
    BY DEF FactoryInv, CollectionInv, NoHosts
  <2>2. collection.cell = ServiceConfig
    BY <2>1 DEF FactoryInv, CollectionInv, Unlocked
  <2> QED
    BY <2>2 DEF FactoryInv, HandleInv
<1> QED
  BY <1>1, FactoryInvariance, PTL
=============================================================================
