--------------------------- MODULE FileCacheProofs ---------------------------
(***************************************************************************)
(* What the cache operations of file-server.c and aio-file-server.c        *)
(* preserve and return, for any keys, responses and capacity.              *)
(***************************************************************************)
EXTENDS FileCache, TLAPS

Entries(K, R) == [key : K, resp : R]

Distinct(cache) == \A j, k \in DOMAIN cache : cache[j].key = cache[k].key => j = k

\* A cache of at most max entries with keys in K and responses in R, no key twice.
WellFormed(cache, K, R, max) ==
  cache \in Seq(Entries(K, R)) /\ Distinct(cache) /\ Len(cache) <= max

\* With keys at most once, the linear search finds the entry of a cached key.
LEMMA Found ==
  ASSUME NEW K, NEW R, NEW cache \in Seq(Entries(K, R)), Distinct(cache),
         NEW key \in Keys(cache)
  PROVE  IndexOf(cache, key) \in DOMAIN cache /\ cache[IndexOf(cache, key)].key = key
<1>1. PICK i \in DOMAIN cache : cache[i].key = key
  BY DEF Keys
<1>2. \A j \in 1..(i-1) : cache[j].key # key
  BY <1>1 DEF Distinct
<1> QED
  BY <1>1, <1>2 DEF IndexOf

\* cache_insert keeps the cache within its array, with every path at most once.
LEMMA InsertPreserves ==
  ASSUME NEW K, NEW R, NEW max \in Nat \ {0},
         NEW cache, WellFormed(cache, K, R, max),
         NEW key \in K, NEW resp \in R
  PROVE  WellFormed(cache_insert(cache, key, resp, max), K, R, max)
<1> DEFINE new == cache_insert(cache, key, resp, max)
           e   == [key |-> key, resp |-> resp]
<1> SUFFICES WellFormed(new, K, R, max)
  OBVIOUS
<1>0. cache \in Seq(Entries(K, R)) /\ Distinct(cache) /\ Len(cache) \in Nat /\ Len(cache) <= max
  BY DEF WellFormed
<1>1. CASE key \in Keys(cache)
  <2> DEFINE p == IndexOf(cache, key)
  <2>1. p \in DOMAIN cache /\ cache[p].key = key
    BY <1>0, <1>1, Found
  <2> DEFINE q == [cache[p] EXCEPT !.resp = resp]
  <2>2. new = [cache EXCEPT ![p] = q]
    BY <1>1 DEF cache_insert
  <2>3. cache[p] \in Entries(K, R)
    BY <1>0, <2>1
  <2> HIDE DEF p
  <2>3a. q \in Entries(K, R) /\ q.key = cache[p].key
    BY <2>3 DEF Entries
  <2> HIDE DEF new, q
  <2>4. /\ new \in Seq(Entries(K, R)) /\ Len(new) = Len(cache)
        /\ \A j \in DOMAIN cache : new[j] = IF j = p THEN q ELSE cache[j]
    BY <1>0, <2>1, <2>2, <2>3a
  <2>5. \A j \in DOMAIN new : new[j].key = cache[j].key
    BY <1>0, <2>3a, <2>4
  <2> QED
    BY <1>0, <2>4, <2>5 DEF Distinct, WellFormed
<1>2. CASE key \notin Keys(cache) /\ Len(cache) = max
  <2>1. new = Append(Tail(cache), e)
    BY <1>2 DEF cache_insert
  <2>2. Len(Tail(cache)) = Len(cache) - 1 /\ Tail(cache) \in Seq(Entries(K, R))
        /\ \A j \in 1..(Len(cache) - 1) : Tail(cache)[j] = cache[j + 1]
    BY <1>0, <1>2
  <2>3. e \in Entries(K, R)
    BY DEF Entries
  <2>4. new \in Seq(Entries(K, R)) /\ Len(new) = Len(cache) /\ new[Len(cache)] = e
        /\ \A j \in 1..(Len(cache) - 1) : new[j] = cache[j + 1]
    BY <1>0, <1>2, <2>1, <2>2, <2>3
  <2>5. \A j \in DOMAIN cache : cache[j].key # key
    BY <1>2 DEF Keys
  <2>6. e.key = key
    OBVIOUS
  <2> HIDE DEF new, e
  <2>7. ASSUME NEW j \in 1..Len(cache), NEW k \in 1..Len(cache), new[j].key = new[k].key
        PROVE  j = k
    <3>1. CASE j < Len(cache) /\ k < Len(cache)
      <4>1. new[j] = cache[j + 1] /\ new[k] = cache[k + 1]
        BY <1>0, <2>4, <3>1
      <4>2. j + 1 \in DOMAIN cache /\ k + 1 \in DOMAIN cache
        BY <1>0, <3>1
      <4>3. j + 1 = k + 1
        BY <1>0, <2>7, <4>1, <4>2 DEF Distinct
      <4> QED
        BY <4>3
    <3>2. CASE j < Len(cache) /\ k = Len(cache)
      <4>1. new[j].key = cache[j + 1].key /\ new[k].key = key /\ j + 1 \in DOMAIN cache
        BY <1>0, <2>4, <2>6, <3>2
      <4> QED
        BY <2>5, <2>7, <4>1
    <3>3. CASE j = Len(cache) /\ k < Len(cache)
      <4>1. new[k].key = cache[k + 1].key /\ new[j].key = key /\ k + 1 \in DOMAIN cache
        BY <1>0, <2>4, <2>6, <3>3
      <4> QED
        BY <2>5, <2>7, <4>1
    <3>4. CASE j = Len(cache) /\ k = Len(cache)
      BY <3>4
    <3> QED
      BY <1>0, <3>1, <3>2, <3>3, <3>4
  <2>8. Distinct(new)
    BY <2>4, <2>7 DEF Distinct
  <2> QED
    BY <1>0, <2>4, <2>8 DEF WellFormed
<1>3. CASE key \notin Keys(cache) /\ Len(cache) # max
  <2>1. new = Append(cache, e)
    BY <1>3 DEF cache_insert
  <2>2. e \in Entries(K, R)
    BY DEF Entries
  <2>3. new \in Seq(Entries(K, R)) /\ Len(new) = Len(cache) + 1 /\ new[Len(cache) + 1] = e
        /\ \A j \in 1..Len(cache) : new[j] = cache[j]
    BY <1>0, <2>1, <2>2
  <2>4. \A j \in DOMAIN cache : cache[j].key # key
    BY <1>3 DEF Keys
  <2> HIDE DEF new
  <2> QED
    BY <1>0, <1>3, <2>3, <2>4 DEF Distinct, WellFormed
<1> QED
  BY <1>1, <1>2, <1>3

\* The keys and responses of a well-formed cache may be taken from larger sets.
LEMMA Widen ==
  ASSUME NEW K, NEW R, NEW L, NEW S, K \subseteq L, R \subseteq S,
         NEW q, NEW max, WellFormed(q, K, R, max)
  PROVE  WellFormed(q, L, S, max)
<1>1. Entries(K, R) \subseteq Entries(L, S)
  BY DEF Entries
<1>2. q \in Seq(Entries(K, R))
  BY DEF WellFormed
<1>3. q \in Seq(Entries(L, S))
  BY <1>1, <1>2
<1> QED
  BY <1>3 DEF WellFormed

\* An empty cache is well formed.
LEMMA EmptyWellFormed == ASSUME NEW max \in Nat PROVE WellFormed(<<>>, {}, {}, max)
BY DEF WellFormed, Distinct

\* Whatever is inserted, a well-formed cache stays one.
LEMMA InsertAny ==
  ASSUME NEW max \in Nat \ {0}, NEW cache, \E K, R : WellFormed(cache, K, R, max),
         NEW key, NEW resp
  PROVE  \E K, R : WellFormed(cache_insert(cache, key, resp, max), K, R, max)
<1>1. PICK K, R : WellFormed(cache, K, R, max)
  OBVIOUS
<1> DEFINE L == K \cup {key}
           S == R \cup {resp}
<1>2. key \in L /\ resp \in S /\ K \subseteq L /\ R \subseteq S
  OBVIOUS
<1> HIDE DEF L, S
<1>3. WellFormed(cache, L, S, max)
  BY <1>1, <1>2, Widen
<1>4. WellFormed(cache_insert(cache, key, resp, max), L, S, max)
  BY <1>2, <1>3, InsertPreserves
<1> QED
  BY <1>4
==============================================================================
