------------------------------ MODULE FileCache ------------------------------
(***************************************************************************)
(* The response cache of file-server.c and aio-file-server.c: the first    *)
(* cache_size slots of a static array, oldest entry first, as a sequence   *)
(* of [key, resp] records.  resp stands for the malloc'd response, which   *)
(* only its entry points to.                                               *)
(***************************************************************************)
EXTENDS Naturals, Sequences

Keys(cache) == {cache[i].key : i \in DOMAIN cache}

\* The slot the linear search stops at.
IndexOf(cache, key) ==
  CHOOSE i \in DOMAIN cache : cache[i].key = key /\ \A j \in 1..(i-1) : cache[j].key # key

\* Only used where key is cached; a miss is key \notin Keys(cache).
cache_lookup(cache, key) == cache[IndexOf(cache, key)].resp

\* Mutant: the search for an existing entry is left out.
CacheInsertNoSearch(cache, key, resp, max) ==
  Append(IF Len(cache) = max THEN Tail(cache) ELSE cache, [key |-> key, resp |-> resp])

\* Mutant: the test for a full cache is off by one.
CacheInsertLate(cache, key, resp, max) ==
  IF key \in Keys(cache)
  THEN [cache EXCEPT ![IndexOf(cache, key)].resp = resp]
  ELSE Append(IF Len(cache) > max THEN Tail(cache) ELSE cache, [key |-> key, resp |-> resp])

\* Replaces the response of a cached key in place; otherwise evicts slot 0 of
\* a full cache (memmove) and appends.
cache_insert(cache, key, resp, max) ==
  IF key \in Keys(cache)
  THEN [cache EXCEPT ![IndexOf(cache, key)].resp = resp]
  ELSE Append(IF Len(cache) = max THEN Tail(cache) ELSE cache, [key |-> key, resp |-> resp])

cache_clear == <<>>
==============================================================================
