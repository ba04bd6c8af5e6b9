------------------------- MODULE FileServerProofs ----------------------------
(***************************************************************************)
(* The cache of file-server.c and of the Rust server under every           *)
(* interleaving of the event loop, the clients and the signals, for every  *)
(* choice of the constants.                                                *)
(***************************************************************************)
EXTENDS FileServer, FileCacheProofs

\* What the steps preserve: the cache is a well-formed one, over some keys and
\* some responses.
CacheInv == \E K, R : WellFormed(cache, K, R, MAX_CACHE_ENTRIES)

\* The server starts with an empty cache.
LEMMA InitCacheInv == Init => CacheInv
BY EmptyWellFormed, FileServerAssumption DEF Init, CacheInv

\* No step of the server or its surroundings breaks the cache: only the flush, the
\* shutdown and the end of a request write to it.
LEMMA NextCacheInv == CacheInv /\ [Next]_vars => CacheInv'
<1> SUFFICES ASSUME CacheInv, [Next]_vars
             PROVE  CacheInv'
  OBVIOUS
<1>1. CASE UNCHANGED cache
  BY <1>1 DEF CacheInv
<1>2. CASE cache' = cache_clear
  BY <1>2, EmptyWellFormed, FileServerAssumption DEF CacheInv, cache_clear
<1>3. ASSUME NEW key, NEW resp, cache' = cache_insert(cache, key, resp, MAX_CACHE_ENTRIES)
      PROVE  CacheInv'
  BY <1>3, InsertAny, FileServerAssumption DEF CacheInv
<1>4. CASE TopOfLoop
  BY <1>1, <1>2, <1>4 DEF TopOfLoop
<1>5. CASE Shutdown
  BY <1>2, <1>5 DEF Shutdown
<1>6. CASE Complete
  BY <1>1, <1>3, <1>6 DEF Complete
<1>7. ASSUME remove_client PROVE UNCHANGED cache
  BY <1>7 DEF remove_client
<1>8. CASE \/ EnterSelect \/ SelectReturn \/ AcceptC \/ AcceptRust \/ SkipClient \/ ReadRequest
           \/ LinesDone
  <2>1. CASE EnterSelect \/ SelectReturn \/ SkipClient
    BY <1>1, <2>1 DEF EnterSelect, SelectReturn, SkipClient
  <2>2. CASE AcceptC \/ AcceptRust
    BY <1>1, <2>2 DEF AcceptC, AcceptRust, Accept
  <2>3. CASE ReadRequest
    BY <1>1, <1>7, <2>3 DEF ReadRequest
  <2>4. CASE LinesDone
    BY <1>1, <1>7, <2>4 DEF LinesDone
  <2> QED
    BY <1>8, <2>1, <2>2, <2>3, <2>4
<1>9. CASE ServeError \/ ServeCached \/ ServeSmall \/ ServeStream
  BY <1>1, <1>9 DEF ServeError, ServeCached, ServeSmall, ServeStream, Serve
<1>10. CASE ServeSmallFailsRust \/ WriteFailsRust \/ ReadChunkFailsRust
  BY <1>1, <1>7, <1>10 DEF ServeSmallFailsRust, WriteFailsRust, ReadChunkFailsRust
<1>11. CASE WriteFailsC
  BY <1>1, <1>7, <1>11 DEF WriteFailsC
<1>12. CASE WriteAll \/ ReadChunk \/ FileResized
  BY <1>1, <1>12 DEF WriteAll, ReadChunk, FileResized
<1>13. CASE handle_sigint \/ handle_sigusr1
  BY <1>1, <1>13 DEF handle_sigint, handle_sigusr1
<1>14. CASE Surroundings
  BY <1>1, <1>14 DEF Surroundings, ownVars
<1>15. CASE Idle \/ UNCHANGED vars
  BY <1>1, <1>15 DEF Idle, vars, ownVars
<1> QED
  BY <1>4, <1>5, <1>6, <1>8, <1>9, <1>10, <1>11, <1>12, <1>13, <1>14, <1>15
  DEF Next, ServerStep

\* The cache of the select() servers never outgrows its array and holds a path at
\* most once, whatever the sizes, the files, the faults and the signals.
THEOREM CacheCorrect == Spec => []CacheOK
<1>1. CacheInv => CacheOK
  BY DEF CacheInv, CacheOK, WellFormed, Distinct
<1> QED
  BY <1>1, InitCacheInv, NextCacheInv, PTL DEF Spec
==============================================================================
