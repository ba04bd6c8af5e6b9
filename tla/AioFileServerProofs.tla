------------------------- MODULE AioFileServerProofs -------------------------
(***************************************************************************)
(* The cache of aio-file-server.c under every interleaving of the event    *)
(* loop, the AIO thread, the clients and the signals, for every choice of  *)
(* the constants.                                                          *)
(***************************************************************************)
EXTENDS AioFileServer, FileCacheProofs

\* What the steps preserve: the cache is a well-formed one, over some keys and
\* some responses.
CacheInv == \E K, R : WellFormed(cache, K, R, MAX_CACHE_ENTRIES)

\* The server starts with an empty cache.
LEMMA InitCacheInv == Init => CacheInv
BY EmptyWellFormed, AioAssumption DEF Init, CacheInv

\* No step of the server or its surroundings breaks the cache: only the flush, the
\* shutdown and a completed read write to it.
LEMMA NextCacheInv == CacheInv /\ [Next]_vars => CacheInv'
<1> SUFFICES ASSUME CacheInv, [Next]_vars
             PROVE  CacheInv'
  OBVIOUS
<1>1. CASE UNCHANGED cache
  BY <1>1 DEF CacheInv
<1>2. CASE cache' = cache_clear
  BY <1>2, EmptyWellFormed, AioAssumption DEF CacheInv, cache_clear
<1>3. ASSUME NEW key, NEW resp, cache' = cache_insert(cache, key, resp, MAX_CACHE_ENTRIES)
      PROVE  CacheInv'
  BY <1>3, InsertAny, AioAssumption DEF CacheInv
<1>4. CASE TopOfLoop
  BY <1>1, <1>2, <1>4 DEF TopOfLoop
<1>5. CASE Shutdown
  BY <1>2, <1>5 DEF Shutdown
<1>6. CASE CheckAioDone
  BY <1>1, <1>3, <1>6 DEF CheckAioDone
<1>7. ASSUME FinishRemove PROVE UNCHANGED cache
  BY <1>7 DEF FinishRemove
<1>8. ASSUME remove_client PROVE UNCHANGED cache
  BY <1>7, <1>8 DEF remove_client
<1>9. CASE \/ EnterSelect \/ SelectReturn \/ DrainSignals \/ AcceptClients
           \/ RemoveGone \/ SpinEnds \/ CheckAioPending \/ CheckAioError
           \/ ReadRequest \/ ServeError \/ ServeCached \/ ServeLarge \/ ServeSmall \/ LinesDone
           \/ SendFails \/ WriteResponse \/ SendFile \/ SendFileShort \/ SkipClient
  <2>1. CASE EnterSelect \/ SelectReturn \/ DrainSignals \/ AcceptClients
    BY <1>1, <2>1 DEF EnterSelect, SelectReturn, DrainSignals, AcceptClients
  <2>2. CASE RemoveGone \/ SendFails
    BY <1>1, <1>8, <2>2 DEF RemoveGone, SendFails
  <2>3. CASE SpinEnds
    BY <1>1, <1>7, <2>3 DEF SpinEnds
  <2>4. CASE CheckAioPending \/ CheckAioError
    BY <1>1, <2>4 DEF CheckAioPending, CheckAioError
  <2>5. CASE ReadRequest
    BY <1>1, <1>8, <2>5 DEF ReadRequest
  <2>6. CASE ServeError \/ ServeCached \/ ServeLarge \/ ServeSmall
    BY <1>1, <2>6 DEF ServeError, ServeCached, ServeLarge, ServeSmall
  <2>7. CASE LinesDone
    BY <1>1, <1>8, <2>7 DEF LinesDone
  <2>8. CASE WriteResponse \/ SendFile \/ SendFileShort \/ SkipClient
    BY <1>1, <2>8 DEF WriteResponse, SendFile, SendFileShort, SkipClient
  <2> QED
    BY <1>9, <2>1, <2>2, <2>3, <2>4, <2>5, <2>6, <2>7, <2>8
<1>10. CASE Spin \/ Idle \/ UNCHANGED vars
  BY <1>1, <1>10 DEF Spin, Idle, vars, serverVars
<1>11. CASE \E r \in inflight : AioComplete(r)
  BY <1>1, <1>11 DEF AioComplete
<1>12. CASE handle_sigint \/ handle_sigusr1
  BY <1>1, <1>12 DEF handle_sigint, handle_sigusr1
<1>13. CASE Surroundings
  BY <1>1, <1>13 DEF Surroundings, ownVars, serverVars
<1> QED
  BY <1>4, <1>5, <1>6, <1>9, <1>10, <1>11, <1>12, <1>13 DEF Next, ServerStep

\* The cache of a running aio-file-server never outgrows its array and holds a
\* path at most once, whatever the sizes, the files, the faults and the signals.
THEOREM CacheCorrect == Spec => []CacheOK
<1>1. CacheInv => CacheOK
  BY DEF CacheInv, CacheOK, WellFormed, Distinct
<1> QED
  BY <1>1, InitCacheInv, NextCacheInv, PTL DEF Spec
==============================================================================
