--------------------------- MODULE ServicesProofs ---------------------------
(***************************************************************************)
(* Proofs about Services for any number of requests and connections, any   *)
(* URLs, headers, configurations and trees.                                *)
(*                                                                         *)
(* Readiness: a future of the middleware carries a ready handle from the   *)
(* call to its end (ReadyInv), so the inner service finds it ready.        *)
(* Success: what is found belongs to the search's goal, and what is cached *)
(* under a URL, or returned for it without an error, to that URL           *)
(* (AskedInv); the not-found page is found under another goal and leaves   *)
(* the search as an error.                                                 *)
(***************************************************************************)
EXTENDS Services, FiniteSetTheorems, TLAPS

PcValues == {"idle", "lookup", "search", "create", "got", "inner", "answered"}

-----------------------------------------------------------------------------
(* Readiness *)

ReadyInv ==
    /\ pc \in [Requests -> PcValues]
    /\ carried \in [Requests -> BOOLEAN]
    /\ \A r \in Requests :
         /\ pc[r] = "inner" => settings.layered
         /\ settings.layered /\ pc[r] \notin {"idle", "answered"} => carried[r]

\* What get does to a request: it stays on its way and nobody else moves.
LEMMA GetMoves ==
    ASSUME NEW r \in Requests, pc = [q \in Requests |-> pc[q]], GetStep(r)
    PROVE  /\ settings' = settings
           /\ pc[r] \in {"lookup", "search", "create"}
           /\ \E to \in {"search", "create", "got"} : pc' = [pc EXCEPT ![r] = to]
<1>1. /\ settings' = settings
      /\ pc[r] \in {"lookup", "search", "create"}
      /\ \E to \in {"search", "create", "got"} : pc' = [pc EXCEPT ![r] = to]
  <2>1. CASE Hit(r)
    BY <2>1 DEF Hit, Return, treeVars
  <2>2. CASE Miss(r)
    BY <2>2 DEF Miss, Search, treeVars
  <2>3. CASE Open(r)
    BY <2>3 DEF Open, treeVars
  <2>4. CASE SkipSibling(r)
    <3>1. pc[r] = "search" /\ pc' = pc /\ settings' = settings
      BY <2>4 DEF SkipSibling, treeVars
    <3>2. pc' = [pc EXCEPT ![r] = "search"]
      BY <3>1
    <3>3. QED
      BY <3>1, <3>2
  <2>5. CASE TryIndex(r)
    BY <2>5 DEF TryIndex, Search, Failing, treeVars
  <2>6. CASE TryPage(r)
    BY <2>6 DEF TryPage, Search, Failing, treeVars
  <2>7. CASE SearchFails(r)
    BY <2>7 DEF SearchFails, Return, Failing, treeVars
  <2>8. CASE Create(r)
    BY <2>8 DEF Create, Return, treeVars
  <2>9. CASE CreatePage(r)
    BY <2>9 DEF CreatePage, Return, treeVars
  <2>10. CASE CreateFails(r)
    BY <2>10 DEF CreateFails, Return, treeVars
  <2>11. CASE CompressionFails(r)
    BY <2>11 DEF CompressionFails, Return, treeVars
  <2>12. QED
    BY <2>1, <2>2, <2>3, <2>4, <2>5, <2>6, <2>7, <2>8, <2>9, <2>10, <2>11 DEF GetStep
<1>2. QED
  BY <1>1

LEMMA GetKeepsReady ==
    ASSUME NEW r \in Requests, ReadyInv, GetStep(r), UNCHANGED carried
    PROVE  ReadyInv'
<1>1. pc = [q \in Requests |-> pc[q]]
  BY DEF ReadyInv
<1>2. QED
  BY <1>1, GetMoves DEF ReadyInv, PcValues

LEMMA BeginMoves ==
    ASSUME NEW r \in Requests, NEW url, NEW header, Begin(r, url, header)
    PROVE  /\ settings' = settings
           /\ pc[r] = "idle"
           /\ \E to \in {"lookup", "search", "got"} : pc' = [pc EXCEPT ![r] = to]
BY DEF Begin, Search, treeVars

LEMMA ReadyStep == ReadyInv /\ [Next]_vars => ReadyInv'
<1> SUFFICES ASSUME ReadyInv, [Next]_vars PROVE ReadyInv'
  OBVIOUS
<1>1. ASSUME NEW r \in Requests, NEW url \in Urls, NEW header \in Headers,
             CallService(r, url, header)
      PROVE  ReadyInv'
  <2>1. ~ settings.layered /\ carried' = carried
    BY <1>1 DEF CallService, innerVars
  <2>2. Begin(r, url, header)
    BY <1>1 DEF CallService
  <2>3. QED
    BY <2>1, <2>2, BeginMoves DEF ReadyInv, PcValues
<1>2. ASSUME NEW r \in Requests, NEW url \in Urls, NEW header \in Headers,
             NEW c \in Connections, CallLayer(c, r, url, header)
      PROVE  ReadyInv'
  <2>1. carried' = [carried EXCEPT ![r] = TRUE]
    BY <1>2 DEF CallLayer
  <2>2. Begin(r, url, header)
    BY <1>2 DEF CallLayer
  <2>3. QED
    BY <2>1, <2>2, BeginMoves DEF ReadyInv, PcValues
<1>3. ASSUME NEW c \in Connections, PollReady(c) PROVE ReadyInv'
  BY <1>3 DEF PollReady, ReadyInv, dirVars, treeVars
<1>4. ASSUME NEW r \in Requests, Advance(r) \/ Cancel(r) PROVE ReadyInv'
  <2>1. CASE Get(r)
    BY <2>1, GetKeepsReady DEF Get, innerVars
  <2>2. CASE GetResponse(r) \/ AnswerOwn(r) \/ InnerAnswers(r)
    <3>1. /\ pc' = [pc EXCEPT ![r] = "answered"]
          /\ carried' = [carried EXCEPT ![r] = FALSE]
          /\ settings' = settings
      BY <2>2 DEF GetResponse, AnswerOwn, InnerAnswers, Respond, Release, treeVars
    <3>2. QED
      BY <3>1 DEF ReadyInv, PcValues
  <2>3. CASE PassOn(r)
    BY <2>3 DEF PassOn, ReadyInv, PcValues, treeVars, innerVars
  <2>4. CASE Finish(r) \/ Cancel(r)
    <3>1. /\ pc' = [pc EXCEPT ![r] = "idle"]
          /\ carried' = [carried EXCEPT ![r] = FALSE]
          /\ settings' = settings
      BY <2>4 DEF Finish, Cancel, Reset, Release, treeVars
    <3>2. QED
      BY <3>1 DEF ReadyInv, PcValues
  <2>5. QED
    BY <1>4, <2>1, <2>2, <2>3, <2>4 DEF Advance
<1>5. CASE Environment
  BY <1>5 DEF Environment, Change, Evict, ReadyInv, innerVars, treeVars
<1>6. CASE UNCHANGED vars
  BY <1>6 DEF vars, dirVars, treeVars, innerVars, ReadyInv
<1>7. QED
  BY <1>1, <1>2, <1>3, <1>4, <1>5, <1>6 DEF Next

LEMMA ReadyHolds == Spec => []ReadyInv
<1>1. Init => ReadyInv
  BY DEF Init, DirInit, ReadyInv, PcValues
<1>2. QED
  BY <1>1, ReadyStep, PTL DEF Spec

\* The middleware calls the inner service only on a handle that was polled ready,
\* for any number of connections that share the service (integration.rs:160-161).
THEOREM Readiness == Spec => []InnerIsReady
<1>1. ReadyInv => InnerIsReady
  BY DEF ReadyInv, InnerIsReady
<1>2. QED
  BY <1>1, ReadyHolds, PTL

-----------------------------------------------------------------------------
(* Permits *)

Polled     == {c \in Connections : ready[c]}
Underway   == {r \in Requests : carried[r]}

PermitsInv ==
    /\ pc = [r \in Requests |-> pc[r]]
    /\ permits \in Nat
    /\ ready \in [Connections -> BOOLEAN]
    /\ carried \in [Requests -> BOOLEAN]
    /\ permits + Cardinality(Polled) + Cardinality(Underway) = Permits
    /\ \A r \in Requests : carried[r] => pc[r] \notin {"idle", "answered"}

LEMMA Finite ==
    /\ IsFiniteSet(Polled) /\ Cardinality(Polled) \in Nat
    /\ IsFiniteSet(Underway) /\ Cardinality(Underway) \in Nat
<1>1. Polled \subseteq Connections /\ Underway \subseteq Requests
  BY DEF Polled, Underway
<1>2. IsFiniteSet(Polled) /\ IsFiniteSet(Underway)
  BY <1>1, ServicesAssumption, FS_Subset
<1>3. QED
  BY <1>2, FS_CardinalityType

\* The end of a future gives its permit back.
LEMMA ReleaseKeeps ==
    ASSUME NEW r \in Requests, NEW to \in {"idle", "answered"}, PermitsInv, Release(r),
           pc' = [pc EXCEPT ![r] = to]
    PROVE  PermitsInv'
<1>1. /\ carried' = [carried EXCEPT ![r] = FALSE] /\ ready' = ready
      /\ permits' = IF carried[r] THEN permits + 1 ELSE permits
  BY DEF Release
<1>2. Underway' = Underway \ {r} /\ Polled' = Polled
  BY <1>1 DEF PermitsInv, Underway, Polled
<1>3. permits' \in Nat /\ permits' + Cardinality(Polled') + Cardinality(Underway') = Permits
  <2>1. CASE carried[r]
    <3>1. r \in Underway
      BY <2>1 DEF Underway
    <3>2. Cardinality(Underway \ {r}) = Cardinality(Underway) - 1
      BY <3>1, Finite, FS_RemoveElement
    <3>3. QED
      BY <1>1, <1>2, <2>1, <3>2, Finite DEF PermitsInv
  <2>2. CASE ~ carried[r]
    <3>1. Underway \ {r} = Underway
      BY <2>2 DEF Underway
    <3>2. QED
      BY <1>1, <1>2, <2>2, <3>1, Finite DEF PermitsInv
  <2>3. QED
    BY <2>1, <2>2
<1>4. \A q \in Requests : carried'[q] => pc'[q] \notin {"idle", "answered"}
  BY <1>1 DEF PermitsInv
<1>5. QED
  BY <1>1, <1>3, <1>4 DEF PermitsInv, Polled, Underway

\* A request that goes on without its end keeps its permit.
LEMMA MovesKeep ==
    ASSUME PermitsInv, UNCHANGED innerVars,
           \/ UNCHANGED pc
           \/ \E r \in Requests, to \in PcValues \ {"idle", "answered"} :
                pc' = [pc EXCEPT ![r] = to]
    PROVE  PermitsInv'
BY DEF PermitsInv, Polled, Underway, innerVars, PcValues

LEMMA PollKeeps ==
    ASSUME NEW c \in Connections, PermitsInv, PollReady(c) PROVE PermitsInv'
<1>1. /\ ~ ready[c] /\ permits > 0 /\ permits' = permits - 1
      /\ ready' = [ready EXCEPT ![c] = TRUE] /\ carried' = carried /\ pc' = pc
  BY DEF PollReady, dirVars
<1>2. Polled' = Polled \cup {c} /\ c \notin Polled /\ Underway' = Underway
  BY <1>1 DEF PermitsInv, Polled, Underway
<1>3. Cardinality(Polled') = Cardinality(Polled) + 1
  BY <1>2, Finite, FS_AddElement
<1>4. permits' \in Nat /\ permits' + Cardinality(Polled') + Cardinality(Underway') = Permits
  BY <1>1, <1>2, <1>3, Finite DEF PermitsInv
<1>5. QED
  BY <1>1, <1>4 DEF PermitsInv, Polled, Underway

LEMMA CallKeeps ==
    ASSUME NEW c \in Connections, NEW r \in Requests, NEW url, NEW header, PermitsInv,
           CallLayer(c, r, url, header)
    PROVE  PermitsInv'
<1>1. /\ ready[c] /\ permits' = permits
      /\ ready' = [ready EXCEPT ![c] = FALSE] /\ carried' = [carried EXCEPT ![r] = TRUE]
      /\ pc[r] = "idle" /\ \E to \in {"lookup", "search", "got"} : pc' = [pc EXCEPT ![r] = to]
  BY BeginMoves DEF CallLayer
<1>2. Polled' = Polled \ {c} /\ c \in Polled
  BY <1>1 DEF PermitsInv, Polled
<1>3. Underway' = Underway \cup {r} /\ r \notin Underway
  BY <1>1 DEF PermitsInv, Underway
<1>4. Cardinality(Polled') = Cardinality(Polled) - 1
  BY <1>2, Finite, FS_RemoveElement
<1>5. Cardinality(Underway') = Cardinality(Underway) + 1
  BY <1>3, Finite, FS_AddElement
<1>6. permits' \in Nat /\ permits' + Cardinality(Polled') + Cardinality(Underway') = Permits
  BY <1>1, <1>4, <1>5, Finite DEF PermitsInv
<1>7. \A q \in Requests : carried'[q] => pc'[q] \notin {"idle", "answered"}
  BY <1>1 DEF PermitsInv
<1>8. QED
  BY <1>1, <1>6, <1>7 DEF PermitsInv, Polled, Underway

LEMMA PermitsStep == PermitsInv /\ [Next]_vars => PermitsInv'
<1> SUFFICES ASSUME PermitsInv, [Next]_vars PROVE PermitsInv'
  OBVIOUS
<1>1. ASSUME NEW r \in Requests, NEW url \in Urls, NEW header \in Headers,
             CallService(r, url, header)
      PROVE  PermitsInv'
  BY <1>1, BeginMoves, MovesKeep DEF CallService, PcValues
<1>2. ASSUME NEW r \in Requests, NEW url \in Urls, NEW header \in Headers,
             NEW c \in Connections, CallLayer(c, r, url, header)
      PROVE  PermitsInv'
  BY <1>2, CallKeeps
<1>3. ASSUME NEW c \in Connections, PollReady(c) PROVE PermitsInv'
  BY <1>3, PollKeeps
<1>4. ASSUME NEW r \in Requests, Advance(r) \/ Cancel(r) PROVE PermitsInv'
  <2>1. CASE Get(r)
    BY <2>1, GetMoves, MovesKeep DEF Get, PcValues, PermitsInv
  <2>2. CASE GetResponse(r) \/ AnswerOwn(r) \/ InnerAnswers(r)
    BY <2>2, ReleaseKeeps DEF GetResponse, AnswerOwn, InnerAnswers, Respond
  <2>3. CASE PassOn(r)
    BY <2>3, MovesKeep DEF PassOn, PcValues
  <2>4. CASE Finish(r) \/ Cancel(r)
    BY <2>4, ReleaseKeeps DEF Finish, Cancel, Reset
  <2>5. QED
    BY <1>4, <2>1, <2>2, <2>3, <2>4 DEF Advance
<1>5. CASE Environment
  BY <1>5, MovesKeep DEF Environment, Change, Evict
<1>6. CASE UNCHANGED vars
  BY <1>6, MovesKeep DEF vars, dirVars
<1>7. QED
  BY <1>1, <1>2, <1>3, <1>4, <1>5, <1>6 DEF Next

LEMMA PermitsHold == Spec => []PermitsInv
<1>1. Init => PermitsInv
  <2> SUFFICES ASSUME Init PROVE PermitsInv
    OBVIOUS
  <2>1. Polled = {} /\ Underway = {}
    BY DEF Init, Polled, Underway
  <2>2. Cardinality({}) = 0
    BY FS_EmptySet
  <2>3. QED
    BY <2>1, <2>2, ServicesAssumption DEF Init, DirInit, PermitsInv
<1>2. QED
  BY <1>1, PermitsStep, PTL DEF Spec

\* No permit is lost, for any number of connections and requests, whether a request
\* is answered, passed on or dropped (integration.rs:158-204).
THEOREM Backpressure == Spec => []PermitsComeBack
<1>1. PermitsInv => PermitsComeBack
  BY DEF PermitsInv, PermitsComeBack, Polled, Underway
<1>2. QED
  BY <1>1, PermitsHold, PTL

-----------------------------------------------------------------------------
(* Success *)

IsMap(f) == f = [r \in Requests |-> f[r]]

\* The state is made of functions, and a request that searches is a valid one.
ShapeInv ==
    /\ settings \in Settings
    /\ IsMap(pc) /\ IsMap(req) /\ IsMap(found) /\ IsMap(result) /\ IsMap(answer)
    /\ goal \in [Requests -> {"target", "index", "page"}]
    /\ \A r \in Requests : pc[r] \in {"lookup", "search", "create"} =>
         req[r] \in [url : Urls, header : Headers] /\ ~ Invalid(req[r].url)

CacheInv ==
    /\ cache = [k \in Keys |-> cache[k]]
    /\ \A k \in Keys : cache[k] # NoResource => StandsFor(k[1], cache[k])

RequestInv(r) ==
    /\ pc[r] = "create" => found[r].path = PathOf(r)
    /\ pc[r] = "got" =>
         /\ result[r].error \in ErrorKinds
         /\ result[r].error = "none" => StandsFor(req[r].url, result[r].resource)
    /\ answer[r].by = "directory" /\ answer[r].status = 200 =>
         pc[r] = "answered" /\ StandsFor(req[r].url, answer[r].resource)

AskedInv == ShapeInv /\ CacheInv /\ \A r \in Requests : RequestInv(r)

LEMMA FailingValues ==
    ASSUME NEW r \in Requests PROVE Failing(r) \in ErrorKinds
<1>1. \A p : Status(p) \in {"not_found", "ok", "is_directory", "io"}
  BY DEF Status, StatusIn
<1>2. QED
  BY <1>1 DEF Failing, ErrorKinds

LEMMA KeyOfIsKey ==
    ASSUME NEW r \in Requests, ShapeInv, pc[r] \in {"lookup", "search", "create"}
    PROVE  KeyOf(r) \in Keys /\ KeyOf(r)[1] = req[r].url
BY DEF ShapeInv, KeyOf, Keys

\* What an error handler may return.
LEMMA HandledIs ==
    ASSUME NEW res, NEW h \in Handled(res), res.error \in ErrorKinds
    PROVE  /\ h.error \in ErrorKinds
           /\ h = res \/ (settings.handler /\ h.resource \in {NoResource, Fallback})
           /\ h # res /\ h.error = "none" => h.resource = Fallback
<1>1. CASE h = res
  BY <1>1
<1>2. CASE h \in {Ok(Fallback), NotFound(Fallback)}
  BY <1>2 DEF Handled, Ok, NotFound, ErrorKinds
<1>3. CASE \E kind \in ErrorKinds \ {"none"} : h = Err(kind)
  BY <1>3 DEF Handled, Err
<1>4. QED
  BY <1>1, <1>2, <1>3 DEF Handled

\* resolve returns a result that is an error or stands for the URL.
LEMMA ReturnKeeps ==
    ASSUME NEW r \in Requests, NEW res, AskedInv, CacheInv', Return(r, res),
           pc[r] \in {"lookup", "search", "create"}, UNCHANGED answer,
           res.error \in ErrorKinds,
           res.error = "none" => StandsFor(req[r].url, res.resource)
    PROVE  AskedInv'
<1>0. PICK h \in Handled(res) : result' = [result EXCEPT ![r] = h]
  BY DEF Return
<1>1. /\ pc' = [pc EXCEPT ![r] = "got"] /\ result' = [result EXCEPT ![r] = h]
      /\ goal' = [goal EXCEPT ![r] = "target"] /\ found' = [found EXCEPT ![r] = NoResource]
      /\ req' = req /\ settings' = settings /\ answer' = answer
  BY <1>0 DEF Return, treeVars
<1>2. h.error \in ErrorKinds /\ (h.error = "none" => StandsFor(req[r].url, h.resource))
  BY <1>0, HandledIs DEF StandsFor
<1>3. ShapeInv'
  BY <1>1 DEF AskedInv, ShapeInv, IsMap
<1>4. RequestInv(r)'
  BY <1>1, <1>2 DEF AskedInv, ShapeInv, IsMap, RequestInv, StandsFor
<1>5. ASSUME NEW q \in Requests, q # r PROVE RequestInv(q)'
  <2>1. /\ pc'[q] = pc[q] /\ found'[q] = found[q] /\ result'[q] = result[q]
        /\ goal'[q] = goal[q] /\ req'[q] = req[q] /\ answer'[q] = answer[q]
    BY <1>1, <1>5 DEF AskedInv, ShapeInv, IsMap
  <2>2. PathOf(q)' = PathOf(q)
    BY <1>1, <2>1 DEF PathOf
  <2>3. QED
    BY <1>1, <2>1, <2>2 DEF AskedInv, RequestInv, StandsFor
<1>6. QED
  BY <1>3, <1>4, <1>5 DEF AskedInv

\* find_file starts, for the target, its index.html or the page.
LEMMA SearchKeeps ==
    ASSUME NEW r \in Requests, NEW which \in {"target", "index", "page"}, AskedInv,
           Search(r, which, req[r].header),
           pc[r] \in {"lookup", "search"},
           UNCHANGED <<treeVars, cache, req, found, result, lacked, answer>>
    PROVE  AskedInv'
<1>1. /\ pc' = [pc EXCEPT ![r] = "search"] /\ goal' = [goal EXCEPT ![r] = which]
      /\ settings' = settings /\ cache' = cache /\ req' = req /\ found' = found
      /\ result' = result /\ answer' = answer
  BY DEF Search, treeVars
<1>2. ShapeInv' /\ CacheInv'
  BY <1>1 DEF AskedInv, ShapeInv, CacheInv, IsMap, StandsFor
<1>3. ASSUME NEW q \in Requests PROVE RequestInv(q)'
  <2>1. pc'[q] = (IF q = r THEN "search" ELSE pc[q]) /\ (q # r => goal'[q] = goal[q])
    BY <1>1 DEF AskedInv, ShapeInv, IsMap
  <2>2. q # r => PathOf(q)' = PathOf(q)
    BY <1>1, <2>1 DEF PathOf
  <2>3. QED
    BY <1>1, <2>1, <2>2 DEF AskedInv, RequestInv, StandsFor
<1>4. QED
  BY <1>2, <1>3 DEF AskedInv

LEMMA GetKeepsAsked ==
    ASSUME NEW r \in Requests, AskedInv, GetStep(r), UNCHANGED answer
    PROVE  AskedInv'
<1>1. CASE Hit(r)
  <2>1. cache' = cache /\ settings' = settings /\ Return(r, Ok(cache[KeyOf(r)]))
    BY <1>1 DEF Hit, Return, treeVars
  <2>2. StandsFor(req[r].url, cache[KeyOf(r)])
    BY <1>1, KeyOfIsKey DEF Hit, AskedInv, CacheInv
  <2>3. CacheInv'
    BY <2>1 DEF AskedInv, CacheInv, StandsFor
  <2>4. QED
    BY <1>1, <2>1, <2>2, <2>3, ReturnKeeps DEF Hit, Ok, ErrorKinds
<1>2. CASE Miss(r)
  BY <1>2, SearchKeeps DEF Miss
<1>3. CASE Open(r)
  <2>1. /\ pc[r] = "search" /\ pc' = [pc EXCEPT ![r] = "create"]
        /\ settings' = settings /\ cache' = cache /\ req' = req /\ goal' = goal
        /\ result' = result /\ answer' = answer
    BY <1>3 DEF Open, treeVars
  <2>2. PICK coding : found' = [found EXCEPT ![r] = [path |-> PathOf(r), coding |-> coding]]
    BY <1>3 DEF Open
  <2>3. ShapeInv' /\ CacheInv'
    BY <2>1, <2>2 DEF AskedInv, ShapeInv, CacheInv, IsMap, StandsFor
  <2>4. \A q \in Requests : PathOf(q)' = PathOf(q)
    BY <2>1 DEF PathOf
  <2>5. ASSUME NEW q \in Requests PROVE RequestInv(q)'
    <3>1. /\ pc'[q] = IF q = r THEN "create" ELSE pc[q]
          /\ q # r => found'[q] = found[q]
          /\ found'[r].path = PathOf(r)
      BY <2>1, <2>2 DEF AskedInv, ShapeInv, IsMap
    <3>2. QED
      BY <2>1, <2>4, <3>1 DEF AskedInv, RequestInv, StandsFor
  <2>6. QED
    BY <2>3, <2>5 DEF AskedInv
<1>4. CASE SkipSibling(r)
  BY <1>4 DEF SkipSibling, treeVars, AskedInv, ShapeInv, CacheInv, RequestInv, IsMap,
              StandsFor, PathOf
<1>5. CASE TryIndex(r) \/ TryPage(r)
  <2>1. pc[r] = "search"
    BY <1>5 DEF TryIndex, TryPage, Failing
  <2>2. QED
    BY <1>5, <2>1, SearchKeeps DEF TryIndex, TryPage
<1>6. CASE SearchFails(r)
  <2>1. /\ pc[r] = "search" /\ Failing(r) # "none"
        /\ cache' = cache /\ settings' = settings /\ Return(r, Err(Failing(r)))
    BY <1>6 DEF SearchFails, Failing, Return, treeVars
  <2>2. CacheInv'
    BY <2>1 DEF AskedInv, CacheInv, StandsFor
  <2>3. QED
    BY <2>1, <2>2, FailingValues, ReturnKeeps DEF Err
<1>7. CASE Create(r)
  <2>1. /\ pc[r] = "create" /\ Return(r, Ok(found[r])) /\ settings' = settings
        /\ \/ cache' = [cache EXCEPT ![KeyOf(r)] = found[r]]
           \/ cache' = cache
    BY <1>7 DEF Create, Return, treeVars
  <2>2. StandsFor(req[r].url, found[r])
    <3>1. found[r].path = PathOf(r) /\ goal[r] \in {"target", "index"}
      BY <1>7 DEF Create, AskedInv, RequestInv, ShapeInv
    <3>2. PathOf(r) \in {Target(req[r].url), IndexOf(Target(req[r].url))}
      BY <3>1 DEF PathOf
    <3>3. QED
      BY <3>1, <3>2 DEF StandsFor
  <2>3. CacheInv'
    BY <2>1, <2>2, KeyOfIsKey DEF AskedInv, CacheInv, StandsFor
  <2>4. QED
    BY <2>1, <2>2, <2>3, ReturnKeeps DEF Ok, ErrorKinds
<1>8. CASE CreatePage(r) \/ CreateFails(r)
  <2>0. settings.hashErrors \subseteq {"io", "not_found"}
    BY ServedDirAssumption DEF AskedInv, ShapeInv
  <2>1. /\ pc[r] = "create" /\ cache' = cache /\ settings' = settings
        /\ \E res : Return(r, res) /\ res.error \in {"not_found", "io"}
    <3>1. CASE CreatePage(r)
      <4>1. pc[r] = "create" /\ cache' = cache /\ Return(r, NotFound(found[r]))
        BY <3>1 DEF CreatePage
      <4>2. NotFound(found[r]).error = "not_found"
        BY DEF NotFound
      <4>3. settings' = settings
        BY <4>1 DEF Return, treeVars
      <4>4. QED
        BY <4>1, <4>2, <4>3
    <3>2. CASE CreateFails(r)
      <4>1. PICK kind \in settings.hashErrors : Return(r, Err(kind))
        BY <3>2 DEF CreateFails
      <4>2. Err(kind).error \in {"not_found", "io"}
        BY <2>0 DEF Err
      <4>3. pc[r] = "create" /\ cache' = cache /\ settings' = settings
        BY <3>2, <4>1 DEF CreateFails, Return, treeVars
      <4>4. QED
        BY <4>1, <4>2, <4>3
    <3>3. QED
      BY <1>8, <3>1, <3>2
  <2>2. CacheInv'
    BY <2>1 DEF AskedInv, CacheInv, StandsFor
  <2>3. QED
    BY <2>1, <2>2, ReturnKeeps DEF ErrorKinds
<1>9. CASE CompressionFails(r)
  <2>1. pc[r] = "search" /\ cache' = cache /\ settings' = settings /\ Return(r, Err("io"))
    BY <1>9 DEF CompressionFails, Return, treeVars
  <2>2. CacheInv'
    BY <2>1 DEF AskedInv, CacheInv, StandsFor
  <2>3. QED
    BY <2>1, <2>2, ReturnKeeps DEF Err, ErrorKinds
<1>10. QED
  BY <1>1, <1>2, <1>3, <1>4, <1>5, <1>6, <1>7, <1>8, <1>9 DEF GetStep

LEMMA BeginKeepsAsked ==
    ASSUME NEW r \in Requests, NEW url \in Urls, NEW header \in Headers, AskedInv,
           Begin(r, url, header), UNCHANGED answer
    PROVE  AskedInv'
<1>1. /\ settings' = settings /\ cache' = cache /\ found' = found /\ answer' = answer
      /\ req' = [req EXCEPT ![r] = [url |-> url, header |-> header]]
      /\ goal' \in {goal, [goal EXCEPT ![r] = "target"]}
      /\ pc[r] = "idle"
  BY DEF Begin, Search, treeVars, searchVars
<1>2. \/ /\ ~ Invalid(url) /\ result' = result
         /\ \E to \in {"lookup", "search"} : pc' = [pc EXCEPT ![r] = to]
      \/ /\ pc' = [pc EXCEPT ![r] = "got"]
         /\ \E h \in Handled(Err("invalid_path")) : result' = [result EXCEPT ![r] = h]
  BY DEF Begin, Search, searchVars
<1>3. ShapeInv'
  BY <1>1, <1>2 DEF AskedInv, ShapeInv, IsMap
<1>4. CacheInv'
  BY <1>1 DEF AskedInv, CacheInv, StandsFor
<1>5. RequestInv(r)'
  <2>1. ~ (answer[r].by = "directory" /\ answer[r].status = 200)
    BY <1>1 DEF AskedInv, RequestInv
  <2>2. CASE pc'[r] \in {"lookup", "search"}
    BY <1>1, <2>1, <2>2 DEF RequestInv
  <2>3. CASE /\ pc' = [pc EXCEPT ![r] = "got"]
             /\ \E h \in Handled(Err("invalid_path")) : result' = [result EXCEPT ![r] = h]
    <3>1. PICK h \in Handled(Err("invalid_path")) : pc'[r] = "got" /\ result'[r] = h
      BY <2>3 DEF AskedInv, ShapeInv, IsMap
    <3>2. Err("invalid_path").error = "invalid_path"
      BY DEF Err
    <3>3. h.error \in ErrorKinds /\ (h.error = "none" => settings.handler /\ h.resource = Fallback)
      BY <3>1, <3>2, HandledIs DEF ErrorKinds
    <3>4. QED
      BY <1>1, <2>1, <3>1, <3>3 DEF RequestInv, StandsFor
  <2>4. QED
    BY <1>2, <2>2, <2>3 DEF AskedInv, ShapeInv, IsMap
<1>6. ASSUME NEW q \in Requests, q # r PROVE RequestInv(q)'
  <2>1. /\ pc'[q] = pc[q] /\ result'[q] = result[q]
        /\ goal'[q] = goal[q] /\ req'[q] = req[q]
    BY <1>1, <1>2, <1>6 DEF AskedInv, ShapeInv, IsMap
  <2>2. PathOf(q)' = PathOf(q)
    BY <1>1, <2>1 DEF PathOf
  <2>3. QED
    BY <1>1, <2>1, <2>2 DEF AskedInv, RequestInv, StandsFor
<1>7. QED
  BY <1>3, <1>4, <1>5, <1>6 DEF AskedInv

\* A request moves past get: its answer is the one it got, if it is a success.
LEMMA AnswerKeepsAsked ==
    ASSUME NEW r \in Requests, NEW to \in {"inner", "answered", "idle"}, AskedInv,
           IsMap(req)', IsMap(found)', IsMap(result)', IsMap(answer)',
           goal' \in [Requests -> {"target", "index", "page"}],
           pc' = [pc EXCEPT ![r] = to], cache' = cache, settings' = settings,
           \A q \in Requests : q # r =>
               /\ req'[q] = req[q] /\ found'[q] = found[q] /\ result'[q] = result[q]
               /\ goal'[q] = goal[q] /\ answer'[q] = answer[q],
           answer'[r].by = "directory" /\ answer'[r].status = 200 =>
               to = "answered" /\ StandsFor(req[r].url, answer'[r].resource)
               /\ req'[r] = req[r]
    PROVE  AskedInv'
<1>1. ShapeInv' /\ CacheInv'
  BY DEF AskedInv, ShapeInv, CacheInv, IsMap, StandsFor
<1>2. RequestInv(r)'
  BY DEF AskedInv, ShapeInv, IsMap, RequestInv, StandsFor
<1>3. ASSUME NEW q \in Requests, q # r PROVE RequestInv(q)'
  <2>1. pc'[q] = pc[q]
    BY <1>3 DEF AskedInv, ShapeInv, IsMap
  <2>2. PathOf(q)' = PathOf(q)
    BY <1>3 DEF PathOf
  <2>3. QED
    BY <1>3, <2>1, <2>2 DEF AskedInv, RequestInv, StandsFor
<1>4. QED
  BY <1>1, <1>2, <1>3 DEF AskedInv

LEMMA SuccessIsOk ==
    ASSUME NEW res, res.error \in ErrorKinds, ResponseTo(res).status = 200
    PROVE  res.error = "none" /\ ResponseTo(res).resource = res.resource
<1>1. res.error = "none" => ResponseTo(res) = Answer(200, res.resource)
  BY DEF ResponseTo
<1>2. res.error = "not_found" => ResponseTo(res) = Answer(404, res.resource)
  BY DEF ResponseTo
<1>3. res.error \in {"is_directory", "invalid_path", "io"} =>
        ResponseTo(res) = Answer(StatusCode(res.error), NoResource)
  BY DEF ResponseTo
<1>4. \A e \in {"is_directory", "invalid_path", "io"} : StatusCode(e) \in {400, 404, 500}
  BY DEF StatusCode
<1>5. QED
  BY <1>1, <1>2, <1>3, <1>4 DEF Answer, ErrorKinds

LEMMA AdvanceKeepsAsked ==
    ASSUME NEW r \in Requests, AskedInv, Advance(r) \/ Cancel(r)
    PROVE  AskedInv'
<1>1. CASE Get(r)
  BY <1>1, GetKeepsAsked DEF Get
<1>2. CASE GetResponse(r) \/ AnswerOwn(r)
  <2>1. pc[r] = "got" /\ Respond(r, ResponseTo(result[r]))
    BY <1>2 DEF GetResponse, AnswerOwn
  <2>2. /\ pc' = [pc EXCEPT ![r] = "answered"]
        /\ answer' = [answer EXCEPT ![r] = ResponseTo(result[r])]
        /\ settings' = settings /\ cache' = cache /\ req' = req /\ goal' = goal
        /\ found' = found /\ result' = result
    BY <2>1 DEF Respond, treeVars, searchVars
  <2>3. ResponseTo(result[r]).status = 200 =>
          StandsFor(req[r].url, ResponseTo(result[r]).resource)
    BY <2>1, SuccessIsOk DEF AskedInv, RequestInv
  <2>4. /\ answer'[r] = ResponseTo(result[r])
        /\ \A q \in Requests : q # r => answer'[q] = answer[q]
        /\ IsMap(answer)'
    BY <2>2 DEF AskedInv, ShapeInv, IsMap
  <2>5. /\ IsMap(req)' /\ IsMap(found)' /\ IsMap(result)'
        /\ goal' \in [Requests -> {"target", "index", "page"}]
    BY <2>2 DEF AskedInv, ShapeInv, IsMap
  <2>6. QED
    BY <2>2, <2>3, <2>4, <2>5, AnswerKeepsAsked
<1>3. CASE InnerAnswers(r)
  <2>1. /\ pc' = [pc EXCEPT ![r] = "answered"]
        /\ settings' = settings /\ cache' = cache /\ req' = req /\ goal' = goal
        /\ found' = found /\ result' = result
    BY <1>3 DEF InnerAnswers, Respond, treeVars, searchVars
  <2>0. PICK response \in {InnerAnswer, InnerError} : answer' = [answer EXCEPT ![r] = response]
    BY <1>3 DEF InnerAnswers, Respond
  <2>4. response.by # "directory"
    BY <2>0 DEF InnerAnswer, InnerError
  <2>2. /\ answer'[r].by # "directory"
        /\ \A q \in Requests : q # r => answer'[q] = answer[q]
        /\ IsMap(answer)' /\ IsMap(req)' /\ IsMap(found)' /\ IsMap(result)'
        /\ goal' \in [Requests -> {"target", "index", "page"}]
    BY <2>0, <2>1, <2>4 DEF AskedInv, ShapeInv, IsMap
  <2>3. QED
    BY <2>1, <2>2, AnswerKeepsAsked
<1>4. CASE PassOn(r)
  <2>1. /\ pc[r] = "got" /\ pc' = [pc EXCEPT ![r] = "inner"]
        /\ settings' = settings /\ cache' = cache /\ req' = req /\ goal' = goal
        /\ found' = found /\ result' = result /\ answer' = answer
    BY <1>4 DEF PassOn, treeVars, searchVars
  <2>2. /\ IsMap(answer)' /\ IsMap(req)' /\ IsMap(found)' /\ IsMap(result)'
        /\ goal' \in [Requests -> {"target", "index", "page"}]
        /\ ~ (answer'[r].by = "directory" /\ answer'[r].status = 200)
    BY <2>1 DEF AskedInv, ShapeInv, IsMap, RequestInv
  <2>3. QED
    BY <2>1, <2>2, AnswerKeepsAsked
<1>5. CASE Finish(r) \/ Cancel(r)
  <2>1. Reset(r)
    BY <1>5 DEF Finish, Cancel
  <2>2. /\ pc' = [pc EXCEPT ![r] = "idle"] /\ answer' = [answer EXCEPT ![r] = NoAnswer]
        /\ req' = [req EXCEPT ![r] = NoRequest] /\ goal' = [goal EXCEPT ![r] = "target"]
        /\ found' = [found EXCEPT ![r] = NoResource]
        /\ result' = [result EXCEPT ![r] = Pending]
        /\ settings' = settings /\ cache' = cache
    BY <2>1 DEF Reset, treeVars
  <2>3. /\ answer'[r].by # "directory"
        /\ \A q \in Requests : q # r =>
             /\ req'[q] = req[q] /\ found'[q] = found[q] /\ result'[q] = result[q]
             /\ goal'[q] = goal[q] /\ answer'[q] = answer[q]
        /\ IsMap(answer)' /\ IsMap(req)' /\ IsMap(found)' /\ IsMap(result)'
        /\ goal' \in [Requests -> {"target", "index", "page"}]
    BY <2>2 DEF AskedInv, ShapeInv, IsMap, NoAnswer
  <2>4. QED
    BY <2>2, <2>3, AnswerKeepsAsked
<1>6. QED
  BY <1>1, <1>2, <1>3, <1>4, <1>5 DEF Advance

LEMMA AskedStep == AskedInv /\ [Next]_vars => AskedInv'
<1> SUFFICES ASSUME AskedInv, [Next]_vars PROVE AskedInv'
  OBVIOUS
<1>1. ASSUME NEW r \in Requests, NEW url \in Urls, NEW header \in Headers,
             CallService(r, url, header)
             \/ \E c \in Connections : CallLayer(c, r, url, header)
      PROVE  AskedInv'
  BY <1>1, BeginKeepsAsked DEF CallService, CallLayer
<1>2. ASSUME NEW r \in Requests, Advance(r) \/ Cancel(r) PROVE AskedInv'
  BY <1>2, AdvanceKeepsAsked
<1>3. ASSUME NEW k \in Keys, Evict(k), UNCHANGED answer PROVE AskedInv'
  <2>1. /\ settings' = settings /\ pc' = pc /\ req' = req /\ goal' = goal
        /\ found' = found /\ result' = result /\ answer' = answer
        /\ cache' = [cache EXCEPT ![k] = NoResource]
    BY <1>3 DEF Evict, treeVars, searchVars
  <2>2. ShapeInv' /\ CacheInv'
    BY <2>1 DEF AskedInv, ShapeInv, CacheInv, IsMap, StandsFor
  <2>3. \A r \in Requests : RequestInv(r)'
    BY <2>1 DEF AskedInv, RequestInv, PathOf, StandsFor
  <2>4. QED
    BY <2>2, <2>3 DEF AskedInv
<1>4. ASSUME UNCHANGED <<settings, cache, pc, req, searchVars, result, answer>>
      PROVE  AskedInv'
  BY <1>4 DEF searchVars, AskedInv, ShapeInv, CacheInv, IsMap, RequestInv, PathOf, StandsFor
<1>5. ASSUME NEW c \in Connections, PollReady(c) PROVE AskedInv'
  BY <1>4, <1>5 DEF PollReady, dirVars, treeVars
<1>6. CASE Environment
  <2>1. ASSUME NEW p \in Forms, Change(p) PROVE AskedInv'
    BY <1>4, <1>6, <2>1 DEF Environment, Change
  <2>2. QED
    BY <1>3, <1>6, <2>1 DEF Environment
<1>7. CASE UNCHANGED vars
  BY <1>4, <1>7 DEF vars, dirVars, treeVars
<1>8. QED
  BY <1>1, <1>2, <1>5, <1>6, <1>7 DEF Next

LEMMA AskedHolds == Spec => []AskedInv
<1>1. Init => AskedInv
  BY DEF Init, DirInit, AskedInv, ShapeInv, CacheInv, IsMap, RequestInv, NoAnswer
<1>2. QED
  BY <1>1, AskedStep, PTL DEF Spec

\* A success carries what the URL stands for, whichever requests filled the cache
\* and whatever happened to the files; the not-found page never does.
THEOREM Success == Spec => []SuccessIsWhatWasAsked
<1>1. AskedInv => SuccessIsWhatWasAsked
  BY DEF AskedInv, RequestInv, SuccessIsWhatWasAsked
<1>2. QED
  BY <1>1, AskedHolds, PTL
=============================================================================
