---------------------------- MODULE ErrorsProofs ----------------------------
(***************************************************************************)
(* Proofs about the error responses of Services: how far the two           *)
(* disagreements go that the violation runs show, for any URLs, headers,   *)
(* settings and trees.                                                     *)
(***************************************************************************)
EXTENDS SearchProofs

-----------------------------------------------------------------------------
(* What is proved *)

\* The paths that resolve may look for, for a URL.
Ways(url) == {Target(url), IndexOf(Target(url)), settings.page}

\* A name in the path, before the last, that may be a file.
Below(path) ==
    \E n \in 1 .. Len(path) - 1 :
        /\ Plain(SubSeq(path, 1, n)) \in Forms
        /\ "file" \in MayHold[Plain(SubSeq(path, 1, n))]

\* Nothing but the paths and the compression can make a server error.
Readable ==
    /\ \A p \in Forms : "unreadable" \notin MayHold[p]
    /\ "io" \notin settings.hashErrors /\ ~ settings.handler

\* A 404 with a file is the not-found page, whoever filled the cache with what; and
\* it has the content type of that page but for a sibling under static compression.
OnlySiblingsLoseTheType ==
    \A r \in Requests : answer[r].status = 404 /\ answer[r].resource \in Resources =>
        /\ answer[r].resource.path = settings.page
        /\ \/ ContentType(answer[r].resource) = TypeOfPage
           \/ IsStatic /\ answer[r].resource.coding \in Compressed

\* If every file can be read and hashed, and no error handler decides, a request fails with 500 only if a path that is looked
\* for leads through something that may be a file, or if files are compressed at
\* runtime and the client accepts that.
OnlyPathsBelowFilesFail ==
    Readable => \A r \in Requests :
        answer[r].status = 500 =>
            \/ \E path \in Ways(req[r].url) : Below(path)
            \/ IsCached /\ "br" \in Accepted(r)

-----------------------------------------------------------------------------
(* Opening *)

\* An open ends with an I/O error only below a file, or at what cannot be read.
LEMMA IoErrors ==
    ASSUME Types, Readable, NEW path, NEW coding, Status(<<path, coding>>) = "io"
    PROVE  Below(path)
<1> DEFINE p     == <<path, coding>>
           Up(n) == Plain(SubSeq(path, 1, n))
           above == {n \in 1 .. Len(path) - 1 : Holding(tree, Up(n)) # "directory"}
           first == CHOOSE n \in above : \A m \in above : n <= m
           blocker == IF above = {} THEN Holding(tree, p) ELSE Holding(tree, Up(first))
<1>1. /\ blocker # "absent"
      /\ ~ (blocker = "file" /\ above = {})
      /\ ~ (blocker = "directory" /\ above = {})
  BY DEF Status, StatusIn
<1>2. \A q : Holding(tree, q) \in Holdings \ {"unreadable"}
  <2> TAKE q
  <2>1. CASE q \in Forms
    BY <2>1, ServedDirAssumption DEF Types, Holding, Readable
  <2>2. CASE q \notin Forms BY <2>2 DEF Holding, Holdings
  <2> QED BY <2>1, <2>2
<1>3. above # {} BY <1>1, <1>2 DEF Holdings
<1>4. first \in above
  <2>1. above \in SUBSET Nat OBVIOUS
  <2>2. \E n \in above : \A m \in above : n <= m BY <1>3, <2>1, Least
  <2> QED BY <2>2
<1>5. Holding(tree, Up(first)) = "file"
  BY <1>1, <1>2, <1>3, <1>4 DEF Holdings
<1>6. Up(first) \in Forms /\ tree[Up(first)] = "file"
  BY <1>5 DEF Holding
<1>7. "file" \in MayHold[Up(first)] BY <1>6 DEF Types
<1> QED BY <1>4, <1>6, <1>7 DEF Below

LEMMA PathIsWay ==
    ASSUME Types, NEW r \in Requests PROVE PathOf(r) \in Ways(req[r].url)
BY DEF Types, PathOf, Ways

-----------------------------------------------------------------------------
(* The invariant *)

MayFail(r) ==
    \/ \E path \in Ways(req[r].url) : Below(path)
    \/ IsCached /\ "br" \in Accepted(r)

MissingPaths == {NoResource.path, Fallback.path, settings.page}

\* What is known of an error: what a missing file is answered with, and why
\* anything else failed.
Explained(r, res) ==
    /\ res.error = "not_found" => res.resource.path \in MissingPaths
    /\ res.error = "io" /\ Readable => MayFail(r)

ErrorInv(r) ==
    /\ pc[r] = "got" => Explained(r, result[r])
    /\ pc[r] = "answered" =>
         /\ answer[r].status = 404 => answer[r].resource.path \in MissingPaths
         /\ answer[r].status = 500 /\ Readable => MayFail(r)
    /\ pc[r] # "answered" => answer[r] = NoAnswer

ErrorsInv == \A r \in Requests : ErrorInv(r)

LEMMA UntouchedKeeps ==
    ASSUME NEW q \in Requests, ErrorInv(q), settings' = settings,
           UNCHANGED <<pc[q], req[q], result[q], answer[q]>>
    PROVE  ErrorInv(q)'
<1>1. MayFail(q)' = MayFail(q) /\ Readable' = Readable /\ MissingPaths' = MissingPaths
  BY DEF MayFail, Ways, IsCached, Accepted, Readable, MissingPaths
<1> QED BY <1>1 DEF ErrorInv, Explained

\* The error of a handler is its own.
LEMMA HandledIsExplained ==
    ASSUME NEW r \in Requests, NEW res, Explained(r, res), res.error \in ErrorKinds,
           NEW h \in Handled(res)
    PROVE  Explained(r, h)
<1>1. CASE h = res BY <1>1
<1>2. CASE h # res
  <2>1. settings.handler /\ h.resource \in {NoResource, Fallback}
    BY <1>2, HandledIs
  <2> QED BY <2>1 DEF Explained, MissingPaths, Readable
<1> QED BY <1>1, <1>2

LEMMA ReturnExplains ==
    ASSUME NEW r \in Requests, SearchInv, ErrorsInv, NEW res, Return(r, res), Explained(r, res),
           res.error \in ErrorKinds, pc[r] # "answered", UNCHANGED answer
    PROVE  ErrorInv(r)'
<1>0. PICK h \in Handled(res) : result' = [result EXCEPT ![r] = h]
  BY DEF Return
<1>1. /\ pc' = [pc EXCEPT ![r] = "got"] /\ result' = [result EXCEPT ![r] = h]
      /\ req' = req /\ settings' = settings
  BY <1>0 DEF Return, treeVars
<1>2. Explained(r, h) BY <1>0, HandledIsExplained
<1>3. pc'[r] = "got" /\ result'[r] = h
  BY <1>1 DEF SearchInv, AskedInv, ShapeInv, IsMap
<1>4. MayFail(r)' = MayFail(r) /\ Readable' = Readable /\ MissingPaths' = MissingPaths
  BY <1>1 DEF MayFail, Ways, IsCached, Accepted, Readable, MissingPaths
<1> QED BY <1>1, <1>2, <1>3, <1>4 DEF ErrorsInv, ErrorInv, Explained

\* What get returns.
LEMMA GetExplains ==
    ASSUME NEW r \in Requests, SearchInv, ErrorsInv, GetStep(r), UNCHANGED answer
    PROVE  ErrorInv(r)'
<1>1. /\ Types /\ AskedInv /\ Progress(r) /\ ErrorInv(r)
      /\ settings' = settings /\ pc[r] \in {"lookup", "search", "create"}
  BY GetMoves DEF SearchInv, ErrorsInv, AskedInv, ShapeInv, IsMap
<1>2. ASSUME NEW res, Return(r, res), Explained(r, res), res.error \in ErrorKinds
      PROVE  ErrorInv(r)'
  BY <1>1, <1>2, ReturnExplains
<1>3. CASE Hit(r) \/ Create(r)
  <2>1. PICK file : Return(r, Ok(file)) BY <1>3 DEF Hit, Create
  <2>2. Explained(r, Ok(file)) /\ Ok(file).error \in ErrorKinds
    BY DEF Explained, Ok, ErrorKinds
  <2> QED BY <1>2, <2>1, <2>2
<1>4. CASE SearchFails(r)
  <2> DEFINE error == Failing(r)
  <2>1. error # "none" /\ Return(r, Err(error)) BY <1>4 DEF SearchFails
  <2>2. /\ pc[r] = "search"
        /\ error = Status(FormOf(PathOf(r), Head(todo[r])))
    BY <2>1 DEF Failing
  <2>3. ASSUME error = "io", Readable PROVE MayFail(r)
    <3>1. PICK coding : FormOf(PathOf(r), Head(todo[r])) = <<PathOf(r), coding>>
      BY DEF FormOf, Plain
    <3>2. Below(PathOf(r)) BY <1>1, <2>2, <2>3, <3>1, IoErrors
    <3> QED BY <1>1, <3>2, PathIsWay DEF MayFail
  <2> HIDE DEF error
  <2>4. Explained(r, Err(error)) BY <2>3 DEF Explained, Err, MissingPaths
  <2>5. Err(error).error \in ErrorKinds BY FailingValues DEF Err, error
  <2> QED BY <1>2, <2>1, <2>4, <2>5
<1>5. CASE CreatePage(r)
  <2>1. pc[r] = "create" /\ goal[r] = "page" /\ Return(r, NotFound(found[r]))
    BY <1>5 DEF CreatePage
  <2>2. found[r].path = settings.page
    BY <1>1, <2>1 DEF AskedInv, RequestInv, PathOf
  <2>3. Explained(r, NotFound(found[r])) /\ NotFound(found[r]).error \in ErrorKinds
    BY <2>2 DEF Explained, NotFound, MissingPaths, ErrorKinds
  <2> QED BY <1>2, <2>1, <2>3
<1>6. CASE CreateFails(r)
  <2>1. PICK kind \in settings.hashErrors : Return(r, Err(kind)) BY <1>6 DEF CreateFails
  <2>2. Err(kind).error = kind /\ Err(kind).resource = NoResource BY DEF Err
  <2>3. Explained(r, Err(kind)) BY <2>2 DEF Explained, Readable, MissingPaths
  <2>4. kind \in ErrorKinds BY <1>1, ServedDirAssumption DEF Types, ErrorKinds
  <2> QED BY <1>2, <2>1, <2>2, <2>3, <2>4
<1>9. CASE CompressionFails(r)
  <2>1. pc[r] = "search" /\ Head(todo[r]) = "runtime" /\ Return(r, Err("io"))
    BY <1>9 DEF CompressionFails
  <2>2. Trying(r) BY <1>1, <2>1 DEF Progress
  <2>3. 1 \in 1 .. Len(todo[r]) /\ todo[r][1] = "runtime"
    BY <2>1, <2>2 DEF Trying, Shape
  <2>4. IsCached /\ "br" \in Accepted(r)
    BY <2>2, <2>3 DEF Trying, Shape, Ordered
  <2>5. Explained(r, Err("io")) /\ Err("io").error \in ErrorKinds
    BY <2>4 DEF Explained, Err, MayFail, ErrorKinds
  <2> QED BY <1>2, <2>1, <2>5
<1>7. ASSUME pc'[r] \in {"search", "create"} PROVE ErrorInv(r)'
  BY <1>1, <1>7 DEF ErrorInv
<1>8. CASE Miss(r) \/ Open(r) \/ SkipSibling(r) \/ TryIndex(r) \/ TryPage(r)
  BY <1>1, <1>7, <1>8 DEF Miss, Open, SkipSibling, TryIndex, TryPage, Search, Types
<1> QED BY <1>3, <1>4, <1>5, <1>6, <1>8, <1>9 DEF GetStep

LEMMA BeginExplains ==
    ASSUME NEW r \in Requests, NEW url, NEW header, SearchInv, ErrorsInv, Begin(r, url, header),
           UNCHANGED answer
    PROVE  ErrorsInv'
<1>1. Types /\ \A q \in Requests : ErrorInv(q) BY DEF SearchInv, ErrorsInv
<1>2. /\ pc[r] = "idle" /\ settings' = settings
      /\ req' = [req EXCEPT ![r] = [url |-> url, header |-> header]]
      /\ \/ result' = result /\ \E to \in {"lookup", "search"} : pc' = [pc EXCEPT ![r] = to]
         \/ /\ pc' = [pc EXCEPT ![r] = "got"]
            /\ \E h \in Handled(Err("invalid_path")) : result' = [result EXCEPT ![r] = h]
  BY DEF Begin, Search, treeVars
<1>3. ASSUME NEW q \in Requests, q # r PROVE ErrorInv(q)'
  <2>1. UNCHANGED <<pc[q], req[q], result[q], answer[q]>> BY <1>1, <1>2, <1>3 DEF Types
  <2> QED BY <1>1, <1>2, <2>1, UntouchedKeeps
<1>4. ErrorInv(r)'
  <2>1. answer'[r] = NoAnswer /\ pc'[r] # "answered" BY <1>1, <1>2 DEF ErrorInv, Types
  <2>2. CASE pc'[r] # "got" BY <2>1, <2>2 DEF ErrorInv
  <2>3. CASE pc'[r] = "got"
    <3>1. PICK h \in Handled(Err("invalid_path")) : result'[r] = h
      BY <1>1, <1>2, <2>3 DEF Types
    <3>2. Err("invalid_path").error = "invalid_path" BY DEF Err
    <3>3. CASE h = Err("invalid_path")
      BY <2>1, <3>1, <3>2, <3>3 DEF ErrorInv, Explained
    <3>4. CASE h # Err("invalid_path")
      <4>1. settings'.handler /\ h.resource \in {NoResource, Fallback}
        BY <1>2, <3>1, <3>2, <3>4, HandledIs DEF ErrorKinds
      <4> QED BY <2>1, <3>1, <4>1 DEF ErrorInv, Explained, Readable, MissingPaths
    <3> QED BY <3>3, <3>4
  <2> QED BY <2>2, <2>3
<1> QED BY <1>3, <1>4 DEF ErrorsInv

\* A response is what get_response makes of the result, or the inner service's.
LEMMA FaultResponse ==
    ASSUME NEW res, res.error \in ErrorKinds, ResponseTo(res).status = 500
    PROVE  res.error = "io"
<1>1. res.error = "none" => ResponseTo(res) = Answer(200, res.resource)
  BY DEF ResponseTo
<1>2. res.error = "not_found" => ResponseTo(res) = Answer(404, res.resource)
  BY DEF ResponseTo
<1>3. res.error \in {"is_directory", "invalid_path", "io"} =>
        ResponseTo(res) = Answer(StatusCode(res.error), NoResource)
  BY DEF ResponseTo
<1>4. StatusCode("invalid_path") = 400 /\ StatusCode("is_directory") = 404
  BY DEF StatusCode
<1> QED BY <1>1, <1>2, <1>3, <1>4 DEF Answer, ErrorKinds

LEMMA DirectoryResponse ==
    ASSUME NEW res, res.error = "is_directory" PROVE ResponseTo(res).resource = NoResource
BY DEF ResponseTo, Answer

LEMMA AdvanceExplains ==
    ASSUME NEW r \in Requests, SearchInv, ErrorsInv, Advance(r) \/ Cancel(r)
    PROVE  ErrorsInv'
<1>1. Types /\ AskedInv /\ ErrorInv(r) /\ \A q \in Requests : ErrorInv(q)
  BY DEF SearchInv, ErrorsInv
<1>2. ASSUME NEW q \in Requests, q # r PROVE ErrorInv(q)'
  <2>1. settings' = settings /\ Same(q) BY <1>1, <1>2, AdvanceIsAlone DEF Alone
  <2> QED BY <1>1, <2>1, UntouchedKeeps DEF Same
<1> SUFFICES ErrorInv(r)' BY <1>2 DEF ErrorsInv
<1>3. CASE Get(r)
  BY <1>3, GetExplains DEF Get
<1>4. ASSUME NEW response, Respond(r, response),
             response.status = 404 => response.resource.path \in MissingPaths,
             response.status = 500 /\ Readable => MayFail(r)
      PROVE  ErrorInv(r)'
  <2>1. /\ pc' = [pc EXCEPT ![r] = "answered"] /\ answer' = [answer EXCEPT ![r] = response]
        /\ settings' = settings /\ req' = req
    BY <1>4 DEF Respond, treeVars
  <2>2. pc'[r] = "answered" /\ answer'[r] = response
    BY <1>1, <2>1 DEF AskedInv, ShapeInv, IsMap
  <2>3. MayFail(r)' = MayFail(r) /\ Readable' = Readable /\ MissingPaths' = MissingPaths
    BY <2>1 DEF MayFail, Ways, IsCached, Accepted, Readable, MissingPaths
  <2> QED BY <1>4, <2>1, <2>2, <2>3 DEF ErrorInv
<1>5. CASE GetResponse(r) \/ AnswerOwn(r)
  <2> DEFINE response == ResponseTo(result[r])
  <2>1. pc[r] = "got" /\ Respond(r, response) BY <1>5 DEF GetResponse, AnswerOwn
  <2>2. result[r].error \in ErrorKinds /\ Explained(r, result[r])
    BY <1>1, <2>1 DEF AskedInv, RequestInv, ErrorInv
  <2>3. response.status = 500 => result[r].error = "io" BY <2>2, FaultResponse
  <2>4. response.status = 404 => response.resource.path \in MissingPaths
    BY <2>2, MissingResponse, DirectoryResponse DEF Explained, MissingPaths
  <2> HIDE DEF response
  <2> QED BY <1>4, <2>1, <2>2, <2>3, <2>4 DEF Explained
<1>6. CASE InnerAnswers(r)
  <2>1. PICK response \in {InnerAnswer, InnerError} : Respond(r, response)
    BY <1>6 DEF InnerAnswers
  <2>2. response.status \notin {404, 500} BY <2>1 DEF InnerAnswer, InnerError
  <2> QED BY <1>4, <2>1, <2>2
<1>7. CASE PassOn(r)
  <2>1. pc[r] = "got" /\ pc'[r] = "inner" /\ answer' = answer
    BY <1>1, <1>7 DEF PassOn, Types
  <2> QED BY <1>1, <2>1 DEF ErrorInv
<1>8. CASE Finish(r) \/ Cancel(r)
  <2>1. pc'[r] = "idle" /\ answer'[r] = NoAnswer
    BY <1>1, <1>8 DEF Finish, Cancel, Reset, AskedInv, ShapeInv, IsMap
  <2> QED BY <2>1 DEF ErrorInv
<1> QED BY <1>3, <1>5, <1>6, <1>7, <1>8 DEF Advance

LEMMA ErrorsHold == Spec => []ErrorsInv
<1>1. Init => ErrorsInv
  BY DEF Init, DirInit, ErrorsInv, ErrorInv
<1>2. ASSUME SearchInv, ErrorsInv, [Next]_vars PROVE ErrorsInv'
  <2>1. ASSUME NEW r \in Requests, NEW url \in Urls, NEW header \in Headers,
               CallService(r, url, header)
               \/ \E c \in Connections : CallLayer(c, r, url, header)
        PROVE  ErrorsInv'
    BY <1>2, <2>1, BeginExplains DEF CallService, CallLayer
  <2>2. ASSUME NEW r \in Requests, Advance(r) \/ Cancel(r) PROVE ErrorsInv'
    BY <1>2, <2>2, AdvanceExplains
  <2>3. ASSUME UNCHANGED <<settings, pc, req, result, answer>> PROVE ErrorsInv'
    BY <1>2, <2>3, UntouchedKeeps DEF ErrorsInv
  <2>4. ASSUME NEW c \in Connections, PollReady(c) PROVE ErrorsInv'
    BY <2>3, <2>4 DEF PollReady, dirVars, treeVars
  <2>5. CASE Environment
    <3>1. UNCHANGED <<settings, pc, req, result, answer>>
      BY <2>5 DEF Environment, Change, Evict, treeVars
    <3> QED BY <2>3, <3>1
  <2>6. CASE UNCHANGED vars
    BY <2>3, <2>6 DEF vars, dirVars, treeVars
  <2> QED BY <1>2, <2>1, <2>2, <2>4, <2>5, <2>6 DEF Next
<1> QED BY <1>1, <1>2, SearchHolds, PTL DEF Spec

-----------------------------------------------------------------------------
(* The theorems *)

\* A 404 with a file is the not-found page, never a file that was found for another
\* URL; only siblings of the page come with another content type than it has
\* (served_dir.rs:243-249, compression.rs:542-566).
THEOREM PageType == Spec => []OnlySiblingsLoseTheType
<1>1. ErrorsInv /\ SearchInv => OnlySiblingsLoseTheType
  <2> SUFFICES ASSUME ErrorsInv, SearchInv, NEW r \in Requests,
                      answer[r].status = 404, answer[r].resource \in Resources
               PROVE  /\ answer[r].resource.path = settings.page
                      /\ \/ ContentType(answer[r].resource) = TypeOfPage
                         \/ IsStatic /\ answer[r].resource.coding \in Compressed
    BY DEF OnlySiblingsLoseTheType
  <2>1. answer[r].resource.path \in MissingPaths
    BY DEF ErrorsInv, ErrorInv, NoAnswer
  <2>2. answer[r].resource.path = settings.page
    BY <2>1, NamesAssumption DEF Resources, MissingPaths
  <2>3. ASSUME ~ (IsStatic /\ answer[r].resource.coding \in Compressed)
        PROVE  Extension(answer[r].resource) = ExtensionOf[settings.page[Len(settings.page)]]
    BY <2>2, <2>3 DEF Extension, IsStatic
  <2> QED BY <2>2, <2>3 DEF ContentType, TypeOfPage
<1> QED BY <1>1, ErrorsHold, SearchHolds, PTL

\* Nothing that can be read makes the server fail, but for a path that leads through
\* a file, the ENOTDIR that try_path takes for a fault (compression.rs:563-564), and for
\* a compression at runtime that fails (530-535).
THEOREM Faults == Spec => []OnlyPathsBelowFilesFail
<1>1. ErrorsInv => OnlyPathsBelowFilesFail
  <2> SUFFICES ASSUME ErrorsInv, Readable, NEW r \in Requests, answer[r].status = 500
               PROVE  MayFail(r)
    BY DEF OnlyPathsBelowFilesFail, MayFail
  <2> QED BY DEF ErrorsInv, ErrorInv, NoAnswer
<1> QED BY <1>1, ErrorsHold, PTL
=============================================================================
