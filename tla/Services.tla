------------------------------- MODULE Services -------------------------------
(***************************************************************************)
(* The front ends of a ServedDir (src/src/integration.rs, and              *)
(* get_response): the services, which answer every request themselves, and *)
(* ServedDirMiddleware, which passes on what the directory does not have.  *)
(*                                                                         *)
(* The wrapped service is taken to limit its concurrency, as Tower's       *)
(* ConcurrencyLimit does: poll_ready takes a permit, which call uses up    *)
(* and which comes back when the handle or the call is over.  A clone of a *)
(* handle has no permit.                                                   *)
(***************************************************************************)
EXTENDS ServedDir

CONSTANTS
    Connections,  \* each owns a ServedDirMiddleware
    Permits       \* concurrency limit of the inner service

\* There are only so many connections and requests at a time.
ASSUME ServicesAssumption ==
    Permits \in Nat \ {0} /\ IsFiniteSet(Connections) /\ IsFiniteSet(Requests)

VARIABLES
    permits,  \* permits that are free
    ready,    \* ready[c]: self.inner of the middleware on c has a permit
    carried,  \* carried[r]: the inner handle in the future of r has a permit
    answer    \* the response to each request

innerVars == <<permits, ready, carried>>
vars == <<dirVars, innerVars, answer>>

NoAnswer == [by |-> "nobody", status |-> 0, resource |-> NoResource]
Answer(status, res) == [by |-> "directory", status |-> status, resource |-> res]
InnerAnswer == [by |-> "inner", status |-> 200, resource |-> NoResource]
InnerError  == [by |-> "inner", status |-> 0, resource |-> NoResource]

\* SerdirError::status_code.
StatusCode(error) ==
    CASE error \in {"not_found", "is_directory"} -> 404
      [] error = "invalid_path"                  -> 400
      [] error = "io"                            -> 500

Init ==
    /\ DirInit
    /\ permits = Permits
    /\ ready   = [c \in Connections |-> FALSE]
    /\ carried = [r \in Requests |-> FALSE]
    /\ answer  = [r \in Requests |-> NoAnswer]

-----------------------------------------------------------------------------
(* A request on its way *)

\* TowerService and HyperService: always ready.
CallService(r, url, header) ==
    /\ ~ settings.layered
    /\ Begin(r, url, header)
    /\ UNCHANGED <<innerVars, answer>>

\* poll_ready of the middleware asks the inner service.  An error of that is the
\* connection's, and leaves nothing behind.
PollReady(c) ==
    /\ settings.layered /\ ~ ready[c] /\ permits > 0
    /\ permits' = permits - 1
    /\ ready'   = [ready EXCEPT ![c] = TRUE]
    /\ UNCHANGED <<dirVars, carried, answer>>

\* Mutant of CallLayer: the future takes the clone and leaves the ready handle.
CallLayerOnClone(c, r, url, header) ==
    /\ settings.layered /\ ready[c]
    /\ Begin(r, url, header)
    /\ UNCHANGED <<innerVars, answer>>

\* call of the middleware, after poll_ready as Tower demands: the future takes
\* the ready handle, a clone takes its place.
CallLayer(c, r, url, header) ==
    /\ settings.layered /\ ready[c]
    /\ Begin(r, url, header)
    /\ ready'   = [ready EXCEPT ![c] = FALSE]
    /\ carried' = [carried EXCEPT ![r] = TRUE]
    /\ UNCHANGED <<permits, answer>>

Get(r) ==
    /\ GetStep(r)
    /\ UNCHANGED <<innerVars, answer>>

-----------------------------------------------------------------------------
(* Answers *)

\* The future of r is over: it drops its inner handle.
Release(r) ==
    /\ permits' = IF carried[r] THEN permits + 1 ELSE permits
    /\ carried' = [carried EXCEPT ![r] = FALSE]
    /\ UNCHANGED ready

Respond(r, response) ==
    /\ pc'     = [pc EXCEPT ![r] = "answered"]
    /\ answer' = [answer EXCEPT ![r] = response]
    /\ Release(r)
    /\ UNCHANGED <<treeVars, cache, req, searchVars, result, lacked>>

\* What get_response makes of a result.
ResponseTo(res) ==
    CASE res.error = "none" -> Answer(200, res.resource)
      [] res.error = "not_found" -> Answer(404, res.resource)
      [] OTHER -> Answer(StatusCode(res.error), NoResource)

GetResponse(r) ==
    /\ pc[r] = "got" /\ ~ settings.layered
    /\ Respond(r, ResponseTo(result[r]))

\* Mutant of Unmatched: every error is passed on.
UnmatchedIfFailed(res) == res.error # "none" /\ res.resource = NoResource

\* What the directory has nothing for.
Unmatched(res) ==
    \/ res = NotFound(NoResource)
    \/ res.error \in {"is_directory", "invalid_path"}

\* Mutant of AnswerOwn: the response keeps the inner handle.
AnswerOwnKeepsHandle(r) ==
    /\ pc[r] = "got" /\ settings.layered /\ ~ Unmatched(result[r])
    /\ pc'     = [pc EXCEPT ![r] = "answered"]
    /\ answer' = [answer EXCEPT ![r] = ResponseTo(result[r])]
    /\ UNCHANGED <<treeVars, cache, req, searchVars, result, lacked, innerVars>>

\* The middleware answers with a resource, or with 500.
AnswerOwn(r) ==
    /\ pc[r] = "got" /\ settings.layered /\ ~ Unmatched(result[r])
    /\ Respond(r, ResponseTo(result[r]))

\* The middleware calls the inner service.
PassOn(r) ==
    /\ pc[r] = "got" /\ settings.layered /\ Unmatched(result[r])
    /\ pc' = [pc EXCEPT ![r] = "inner"]
    /\ UNCHANGED <<treeVars, cache, req, searchVars, result, lacked, innerVars, answer>>

\* The inner service's call ends; an error is the future's own.
InnerAnswers(r) ==
    /\ pc[r] = "inner"
    /\ \E response \in {InnerAnswer, InnerError} : Respond(r, response)

Reset(r) ==
    /\ pc'     = [pc EXCEPT ![r] = "idle"]
    /\ req'    = [req EXCEPT ![r] = NoRequest]
    /\ goal'   = [goal EXCEPT ![r] = "target"]
    /\ todo'   = [todo EXCEPT ![r] = <<>>]
    /\ found'  = [found EXCEPT ![r] = NoResource]
    /\ result' = [result EXCEPT ![r] = Pending]
    /\ lacked' = [lacked EXCEPT ![r] = {}]
    /\ answer' = [answer EXCEPT ![r] = NoAnswer]
    /\ Release(r)
    /\ UNCHANGED <<treeVars, cache>>

\* The server takes the response.
Finish(r) == pc[r] = "answered" /\ Reset(r)

\* The client goes away and the server drops the future.
Cancel(r) == pc[r] \notin {"idle", "answered"} /\ Reset(r)

Advance(r) ==
    \/ Get(r) \/ GetResponse(r) \/ AnswerOwn(r) \/ PassOn(r) \/ InnerAnswers(r) \/ Finish(r)

Environment ==
    /\ \/ \E p \in Forms : Change(p)
       \/ \E k \in Keys : Evict(k)
    /\ UNCHANGED <<innerVars, answer>>

Next ==
    \/ \E r \in Requests, url \in Urls, header \in Headers :
         \/ CallService(r, url, header)
         \/ \E c \in Connections : CallLayer(c, r, url, header)
    \/ \E c \in Connections : PollReady(c)
    \/ \E r \in Requests : Advance(r) \/ Cancel(r)
    \/ Environment

Spec == Init /\ [][Next]_vars

-----------------------------------------------------------------------------
(* Properties *)

\* The types of the state; a search always has something left to try.
TypeOK ==
    /\ settings \in Settings
    /\ tree \in [Forms -> Holdings]
    /\ changes \in 0 .. MaxChanges
    /\ cache \in [Keys -> Resources \cup {NoResource}]
    /\ pc \in [Requests ->
               {"idle", "lookup", "search", "create", "got", "inner", "answered"}]
    /\ req \in [Requests -> [url : Urls, header : Headers] \cup {NoRequest}]
    /\ goal \in [Requests -> {"target", "index", "page"}]
    /\ \A r \in Requests : pc[r] = "search" => todo[r] # <<>>
    /\ found \in [Requests -> Resources \cup {NoResource}]
    /\ result \in [Requests -> Results]
    /\ lacked \in [Requests -> SUBSET Forms]
    /\ ready \in [Connections -> BOOLEAN]
    /\ carried \in [Requests -> BOOLEAN]
    /\ permits \in 0 .. Permits

\* A client gets a file in a coding that its Accept-Encoding header suits, also
\* when another client with another header had the resource cached.
CodingSuits ==
    \A r \in Requests :
        pc[r] = "got" => Suits(req[r].header, result[r].resource.coding)

Lacked(r, p) == p \in lacked[r] \/ p \notin Forms

\* What the documentation agrees on: Brotli and ZStandard before GZip, and the plain
\* file last.  Of the first two, compression.rs:58-61 puts Brotli first, and
\* served_dir.rs:181-183 ZStandard.
Better == {<<"br", "gzip">>, <<"zstd", "gzip">>} \cup {<<c, "identity">> : c \in Compressed}

\* What get reports is what the search met, neither an error handler's choice nor a
\* hasher's file that is missing.
Straight == ~ settings.handler /\ "not_found" \notin settings.hashErrors

\* While files come and go, the search is honest: a worse form is served only if
\* every better one that suits was missing at some time during the request, and
\* a file is reported missing, or replaced by another one, only if it was.
SearchIsHonest ==
    \A r \in Requests : pc[r] = "got" =>
        LET target == Target(req[r].url)
            res    == result[r].resource
        IN  /\ settings.strategy.kind = "static" /\ ~ settings.caching /\ res \in Resources =>
                 \A c \in Detect(req[r].header) \cap settings.strategy.codings :
                     <<c, res.coding>> \in Better => Lacked(r, <<res.path, c>>)
            /\ Straight /\ result[r].error = "not_found" => Lacked(r, Plain(target))
            /\ ~ settings.caching /\ res \in Resources /\ res.path # target =>
                 Lacked(r, Plain(target))

\* The file a URL stands for, its index.html, or what an error handler returned.
StandsFor(url, res) ==
    \/ res.path \in {Target(url), IndexOf(Target(url))}
    \/ res = Fallback /\ settings.handler

\* A success carries the file that was asked for, or its index.html; the page for
\* missing files comes with an error, even after other requests for the same URL
\* have been answered with it and the cache has been filled.
SuccessIsWhatWasAsked ==
    \A r \in Requests : answer[r].by = "directory" /\ answer[r].status = 200 =>
        StandsFor(req[r].url, answer[r].resource)

\* The inner service is called only on a handle that is ready.  Tower's services
\* may panic otherwise, and their limits would not hold.
InnerIsReady == \A r \in Requests : pc[r] = "inner" => carried[r]

\* The inner service gets only what the directory does not have: never a request
\* for a file that was there all the time, even if serving it failed.
InnerGetsTheRest ==
    \A r \in Requests : Straight /\ pc[r] = "inner" =>
        Invalid(req[r].url) \/ Lacked(r, Plain(Target(req[r].url)))

\* Backpressure ends with the request: a permit that is not free belongs to a
\* connection that is ready or to one request that is still under way, whether it
\* is answered from the directory, passed on, or dropped.
PermitsComeBack ==
    /\ permits + Cardinality({c \in Connections : ready[c]})
               + Cardinality({r \in Requests : carried[r]}) = Permits
    /\ \A r \in Requests : carried[r] => pc[r] \notin {"idle", "answered"}

\* How far a search is from its end, at most.
Left(r) ==
    IF pc[r] # "search" THEN 0
    ELSE Len(todo[r]) + IF goal[r] = "target" THEN Len(SiblingOrder) + 1 ELSE 0

\* No file is searched for over and over, whatever comes and goes under the
\* search: each of its steps brings it closer to its end.
SearchShrinks ==
    [][\A r \in Requests :
         pc[r] = "search" => Left(r)' < Left(r) \/ UNCHANGED <<pc[r], goal[r], todo[r]>>]_vars

\* The documentation says of the middleware that it "delegates unmatched requests
\* to an inner service" (served_dir.rs:391-392).  As long as every file can be read
\* and hashed, none is compressed and no handler makes errors, it should have no
\* server error to report.
UnmatchedIsDelegated ==
    /\ \A p \in Forms : "unreadable" \notin MayHold[p]
    /\ "io" \notin settings.hashErrors /\ ~ settings.handler
    /\ settings.layered /\ settings.strategy.kind # "cached"
    => \A r \in Requests : answer[r].status # 500

TypeOfPage == TypeFor(ExtensionOf[settings.page[Len(settings.page)]])

\* not_found_path sets "a path to a file to serve for 404 Not Found errors", and "the
\* extension of the file will be used to determine the content type of all 404
\* responses" (served_dir.rs:634-638): those for directories too, and those that carry
\* a compressed form of the page, as long as the page is there.
PageKeepsItsType ==
    \A r \in Requests :
        /\ Straight /\ settings.page # NoPage /\ ~ Lacked(r, Plain(settings.page))
        /\ answer[r].by = "directory" /\ answer[r].status = 404
        => answer[r].resource.path = settings.page /\ ContentType(answer[r].resource) = TypeOfPage
=============================================================================
