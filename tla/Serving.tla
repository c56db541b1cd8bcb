------------------------------- MODULE Serving -------------------------------
(***************************************************************************)
(* Conditional and range requests: ServedDir::get_response opens the file  *)
(* of the request (src/src/served_dir.rs), gives it an ETag (calculate_etag*)
(* and EtagCache, src/src/etag.rs) and answers (serve, src/src/serving.rs),*)
(* while the served tree changes between the requests of clients that keep *)
(* a copy, fetch it piece by piece and revalidate it.                      *)
(*                                                                         *)
(*   a request:  idle -> sent -> hash -> serve -> answered -> idle         *)
(*                          \---- (etag cached) --^                        *)
(*                                                                         *)
(* A representation is a version of a path in a content coding.  Content   *)
(* hashes are taken to be injective, so that a representation stands for   *)
(* its own hash.                                                           *)
(***************************************************************************)
EXTENDS FileTree, Ranges, FiniteSets

Maps == INSTANCE Functions

CONSTANTS
    Clients,
    Asking,       \* the paths that are asked for
    NotFoundPath, \* not_found_path, or NoPath
    Encodings,    \* codings find_file may pick for a client
    EncodedLen,   \* EncodedLen[e][v]: length of version v in coding e
    HashedAtEnd,  \* codings whose file's cursor is at its end when it is hashed
    Unhashed,     \* representations for which the file_hasher returns None
    EtagCapacity, \* CACHE_SIZE
    TicksPerSec,  \* resolution of modification times below a second
    Times,        \* what SystemTime::now() may say
    PartEstimate, \* bytes serve allows for the header of each part
    RangeHeaders  \* Range headers that clients send

NoPath == "none"

Reps   == [path : Paths, encoding : Encodings, version : Versions]
NoRep  == [path |-> NoPath, encoding |-> "none", version |-> Absent]
RepLen(rep) == EncodedLen[rep.encoding][rep.version]

ASSUME ServingAssumption ==
    /\ Asking \subseteq Paths
    /\ NotFoundPath \in Paths \cup {NoPath}
    /\ EncodedLen \in [Encodings -> [Versions -> Nat]]
    /\ HashedAtEnd \subseteq Encodings
    /\ Unhashed \subseteq Reps
    /\ EtagCapacity \in Nat \ {0}
    /\ TicksPerSec \in Nat \ {0}
    /\ Times \subseteq Nat /\ Times # {}
    /\ PartEstimate \in Nat
    /\ RangeHeaders \subseteq Seq(Specs(0 .. U64 - 1))

VARIABLES
    etags,   \* etags[k]: the ETag cached for file info k, or NotCached
    pc,      \* where the request of each client is
    req,     \* its method and headers
    opened,  \* the representation it is answered from
    missing, \* is that the not-found page?
    etag,    \* its ETag, once known
    resp,    \* the response
    copy     \* what each client has kept

requestVars == <<pc, req, opened, missing, etag, resp>>
vars == <<treeVars, etags, requestVars, copy>>

\* Tags: the hash of a representation, of no bytes at all, or none.
EmptyTag  == [path |-> "", encoding |-> "none", version |-> Absent]
NoTag     == [path |-> NoPath, encoding |-> "none", version |-> Absent]
NotCached == [path |-> "not cached", encoding |-> "none", version |-> Absent]
Tags      == Reps \cup {EmptyTag, NoTag}

\* The key of the ETag cache: every coding of a path is a file of its own.
EtagKey(rep) == [file |-> FileInfo(rep.path, rep.version), encoding |-> rep.encoding]
EtagKeys == [file : FileInfos, encoding : Encodings]

\* file_hasher reads the file from where its cursor is.
Hash(rep) ==
    IF rep \in Unhashed THEN NoTag
    ELSE IF rep.encoding \in HashedAtEnd THEN EmptyTag ELSE rep

-----------------------------------------------------------------------------
(* Request headers.  Seconds stand for dates.                              *)

NoDate  == -1
BadDate == -2
Seconds(rep) == MtimeOf[rep.version] \div TicksPerSec

Token(weak, tag) == [weak |-> weak, tag |-> tag]

\* Last-Modified is clamped to the time of the response: a modification time in the
\* future is not handed out.
LastModified(rep, now) ==
    (IF MtimeOf[rep.version] < now THEN MtimeOf[rep.version] ELSE now) \div TicksPerSec

\* If-Match, If-None-Match and If-Range: absent, "*", a list of tags, a list that
\* breaks off after its tags, or a date.
Absence      == [form |-> "absent", tokens |-> {}]
AnyTag       == [form |-> "any", tokens |-> {}]
List(tokens) == [form |-> "list", tokens |-> tokens]
Corrupt      == [form |-> "corrupt", tokens |-> {}]
ADate        == [form |-> "date", tokens |-> {}]

Plain == [method |-> "GET", range |-> NoHeader, if_range |-> Absence,
          if_match |-> Absence, if_none_match |-> Absence,
          modified_since |-> NoDate, unmodified_since |-> NoDate]

\* Mutant of WeakEq: the W/ prefix is not stripped.
WeakEqWithPrefix(t, tag) == ~ t.weak /\ t.tag = tag

\* weak_eq and strong_eq.
WeakEq(t, tag) == t.tag = tag
StrongEq(t, tag) == ~ t.weak /\ t.tag = tag

\* any_match.  The list is read only if the resource has an ETag.
AnyMatch(h, tag) ==
    IF h.form \in {"absent", "any"} THEN "match"
    ELSE IF tag = NoTag THEN "no_match"
    ELSE IF h.form = "corrupt" THEN "error"
    ELSE IF \E t \in h.tokens : StrongEq(t, tag) THEN "match" ELSE "no_match"

\* none_match.
NoneMatch(h, tag) ==
    IF h.form = "absent" \/ (h.form = "corrupt" /\ tag # NoTag) THEN "ignored"
    ELSE IF h.form = "any" THEN "match"
    ELSE IF tag # NoTag /\ \E t \in h.tokens : WeakEq(t, tag) THEN "match"
    ELSE "no_match"

-----------------------------------------------------------------------------
(* serve                                                                   *)

\* parse_modified_hdrs, its first half: does a precondition fail?
PreconditionFailed(r, tag, seconds) ==
    LET match == AnyMatch(r.if_match, tag) IN
    IF match # "match" THEN (IF match = "error" THEN "error" ELSE "yes")
    ELSE IF r.unmodified_since = BadDate THEN "error"
    ELSE IF r.unmodified_since # NoDate /\ seconds > r.unmodified_since THEN "yes" ELSE "no"

\* Mutant of NotModified: If-Modified-Since counts even if no ETag matches.
NotModifiedByDate(r, tag, seconds) ==
    IF NoneMatch(r.if_none_match, tag) = "match" THEN "yes"
    ELSE IF r.modified_since = BadDate THEN "error"
    ELSE IF r.modified_since # NoDate /\ seconds <= r.modified_since THEN "yes" ELSE "no"

\* Its second half: is the client's copy current?
NotModified(r, tag, seconds) ==
    LET match == NoneMatch(r.if_none_match, tag) IN
    IF match # "ignored" THEN (IF match = "match" THEN "yes" ELSE "no")
    ELSE IF r.modified_since = BadDate THEN "error"
    ELSE IF r.modified_since # NoDate /\ seconds <= r.modified_since THEN "yes" ELSE "no"

\* Mutant of RangeHeader: If-Range is not looked at.
RangeHeaderAlways(r, tag) == r.range

\* The Range header, unless If-Range says to ignore it: it never matches a date.
RangeHeader(r, tag) ==
    IF r.if_range.form = "absent" THEN r.range
    ELSE IF tag # NoTag /\ \E t \in r.if_range.tokens : StrongEq(t, tag) THEN r.range
    ELSE NoHeader

\* Several ranges are served only if that is shorter than the whole.
Estimate(ranges) ==
    Maps!FoldFunction(LAMBDA r, sum : sum + PartEstimate + (r.end - r.start), 0, ranges)

\* A response: its status, the ranges its body holds and its ETag header.
Answer(status, spans, tag) == [status |-> status, spans |-> spans, tag |-> tag]
NoAnswer == Answer(0, << >>, NoTag)

\* serve.  The guards are in the order of the code; what fails is answered with
\* a body that holds nothing of the file, as is a HEAD request.
Response(rep, r, tag, status_code) ==
    LET len    == RepLen(rep)
        failed == PreconditionFailed(r, tag, Seconds(rep))
        same   == NotModified(r, tag, Seconds(rep))
        range  == Resolve(RangeHeader(r, tag), len)
        Body(spans) == IF r.method = "HEAD" THEN << >> ELSE spans
    IN  IF r.method \notin {"GET", "HEAD"} THEN Answer(405, << >>, NoTag)
        ELSE IF "error" \in {failed, same} THEN Answer(400, << >>, NoTag)
        ELSE IF failed = "yes" THEN Answer(412, << >>, tag)
        ELSE IF same = "yes" THEN Answer(304, << >>, tag)
        ELSE IF range.kind = "not_satisfiable" THEN Answer(416, << >>, tag)
        ELSE IF range.kind = "ranges" /\ (Cardinality(DOMAIN range.ranges) = 1 \/ Estimate(range.ranges) < len)
          THEN Answer(206, Body(range.ranges), tag)
        ELSE Answer(status_code, Body(<<Span(0, len)>>), tag)

-----------------------------------------------------------------------------
(* A client: what it keeps and what it asks.                               *)

NoCopy == [have |-> {}, tag |-> NoTag, since |-> NoDate]

\* The positions that a body holds.
Served(spans) == UNION {Bytes(spans[i]) : i \in DOMAIN spans}

\* The positions and the representations of the bytes in a copy.
Held(kept)    == {x[1] : x \in kept.have}
Origins(kept) == {x[2] : x \in kept.have}

\* Where the first gap of a copy starts.
Gap(kept) ==
    {n \in {0} \cup {m + 1 : m \in Held(kept)} :
        n \notin Held(kept) /\ \A m \in 0 .. n - 1 : m \in Held(kept)}

\* A first fetch, or one of a part the client is interested in.
Fetch(method, range) == [Plain EXCEPT !.method = method, !.range = range]
Fetches ==
    {Fetch(m, h) : m \in {"GET", "HEAD", "POST"}, h \in RangeHeaders \cup {NoHeader}}

\* The tag of the copy, which a proxy may have weakened.
StrongTag(kept) == List({Token(FALSE, kept.tag)})
WeakTag(kept)   == List({Token(TRUE, kept.tag)})
CopyTag(kept)   == {StrongTag(kept), WeakTag(kept)}

\* The rest of a copy whose transfer broke off; without a tag the client sends the
\* date.
Resumption(n, condition) ==
    [Plain EXCEPT !.range = <<[form |-> "first-", first |-> n, last |-> 0]>>,
                  !.if_range = condition]
Resumptions(kept) ==
    IF kept.tag = NoTag THEN {Resumption(n, ADate) : n \in Gap(kept)}
    ELSE {Resumption(n, h) : n \in Gap(kept), h \in CopyTag(kept)}

\* Is the copy still current?
Revalidation(condition, seconds) ==
    [Plain EXCEPT !.if_none_match = condition, !.modified_since = seconds]
Revalidations(kept) ==
    IF kept.tag = NoTag THEN {Revalidation(Absence, kept.since)}
    ELSE {Revalidation(h, kept.since) : h \in CopyTag(kept)}

\* More of the copy, but only if it is still current, which the client may ask by the
\* tag alone or by the date as well.
GuardedFetch(condition, seconds, range) ==
    [Plain EXCEPT !.if_match = condition, !.unmodified_since = seconds, !.range = range]
GuardedFetches(kept) ==
    IF kept.tag = NoTag THEN {}
    ELSE {GuardedFetch(h, since, range) :
            h \in CopyTag(kept), since \in {NoDate, kept.since}, range \in RangeHeaders}

\* Headers that do not parse, and "*".
OddRequests ==
    {[Plain EXCEPT !.if_match = h] : h \in {AnyTag, Corrupt}} \cup
    {[Plain EXCEPT !.if_none_match = h, !.modified_since = BadDate] : h \in {AnyTag, Corrupt}} \cup
    {[Plain EXCEPT !.unmodified_since = BadDate]}

\* What a client asks that keeps this copy.
Requests(kept) ==
    Fetches \cup OddRequests \cup
    IF kept.have = {} THEN {}
    ELSE Resumptions(kept) \cup Revalidations(kept) \cup GuardedFetches(kept)

\* A client adds a partial response to its copy if it asked for that, with
\* If-Range or If-Match, or if the ETags agree.
Extends(r, response, kept) ==
    /\ response.status = 206
    /\ \/ r.if_range.form = "list"
       \/ r.if_match.form = "list"
       \/ response.tag # NoTag /\ response.tag = kept.tag

\* What may have arrived when the connection breaks, or the body ends: the ranges
\* before one of them, and the beginning of that one.
Preceding(spans, k) == UNION {Bytes(spans[j]) : j \in {i \in DOMAIN spans : i < k}}
Beginnings(span) == {span.start .. m - 1 : m \in span.start .. span.end}
Arrivals(spans) ==
    {{}} \cup UNION {{Preceding(spans, k) \cup some : some \in Beginnings(spans[k])} :
                       k \in DOMAIN spans}

\* The copy after a response with this Last-Modified of which these bytes of rep arrived.
Kept(r, response, rep, modified, got, kept) ==
    LET bytes == {<<i, rep>> : i \in got}
    IN  IF Extends(r, response, kept) THEN [kept EXCEPT !.have = @ \cup bytes]
        ELSE IF response.status \in {200, 206} /\ got # {}
          THEN [have |-> bytes, tag |-> response.tag, since |-> modified]
        ELSE IF response.status \in {304, 400, 405, 500} THEN kept
        ELSE NoCopy

-----------------------------------------------------------------------------

Init ==
    /\ TreeInit
    /\ etags   = [k \in EtagKeys |-> NotCached]
    /\ pc      = [c \in Clients |-> "idle"]
    /\ req     = [c \in Clients |-> Plain]
    /\ opened  = [c \in Clients |-> NoRep]
    /\ missing = [c \in Clients |-> FALSE]
    /\ etag    = [c \in Clients |-> NoTag]
    /\ resp    = [c \in Clients |-> NoAnswer]
    /\ copy    = [c \in Clients |-> NoCopy]

Goto(c, from, to) == pc[c] = from /\ pc' = [pc EXCEPT ![c] = to]

Ask(c) ==
    /\ Goto(c, "idle", "sent")
    /\ \E r \in Requests(copy[c]) : req' = [req EXCEPT ![c] = r]
    /\ UNCHANGED <<treeVars, etags, opened, missing, etag, resp, copy>>

\* Mutant of OpenFile: a missing file is not noticed.
OpenFileUnchecked(c, p) ==
    /\ \E e \in Encodings :
         LET rep == [path |-> p, encoding |-> e, version |-> tree[p]]
         IN  /\ opened' = [opened EXCEPT ![c] = rep]
             /\ Goto(c, "sent", "hash")
    /\ UNCHANGED <<treeVars, etags, req, etag, resp, copy>>

\* find_file opens path p in one of the codings; calculate_etag looks the ETag up.
OpenFile(c, p) ==
    /\ OpenStatus(p) = "ok"
    /\ \E e \in Encodings :
         LET rep    == [path |-> p, encoding |-> e, version |-> tree[p]]
             cached == etags[EtagKey(rep)]
         IN  /\ opened' = [opened EXCEPT ![c] = rep]
             /\ Goto(c, "sent", IF cached = NotCached THEN "hash" ELSE "serve")
             /\ etag' = [etag EXCEPT ![c] = IF cached = NotCached THEN NoTag ELSE cached]
    /\ UNCHANGED <<treeVars, etags, req, resp, copy>>

Open(c) ==
    \E p \in Asking :
        /\ OpenFile(c, p)
        /\ UNCHANGED missing

\* The file is missing and the page for that is served.
OpenNotFoundPage(c) ==
    \E p \in Asking :
        /\ OpenStatus(p) = "not_found"
        /\ NotFoundPath # NoPath
        /\ OpenFile(c, NotFoundPath)
        /\ missing' = [missing EXCEPT ![c] = TRUE]

\* status_code of an error of find_file.
StatusCode(error) == IF error = "io_error" THEN 500 ELSE 404

\* make_status_response: an error without a page.
StatusResponse(c, status) ==
    /\ pc'   = [pc EXCEPT ![c] = "answered"]
    /\ resp' = [resp EXCEPT ![c] = Answer(status, << >>, NoTag)]
    /\ UNCHANGED <<treeVars, etags, req, opened, missing, etag, copy>>

\* The file does not open, or the page for a missing one does not.
OpenFails(c) ==
    /\ pc[c] = "sent"
    /\ \E p \in Asking :
        \/ \E e \in OpenErrors(p) :
              /\ e # "not_found" \/ NotFoundPath = NoPath
              /\ StatusResponse(c, StatusCode(e))
        \/ /\ OpenStatus(p) = "not_found" /\ NotFoundPath # NoPath
           /\ \E e \in OpenErrors(NotFoundPath) : StatusResponse(c, StatusCode(e))

\* calculate_etag hashes the open file and caches the result, even if it is None.
HashFile(c) ==
    /\ Goto(c, "hash", "serve")
    /\ etag' = [etag EXCEPT ![c] = Hash(opened[c])]
    /\ \E evicted \in SUBSET ({k \in EtagKeys : etags[k] # NotCached} \cup {EtagKey(opened[c])}) :
         /\ etags' = [k \in EtagKeys |->
                        IF k \in evicted THEN NotCached
                        ELSE IF k = EtagKey(opened[c]) THEN Hash(opened[c]) ELSE etags[k]]
         /\ Cardinality({k \in EtagKeys : etags'[k] # NotCached}) <= EtagCapacity
    /\ UNCHANGED <<treeVars, req, opened, missing, resp, copy>>

HashFails(c) ==
    /\ pc[c] = "hash"
    /\ StatusResponse(c, 500)

\* get_response, from the resource on.
Serve(c) ==
    /\ Goto(c, "serve", "answered")
    /\ resp' = [resp EXCEPT ![c] =
                  Response(opened[c], req[c], etag[c], IF missing[c] THEN 404 ELSE 200)]
    /\ UNCHANGED <<treeVars, etags, req, opened, missing, etag, copy>>

\* The client receives the response; the connection may break at any byte of it. The
\* time that serve took for the response shows only now.
Receive(c) ==
    /\ Goto(c, "answered", "idle")
    /\ \E got \in Arrivals(resp[c].spans), now \in Times :
         LET modified == IF got = {} THEN NoDate ELSE LastModified(opened[c], now) IN
         copy' = [copy EXCEPT ![c] = Kept(req[c], resp[c], opened[c], modified, got, @)]
    /\ req'     = [req EXCEPT ![c] = Plain]
    /\ opened'  = [opened EXCEPT ![c] = NoRep]
    /\ missing' = [missing EXCEPT ![c] = FALSE]
    /\ etag'    = [etag EXCEPT ![c] = NoTag]
    /\ resp'    = [resp EXCEPT ![c] = NoAnswer]
    /\ UNCHANGED <<treeVars, etags>>

Deploy(p) ==
    /\ p \in Asking
    /\ Release(p) \/ Remove(p) \/ Rollback(p)
    /\ UNCHANGED <<etags, requestVars, copy>>

Next ==
    \/ \E c \in Clients :
         \/ Ask(c) \/ Open(c) \/ OpenNotFoundPage(c) \/ OpenFails(c)
         \/ HashFile(c) \/ HashFails(c) \/ Serve(c) \/ Receive(c)
    \/ \E p \in Paths : Deploy(p)

Spec == Init /\ [][Next]_vars

-----------------------------------------------------------------------------
(* Properties *)

Statuses == {0, 200, 206, 304, 400, 404, 405, 412, 416, 500}

\* The types of the state; a file is open while it is hashed or served.
TypeOK ==
    /\ TreeTypeOK
    /\ etags \in [EtagKeys -> Tags \cup {NotCached}]
    /\ pc \in [Clients -> {"idle", "sent", "hash", "serve", "answered"}]
    /\ opened \in [Clients -> Reps \cup {NoRep}]
    /\ missing \in [Clients -> BOOLEAN]
    /\ etag \in [Clients -> Tags]
    /\ \A c \in Clients :
         /\ resp[c].status \in Statuses
         /\ copy[c].have \subseteq Nat \X Reps
         /\ copy[c].tag \in Tags
         /\ pc[c] \in {"hash", "serve"} => opened[c] \in Reps

\* What a client puts together from pieces is one version in one coding, though
\* the pieces come from different requests, between which versions are released,
\* removed and rolled back and the coding changes, and the ETag of each piece may
\* come from the cache: If-Range and If-Match tell versions and codings apart.
NoMixedVersions == \A c \in Clients : Cardinality(Origins(copy[c])) <= 1

\* A 304 to a client that sent an ETag means that its copy, however it was put
\* together, is what the server would send.
RevalidatedIsCurrent ==
    \A c \in Clients :
        pc[c] = "answered" /\ resp[c].status = 304 /\ req[c].if_none_match.form = "list"
            => Origins(copy[c]) = {opened[c]}

\* Conversely a client whose copy is current, and that asks by its ETag, is told so: it
\* is not sent the file again, whatever date it adds to If-None-Match, and If-Match
\* does not refuse it. A client that adds If-Unmodified-Since to If-Match may be
\* refused all the same: serve looks at that date even when the tag has matched
\* (serving.rs:35-44), and the one it handed out was clamped to the time of the
\* response (144-147).
CurrentIsRecognised ==
    \A c \in Clients :
        pc[c] = "answered" /\ Origins(copy[c]) = {opened[c]} /\ copy[c].tag # NoTag
          /\ resp[c].status # 500 =>
            /\ req[c].if_none_match.form = "list" => resp[c].status = 304
            /\ req[c].if_match = StrongTag(copy[c]) /\ req[c].unmodified_since = NoDate =>
                 resp[c].status # 412

\* Every part of a partial response is what RFC 7233 has the spec at its place in the
\* Range header ask for, neither fewer bytes nor more: whatever the coding and the
\* version, and whatever became of the file since the client had the other bytes.
RangesAreHonoured ==
    \A c \in Clients :
        pc[c] = "answered" /\ resp[c].status = 206 /\ req[c].method = "GET" =>
            /\ resp[c].spans # << >>
            /\ \A i \in DOMAIN resp[c].spans :
                 Bytes(resp[c].spans[i]) = Asked(req[c].range[i], RepLen(opened[c]))

\* range.rs:41-42 says the header is parsed as described in RFC 7233, section 2.1:
\* then a partial response holds all that its specs ask for, and 416 is the answer if
\* and only if they ask for nothing of the file. They are not.
RangesFollowRfc ==
    \A c \in Clients :
        LET asked == AskedByAll(req[c].range, RepLen(opened[c])) IN
        pc[c] = "answered" =>
            /\ resp[c].status = 206 => asked # {}
            /\ resp[c].status = 206 /\ req[c].method = "GET" => Served(resp[c].spans) = asked
            /\ resp[c].status = 416 => asked = {}

\* served_dir.rs:634 says not_found_path is served for 404 errors: then a request
\* for a missing file does not succeed, whatever its headers.
MissingDoesNotSucceed ==
    \A c \in Clients :
        pc[c] = "answered" /\ missing[c] => resp[c].status \notin {200, 206}
=============================================================================
