---------------------------- MODULE ServingProofs ----------------------------
(***************************************************************************)
(* Proofs about Serving, for any number of clients, paths, codings and     *)
(* versions and any Range headers.                                         *)
(***************************************************************************)
EXTENDS Serving, FiniteSetTheorems, TLAPS

-----------------------------------------------------------------------------------------
(* Ranges *)

\* Specs that parse_range refuses though the file has bytes they ask for: a suffix
\* as long as the file or longer, and a last byte of 2^64 - 1, which wraps.
Refused(s, len) ==
    \/ s.form = "-last" /\ s.last >= len
    \/ s.form = "first-last" /\ s.last = U64 - 1

\* What a header asks for in the other specs.
Accepted(header, len) ==
    UNION {Asked(header[i], len) : i \in {j \in DOMAIN header : ~ Refused(header[j], len)}}

\* What parse_range accepts is what RFC 7233 has it ask for.
LEMMA SpanIsAsked ==
    ASSUME NEW s \in Specs(Nat), NEW len \in Nat, ParseRange(s, len).kind = "parsed"
    PROVE  /\ ParseRange(s, len).start \in Nat
           /\ ParseRange(s, len).end \in Nat
           /\ Bytes(ParseRange(s, len)) = Asked(s, len)
           /\ ~ Refused(s, len)
<1> USE WidthAssumption DEF Specs
<1>1. CASE s.form = "-last"
  BY <1>1 DEF ParseRange, Asked, Refused, Bytes, Span, NotSatisfiable
<1>2. CASE s.form = "first-"
  BY <1>2 DEF ParseRange, Asked, Refused, Bytes, Span, NotSatisfiable, EndOf
<1>3. CASE s.form = "first-last"
  BY <1>3 DEF ParseRange, Asked, Refused, Bytes, Span, NotSatisfiable, EndOf, Next64
<1>4. CASE s.form = "bad"
  BY <1>4 DEF ParseRange, Unparsable
<1> QED BY <1>1, <1>2, <1>3, <1>4

\* What it does not, though it parses, asks for nothing or is one of the two kinds
\* that are refused.
LEMMA RefusalIsKnown ==
    ASSUME NEW s \in Specs(Nat), NEW len \in Nat,
           ParseRange(s, len).kind = "not_satisfiable"
    PROVE  Asked(s, len) = {} \/ Refused(s, len)
<1> USE WidthAssumption DEF Specs
<1>1. CASE s.form = "-last"
  BY <1>1 DEF ParseRange, Span, Refused
<1>2. CASE s.form = "first-"
  BY <1>2 DEF ParseRange, Asked, Span, EndOf
<1>3. CASE s.form = "first-last"
  BY <1>3 DEF ParseRange, Asked, Span, EndOf, Next64, Refused
<1>4. CASE s.form = "bad"
  BY <1>4 DEF ParseRange, Unparsable
<1> QED BY <1>1, <1>2, <1>3, <1>4

\* A header whose every spec is one.
IsHeader(h) == \A i \in DOMAIN h : i \in Nat /\ h[i] \in Specs(Nat)

\* The ranges of a response.
Spans == UNION {[D -> [kind : {"parsed"}, start : Nat, end : Nat]] : D \in SUBSET Nat}

\* The ranges that are served hold what the header asks for.
LEMMA RangesOfHeader ==
    ASSUME NEW h, IsHeader(h), NEW len \in Nat, Resolve(h, len).kind = "ranges"
    PROVE  /\ Resolve(h, len).ranges \in Spans
           /\ Resolve(h, len).ranges # << >>
           /\ \A i \in DOMAIN Resolve(h, len).ranges :
                Bytes(Resolve(h, len).ranges[i]) = Asked(h[i], len)
           /\ Served(Resolve(h, len).ranges) = Accepted(h, len)
<1> DEFINE satisfied == {i \in DOMAIN h : ParseRange(h[i], len).kind = "parsed"}
<1>1. Resolve(h, len).ranges = [i \in satisfied |-> ParseRange(h[i], len)]
  BY DEF Resolve
<1>2. \A i \in satisfied : ParseRange(h[i], len) \in [kind : {"parsed"}, start : Nat, end : Nat]
  <2> TAKE i \in satisfied
  <2>1. h[i] \in Specs(Nat) BY DEF IsHeader
  <2>2. ParseRange(h[i], len).start \in Nat /\ ParseRange(h[i], len).end \in Nat
    BY <2>1, SpanIsAsked
  <2>3. PICK start, end : ParseRange(h[i], len) = [kind |-> "parsed", start |-> start, end |-> end]
    BY DEF ParseRange, Span, NotSatisfiable, Unparsable
  <2> QED BY <2>2, <2>3
<1>3. satisfied \in SUBSET Nat BY DEF IsHeader
<1>4. [i \in satisfied |-> ParseRange(h[i], len)] \in [satisfied -> [kind : {"parsed"}, start : Nat, end : Nat]]
  BY <1>2
<1>5. \A i \in satisfied :
        Bytes(ParseRange(h[i], len)) = Asked(h[i], len) /\ ~ Refused(h[i], len)
  BY SpanIsAsked DEF IsHeader
<1>0. satisfied # {}
  BY DEF Resolve
<1>6. \A i \in DOMAIN h \ satisfied : Asked(h[i], len) = {} \/ Refused(h[i], len)
  <2> TAKE i \in DOMAIN h \ satisfied
  <2>1. ParseRange(h[i], len).kind # "unparsable" BY DEF Resolve
  <2>2. ParseRange(h[i], len).kind = "not_satisfiable"
    BY <2>1 DEF ParseRange, Span, NotSatisfiable, Unparsable
  <2> QED BY <2>2, RefusalIsKnown DEF IsHeader
<1> HIDE DEF satisfied
<1>7. Served(Resolve(h, len).ranges) = UNION {Bytes(ParseRange(h[i], len)) : i \in satisfied}
  BY <1>1 DEF Served
<1>8. UNION {Bytes(ParseRange(h[i], len)) : i \in satisfied} = UNION {Asked(h[i], len) : i \in satisfied}
  BY <1>5
<1>9. UNION {Asked(h[i], len) : i \in satisfied} = Accepted(h, len)
  <2>1. satisfied \subseteq {j \in DOMAIN h : ~ Refused(h[j], len)}
    BY <1>5 DEF satisfied
  <2> QED BY <1>6, <2>1 DEF Accepted
<1>10. Resolve(h, len).ranges \in Spans BY <1>1, <1>3, <1>4 DEF Spans
<1>11. Resolve(h, len).ranges # << >> BY <1>0, <1>1
<1>12. \A i \in DOMAIN Resolve(h, len).ranges :
         Bytes(Resolve(h, len).ranges[i]) = Asked(h[i], len)
  BY <1>1, <1>5
<1> QED BY <1>7, <1>8, <1>9, <1>10, <1>11, <1>12

\* A header is unsatisfiable only if each of its specs is.
LEMMA UnsatisfiableHeader ==
    ASSUME NEW h, IsHeader(h), NEW len \in Nat, Resolve(h, len).kind = "not_satisfiable"
    PROVE  \A i \in DOMAIN h : Asked(h[i], len) = {} \/ Refused(h[i], len)
<1> TAKE i \in DOMAIN h
<1>1. ParseRange(h[i], len).kind # "parsed" /\ ParseRange(h[i], len).kind # "unparsable"
  BY DEF Resolve
<1>2. ParseRange(h[i], len).kind = "not_satisfiable"
  BY <1>1 DEF ParseRange, Span, NotSatisfiable, Unparsable
<1> QED BY <1>2, RefusalIsKnown DEF IsHeader

-----------------------------------------------------------------------------
(* Tags and keys *)

\* File infos of two representations differ: FileInfo identifies a version, and
\* every coding of it is a file of its own.
LEMMA KeyIdentifies ==
    ASSUME NEW rep \in Reps, NEW other \in Reps, EtagKey(rep) = EtagKey(other)
    PROVE  rep = other
<1>1. rep.path = other.path /\ rep.encoding = other.encoding
  BY DEF EtagKey, FileInfo
<1>2. LenOf[rep.version] = LenOf[other.version] /\ MtimeOf[rep.version] = MtimeOf[other.version]
  BY DEF EtagKey, FileInfo
<1>3. rep.version = other.version
  BY <1>2, InfoAssumption DEF Reps
<1> QED BY <1>1, <1>3 DEF Reps

LEMMA KeyTyped == \A rep \in Reps : EtagKey(rep) \in EtagKeys
BY DEF EtagKey, EtagKeys, FileInfos, Reps

\* A representation is none of the three values that stand for no tag.
LEMMA RepsAreTags ==
    /\ EmptyTag \notin Reps /\ NoTag \notin Reps /\ NotCached \notin Reps
    /\ EmptyTag # NoTag /\ EmptyTag # NotCached /\ NoTag # NotCached
    /\ NoRep = NoTag
<1>1. \A rep \in Reps : rep.version # Absent
  BY TreeAssumption DEF Reps, Versions, Absent
<1> QED BY <1>1 DEF EmptyTag, NoTag, NotCached, NoRep, NoPath

LEMMA HashTyped == \A rep \in Reps : Hash(rep) \in Tags /\ Hash(rep) # NotCached
BY RepsAreTags DEF Hash, Tags

\* The same version in the same coding, or two files that are both hashed from
\* their end.
Alike(rep, other) ==
    rep = other \/ {rep.encoding, other.encoding} \subseteq HashedAtEnd

\* Equal tags are of one representation, but for the files hashed from their end.
LEMMA HashIdentifies ==
    ASSUME NEW rep \in Reps, NEW other \in Reps, Hash(rep) = Hash(other), Hash(rep) # NoTag
    PROVE  Alike(rep, other)
BY RepsAreTags DEF Hash, Alike

LEMMA AlikeMeansEqual ==
    ASSUME HashedAtEnd = {}, NEW rep, NEW other, Alike(rep, other)
    PROVE  rep = other
BY DEF Alike

LEMMA LastModifiedTyped == \A rep \in Reps, now \in Times : LastModified(rep, now) \in Nat
<1> TAKE rep \in Reps, now \in Times
<1>1. MtimeOf[rep.version] \in Nat BY TreeAssumption DEF Reps
<1>2. TicksPerSec \in Nat /\ TicksPerSec > 0 /\ now \in Nat BY ServingAssumption
<1>3. \A m \in Nat, t \in Nat : t > 0 => m \div t \in Nat BY SMTT(30)
<1>4. (IF MtimeOf[rep.version] < now THEN MtimeOf[rep.version] ELSE now) \in Nat
  BY <1>1, <1>2
<1> QED BY <1>2, <1>3, <1>4 DEF LastModified

LEMMA LenTyped == \A rep \in Reps : RepLen(rep) \in Nat
BY ServingAssumption DEF RepLen, Reps

-----------------------------------------------------------------------------
(* Requests and responses *)

Copies == [have : SUBSET (Nat \X Reps), tag : Tags, since : Int]

\* A header that lists tags carries that of the copy the client asks about.
CarriesTag(h, kept) ==
    h.form = "list" =>
        /\ kept.have # {} /\ kept.tag # NoTag
        /\ h \in CopyTag(kept)

\* There is one token in it.
LEMMA CopyTagTokens ==
    ASSUME NEW kept, NEW h \in CopyTag(kept)
    PROVE  h.form = "list" /\ \E t : h.tokens = {t} /\ t.tag = kept.tag
<1>1. ASSUME NEW weak \in BOOLEAN, h = List({Token(weak, kept.tag)})
      PROVE  h.form = "list" /\ \E t : h.tokens = {t} /\ t.tag = kept.tag
  <2>1. h.form = "list" /\ h.tokens = {Token(weak, kept.tag)} BY <1>1 DEF List
  <2>2. Token(weak, kept.tag).tag = kept.tag BY DEF Token
  <2> QED BY <2>1, <2>2
<1> QED BY <1>1 DEF CopyTag, StrongTag, WeakTag

LEMMA GapTyped == \A kept \in Copies : Gap(kept) \subseteq Nat
<1> TAKE kept \in Copies
<1>1. Held(kept) \subseteq Nat BY DEF Held, Copies
<1> QED BY <1>1 DEF Gap

LEMMA PlainFields ==
    Plain \in [method : {"GET"}, range : {NoHeader}, if_range : {Absence},
               if_match : {Absence}, if_none_match : {Absence},
               modified_since : {NoDate}, unmodified_since : {NoDate}]
BY DEF Plain

LEMMA RequestFacts ==
    ASSUME NEW kept \in Copies, NEW r \in Requests(kept)
    PROVE  /\ IsHeader(r.range)
           /\ CarriesTag(r.if_range, kept)
           /\ CarriesTag(r.if_match, kept)
           /\ CarriesTag(r.if_none_match, kept)
           /\ r.if_none_match.form = "list" =>
                r.method = "GET" /\ r.if_match = Absence /\ r.unmodified_since = NoDate
<1>1. \A h \in RangeHeaders \cup {NoHeader} : IsHeader(h)
  <2> TAKE h \in RangeHeaders \cup {NoHeader}
  <2>1. Specs(0 .. U64 - 1) \subseteq Specs(Nat) BY WidthAssumption DEF Specs
  <2>2. CASE h \in RangeHeaders BY <2>1, <2>2, ServingAssumption DEF IsHeader
  <2>3. CASE h = NoHeader BY <2>3 DEF IsHeader, NoHeader
  <2> QED BY <2>2, <2>3
<1>2. IsHeader(NoHeader) BY <1>1
<1>3. CASE r \in Fetches
  <2>1. PICK m \in {"GET", "HEAD", "POST"}, h \in RangeHeaders \cup {NoHeader} : r = Fetch(m, h)
    BY <1>3 DEF Fetches
  <2>2. r.range = h /\ r.if_range = Absence /\ r.if_match = Absence /\ r.if_none_match = Absence
    BY <2>1, PlainFields DEF Fetch
  <2> QED BY <1>1, <2>2 DEF CarriesTag, Absence
<1>4. CASE r \in OddRequests
  <2>1. \/ \E h \in {AnyTag, Corrupt} : r = [Plain EXCEPT !.if_match = h]
        \/ \E h \in {AnyTag, Corrupt} :
              r = [Plain EXCEPT !.if_none_match = h, !.modified_since = BadDate]
        \/ r = [Plain EXCEPT !.unmodified_since = BadDate]
    BY <1>4 DEF OddRequests
  <2>2. /\ r.range = NoHeader /\ r.if_range = Absence
        /\ r.if_match \in {Absence, AnyTag, Corrupt}
        /\ r.if_none_match \in {Absence, AnyTag, Corrupt}
    BY <2>1, PlainFields
  <2> QED BY <1>2, <2>2 DEF CarriesTag, Absence, AnyTag, Corrupt
<1>5. CASE kept.have # {} /\ r \in Resumptions(kept)
  <2>1. PICK n \in Gap(kept), h \in {ADate} \cup CopyTag(kept) :
          /\ r = Resumption(n, h)
          /\ \/ h = ADate
             \/ kept.tag # NoTag /\ h \in CopyTag(kept)
    <3>1. CASE kept.tag = NoTag
      <4>1. PICK n \in Gap(kept) : r = Resumption(n, ADate) BY <1>5, <3>1 DEF Resumptions
      <4> QED BY <4>1
    <3>2. CASE kept.tag # NoTag
      <4>1. PICK n \in Gap(kept), h \in CopyTag(kept) : r = Resumption(n, h)
        BY <1>5, <3>2 DEF Resumptions
      <4> QED BY <3>2, <4>1
    <3> QED BY <3>1, <3>2
  <2>2. /\ r.range = <<[form |-> "first-", first |-> n, last |-> 0]>>
        /\ r.if_range = h /\ r.if_match = Absence /\ r.if_none_match = Absence
    BY <2>1, PlainFields DEF Resumption
  <2>3. IsHeader(r.range)
    BY <2>2, GapTyped DEF IsHeader, Specs
  <2>4. CarriesTag(h, kept)
    BY <1>5, <2>1 DEF CarriesTag, ADate
  <2>5. CarriesTag(Absence, kept) /\ Absence.form # "list"
    BY DEF CarriesTag, Absence
  <2> QED BY <2>2, <2>3, <2>4, <2>5
<1>6. CASE kept.have # {} /\ r \in Revalidations(kept)
  <2>1. PICK h :
          /\ r = Revalidation(h, kept.since)
          /\ \/ h = Absence
             \/ kept.tag # NoTag /\ h \in CopyTag(kept)
    BY <1>6 DEF Revalidations
  <2>2. /\ r.range = NoHeader /\ r.if_range = Absence /\ r.if_none_match = h
        /\ r.method = "GET" /\ r.if_match = Absence /\ r.unmodified_since = NoDate
    BY <2>1, PlainFields DEF Revalidation
  <2> QED BY <1>2, <1>6, <2>1, <2>2 DEF CarriesTag, Absence
<1>7. CASE kept.have # {} /\ r \in GuardedFetches(kept)
  <2>1. kept.tag # NoTag BY <1>7 DEF GuardedFetches
  <2>2. PICK h \in RangeHeaders, condition \in CopyTag(kept), since \in {NoDate, kept.since} :
          r = GuardedFetch(condition, since, h)
    BY <1>7, <2>1 DEF GuardedFetches
  <2>3. /\ r.range = h /\ r.if_range = Absence /\ r.if_none_match = Absence
        /\ r.if_match = condition
    BY <2>2, PlainFields DEF GuardedFetch
  <2>4. CarriesTag(condition, kept)
    BY <1>7, <2>1, <2>2 DEF CarriesTag
  <2>5. CarriesTag(Absence, kept) /\ Absence.form # "list"
    BY DEF CarriesTag, Absence
  <2> QED BY <1>1, <2>3, <2>4, <2>5
<1> QED BY <1>3, <1>4, <1>5, <1>6, <1>7 DEF Requests

LEMMA PreconditionValues ==
    ASSUME NEW r, NEW tag, NEW seconds
    PROVE  PreconditionFailed(r, tag, seconds) \in {"error", "yes", "no"}
BY DEF PreconditionFailed

\* The conditions under which serve gives each answer.
LEMMA ResponseFacts ==
    ASSUME NEW rep, NEW r, NEW tag, NEW code \in {200, 404}
    PROVE  LET p      == Response(rep, r, tag, code)
               failed == PreconditionFailed(r, tag, Seconds(rep))
               same   == NotModified(r, tag, Seconds(rep))
               range  == Resolve(RangeHeader(r, tag), RepLen(rep))
           IN  /\ p.status \in {200, 206, 304, 400, 404, 405, 412, 416}
               /\ p.tag \in {tag, NoTag}
               /\ p.status = 200 => p.tag = tag
               /\ p.status = 206 => /\ failed = "no" /\ range.kind = "ranges" /\ p.tag = tag
                                    /\ p.spans \in {<< >>, range.ranges}
                                    /\ r.method = "GET" => p.spans = range.ranges
               /\ p.status # 206 => p.spans \in {<< >>, <<Span(0, RepLen(rep))>>}
               /\ p.status = 304 => same = "yes"
               /\ p.status = 412 => failed = "yes"
               /\ p.status = 416 => range.kind = "not_satisfiable"
               /\ r.method = "GET" /\ failed = "no" /\ same = "yes" => p.status = 304
<1> DEFINE failed == PreconditionFailed(r, tag, Seconds(rep))
           same   == NotModified(r, tag, Seconds(rep))
           range  == Resolve(RangeHeader(r, tag), RepLen(rep))
<1>1. failed \in {"error", "yes", "no"} BY PreconditionValues
<1> HIDE DEF failed, same, range
<1> QED BY <1>1 DEF Response, Answer, failed, same, range

\* A range that is served, or refused, is the one that was asked for.
LEMMA RangeHeaderKept ==
    ASSUME NEW r, NEW tag, NEW len, Resolve(RangeHeader(r, tag), len).kind # "none"
    PROVE  /\ RangeHeader(r, tag) = r.range
           /\ r.if_range.form # "absent" =>
                tag # NoTag /\ \E t \in r.if_range.tokens : StrongEq(t, tag)
BY DEF Resolve, RangeHeader

-----------------------------------------------------------------------------
(* What arrives and what is kept of it *)

LEMMA ArrivalsTyped ==
    ASSUME NEW spans \in Spans, NEW got \in Arrivals(spans)
    PROVE  got \subseteq Nat /\ (got # {} => spans # << >>)
<1>1. \A i \in DOMAIN spans : spans[i].start \in Nat /\ spans[i].end \in Nat
  BY DEF Spans
<1>2. \A i \in DOMAIN spans : Bytes(spans[i]) \subseteq Nat
  BY <1>1 DEF Bytes
<1>3. \A i \in DOMAIN spans, m \in Int : spans[i].start .. m \subseteq Nat
  BY <1>1
<1>4. CASE got = {} BY <1>4
<1>5. CASE got # {}
  <2>1. got \in UNION {{Preceding(spans, k) \cup some : some \in Beginnings(spans[k])} :
                         k \in DOMAIN spans}
    BY <1>5 DEF Arrivals
  <2>2. \A k \in DOMAIN spans : Preceding(spans, k) \subseteq Nat
    BY <1>2 DEF Preceding
  <2>3. \A k \in DOMAIN spans : \A some \in Beginnings(spans[k]) : some \subseteq Nat
    BY <1>1, <1>3 DEF Beginnings
  <2>4. PICK k \in DOMAIN spans :
          got \in {Preceding(spans, k) \cup some : some \in Beginnings(spans[k])}
    BY <2>1
  <2>5. PICK some \in Beginnings(spans[k]) : got = Preceding(spans, k) \cup some
    BY <2>4
  <2>6. got \subseteq Nat BY <2>2, <2>3, <2>5
  <2>7. spans # << >> BY <2>4
  <2> QED BY <2>6, <2>7
<1> QED BY <1>4, <1>5

\* The body of a response.
LEMMA ResponseTyped ==
    ASSUME NEW rep \in Reps, NEW r, IsHeader(r.range), NEW tag \in Tags, NEW code \in {200, 404}
    PROVE  /\ Response(rep, r, tag, code).status \in Statuses
           /\ Response(rep, r, tag, code).tag \in Tags
           /\ Response(rep, r, tag, code).spans \in Spans
<1> DEFINE p == Response(rep, r, tag, code)
           range == Resolve(RangeHeader(r, tag), RepLen(rep))
<1>1. /\ p.status \in Statuses /\ p.tag \in Tags
      /\ p.status = 206 => range.kind = "ranges" /\ p.spans \in {<< >>, range.ranges}
      /\ p.status # 206 => p.spans \in {<< >>, <<Span(0, RepLen(rep))>>}
  BY ResponseFacts DEF Statuses, Tags
<1>2. << >> \in Spans
  <2>1. << >> \in [{} -> [kind : {"parsed"}, start : Nat, end : Nat]] OBVIOUS
  <2> QED BY <2>1 DEF Spans
<1>3. <<Span(0, RepLen(rep))>> \in Spans
  <2>1. <<Span(0, RepLen(rep))>> \in [{1} -> [kind : {"parsed"}, start : Nat, end : Nat]]
    BY LenTyped DEF Span
  <2> QED BY <2>1 DEF Spans
<1>4. range.kind = "ranges" => range.ranges \in Spans
  BY RangeHeaderKept, RangesOfHeader, LenTyped
<1> QED BY <1>1, <1>2, <1>3, <1>4

LEMMA NoCopyTyped == NoCopy \in Copies
BY DEF NoCopy, Copies, NoDate, Tags

LEMMA KeptTyped ==
    ASSUME NEW kept \in Copies, NEW r, NEW response, response.tag \in Tags,
           NEW rep \in Reps, NEW modified \in Int, NEW got \in SUBSET Nat
    PROVE  Kept(r, response, rep, modified, got, kept) \in Copies
<1> DEFINE bytes == {<<i, rep>> : i \in got}
<1>1. bytes \subseteq Nat \X Reps OBVIOUS
<1> HIDE DEF bytes
<1>3. [kept EXCEPT !.have = @ \cup bytes] \in Copies
  BY <1>1 DEF Copies
<1>4. [have |-> bytes, tag |-> response.tag, since |-> modified] \in Copies
  BY <1>1 DEF Copies
<1> QED BY <1>3, <1>4, NoCopyTyped DEF Kept, bytes

-----------------------------------------------------------------------------
(* The invariant: the ETag cache holds right answers, a request is one that  *)
(* the client's copy led to, and a response is what serve makes of the two.  *)

Types ==
    /\ TreeTypeOK
    /\ etags \in [EtagKeys -> Tags \cup {NotCached}]
    /\ pc \in [Clients -> {"idle", "sent", "hash", "serve", "answered"}]
    /\ req = [c \in Clients |-> req[c]]
    /\ opened \in [Clients -> Reps \cup {NoRep}]
    /\ missing \in [Clients -> BOOLEAN]
    /\ etag \in [Clients -> Tags]
    /\ resp = [c \in Clients |-> resp[c]]
    /\ copy \in [Clients -> Copies]

EtagsRight == \A rep \in Reps : etags[EtagKey(rep)] \in {NotCached, Hash(rep)}

\* A response without a page, after a failure to hash the file, or from serve.
Answered(c) ==
    \/ opened[c] = NoRep /\ \E status \in {404, 500} : resp[c] = Answer(status, << >>, NoTag)
    \/ opened[c] \in Reps /\ resp[c] = Answer(500, << >>, NoTag)
    \/ /\ opened[c] \in Reps /\ etag[c] = Hash(opened[c])
       /\ \E code \in {200, 404} : resp[c] = Response(opened[c], req[c], etag[c], code)

Progress(c) ==
    /\ pc[c] # "idle" => req[c] \in Requests(copy[c])
    /\ pc[c] \in {"idle", "sent"} => opened[c] = NoRep
    /\ pc[c] \in {"hash", "serve"} => opened[c] \in Reps
    /\ pc[c] = "serve" => etag[c] = Hash(opened[c])
    /\ pc[c] # "answered" => resp[c] = NoAnswer
    /\ pc[c] = "answered" => Answered(c)

IInv == Types /\ EtagsRight /\ \A c \in Clients : Progress(c)

\* A client whose request and copy a step leaves alone.
LEMMA OthersProgress ==
    ASSUME NEW c \in Clients, Progress(c),
           pc'[c] = pc[c], req'[c] = req[c], opened'[c] = opened[c],
           etag'[c] = etag[c], resp'[c] = resp[c], copy'[c] = copy[c]
    PROVE  Progress(c)'
BY DEF Progress, Answered

LEMMA InitInv == Init => IInv
<1> SUFFICES ASSUME Init PROVE IInv OBVIOUS
<1> USE DEF Init
<1>1. TreeTypeOK
  BY TreeAssumption DEF TreeInit, TreeTypeOK, Contents
<1>2. Types BY <1>1, NoCopyTyped DEF Types, Tags
<1>3. EtagsRight BY KeyTyped DEF EtagsRight
<1>4. \A c \in Clients : Progress(c)
  BY DEF Progress
<1> QED BY <1>2, <1>3, <1>4 DEF IInv

LEMMA AskStep == ASSUME IInv, NEW c \in Clients, Ask(c) PROVE IInv'
<1> USE DEF IInv, Ask, Goto
<1>1. Types' BY DEF Types, treeVars, TreeTypeOK
<1>2. EtagsRight' BY DEF EtagsRight
<1>3. ASSUME NEW d \in Clients PROVE Progress(d)'
  <2>1. CASE d = c BY <2>1 DEF Types, Progress
  <2>2. CASE d # c BY <2>2, OthersProgress DEF Types
  <2> QED BY <2>1, <2>2
<1> QED BY <1>1, <1>2, <1>3

LEMMA OpenFileStep ==
    ASSUME IInv, NEW c \in Clients, NEW p \in Paths, OpenFile(c, p),
           missing' \in [Clients -> BOOLEAN]
    PROVE  IInv'
<1>1. PICK e \in Encodings :
        LET rep    == [path |-> p, encoding |-> e, version |-> tree[p]]
            cached == etags[EtagKey(rep)]
        IN  /\ opened' = [opened EXCEPT ![c] = rep]
            /\ Goto(c, "sent", IF cached = NotCached THEN "hash" ELSE "serve")
            /\ etag' = [etag EXCEPT ![c] = IF cached = NotCached THEN NoTag ELSE cached]
  BY DEF OpenFile
<1> DEFINE rep == [path |-> p, encoding |-> e, version |-> tree[p]]
           cached == etags[EtagKey(rep)]
<1>2. rep \in Reps
  BY DEF OpenFile, OpenStatus, IInv, Types, TreeTypeOK, Reps, Contents, Versions, Absent
<1>3. cached \in {NotCached, Hash(rep)} /\ Hash(rep) \in Tags /\ Hash(rep) # NotCached
  BY <1>2, HashTyped DEF IInv, EtagsRight
<1>4. /\ pc[c] = "sent"
      /\ opened' = [opened EXCEPT ![c] = rep]
      /\ pc' = [pc EXCEPT ![c] = IF cached = NotCached THEN "hash" ELSE "serve"]
      /\ etag' = [etag EXCEPT ![c] = IF cached = NotCached THEN NoTag ELSE cached]
  BY <1>1 DEF Goto
<1>5. UNCHANGED <<tree, released, etags, req, resp, copy>>
  BY DEF OpenFile, treeVars
<1> HIDE DEF rep, cached
<1>6. Types'
  BY <1>2, <1>3, <1>4, <1>5 DEF IInv, Types, TreeTypeOK, Tags
<1>7. EtagsRight' BY <1>5 DEF IInv, EtagsRight
<1>8. ASSUME NEW d \in Clients PROVE Progress(d)'
  <2>1. CASE d = c
    BY <1>2, <1>3, <1>4, <1>5, <2>1 DEF IInv, Types, Progress
  <2>2. CASE d # c BY <1>4, <1>5, <2>2, OthersProgress DEF IInv, Types
  <2> QED BY <2>1, <2>2
<1> QED BY <1>6, <1>7, <1>8 DEF IInv

LEMMA StatusResponseStep ==
    ASSUME IInv, NEW c \in Clients, NEW status, StatusResponse(c, status),
           \/ status \in {404, 500} /\ pc[c] = "sent"
           \/ status = 500 /\ pc[c] = "hash"
    PROVE  IInv'
<1> USE DEF IInv, StatusResponse
<1>1. Types' BY DEF Types, treeVars, TreeTypeOK
<1>2. EtagsRight' BY DEF EtagsRight
<1>3. ASSUME NEW d \in Clients PROVE Progress(d)'
  <2>1. CASE d = c BY <2>1 DEF Types, Progress, Answered
  <2>2. CASE d # c BY <2>2, OthersProgress DEF Types
  <2> QED BY <2>1, <2>2
<1> QED BY <1>1, <1>2, <1>3

LEMMA HashFileStep == ASSUME IInv, NEW c \in Clients, HashFile(c) PROVE IInv'
<1> DEFINE rep == opened[c]
<1>1. rep \in Reps BY DEF IInv, Progress, HashFile, Goto
<1>2. Hash(rep) \in Tags BY <1>1, HashTyped
<1>3. PICK evicted :
        etags' = [k \in EtagKeys |-> IF k \in evicted THEN NotCached
                                     ELSE IF k = EtagKey(rep) THEN Hash(rep) ELSE etags[k]]
  BY DEF HashFile
<1>4. /\ pc[c] = "hash" /\ pc' = [pc EXCEPT ![c] = "serve"]
      /\ etag' = [etag EXCEPT ![c] = Hash(rep)]
      /\ UNCHANGED <<tree, released, req, opened, missing, resp, copy>>
  BY DEF HashFile, Goto, treeVars
<1>5. EtagsRight'
  <2> SUFFICES ASSUME NEW other \in Reps PROVE etags'[EtagKey(other)] \in {NotCached, Hash(other)}
    BY DEF EtagsRight
  <2>1. EtagKey(other) = EtagKey(rep) => other = rep BY <1>1, KeyIdentifies
  <2>2. etags[EtagKey(other)] \in {NotCached, Hash(other)} BY DEF IInv, EtagsRight
  <2> QED BY <1>3, <2>1, <2>2, KeyTyped
<1> HIDE DEF rep
<1>6. Types'
  BY <1>2, <1>3, <1>4 DEF IInv, Types, TreeTypeOK
<1>7. ASSUME NEW d \in Clients PROVE Progress(d)'
  <2>1. CASE d = c BY <1>1, <1>4, <2>1 DEF IInv, Types, Progress, rep
  <2>2. CASE d # c BY <1>4, <2>2, OthersProgress DEF IInv, Types
  <2> QED BY <2>1, <2>2
<1> QED BY <1>5, <1>6, <1>7 DEF IInv

LEMMA ServeStep == ASSUME IInv, NEW c \in Clients, Serve(c) PROVE IInv'
<1> USE DEF IInv, Serve, Goto
<1>1. Types' BY DEF Types, treeVars, TreeTypeOK
<1>2. EtagsRight' BY DEF EtagsRight
<1>3. ASSUME NEW d \in Clients PROVE Progress(d)'
  <2>1. CASE d = c
    <3>1. \E code \in {200, 404} : resp'[c] = Response(opened[c], req[c], etag[c], code)
      BY DEF Types
    <3> QED BY <2>1, <3>1 DEF Types, Progress, Answered
  <2>2. CASE d # c BY <2>2, OthersProgress DEF Types
  <2> QED BY <2>1, <2>2
<1> QED BY <1>1, <1>2, <1>3

\* What a response is made of is typed.
LEMMA AnsweredTyped ==
    ASSUME IInv, NEW c \in Clients, pc[c] = "answered"
    PROVE  /\ resp[c].status \in Statuses
           /\ resp[c].tag \in Tags
           /\ resp[c].spans \in Spans
           /\ IsHeader(req[c].range)
           /\ opened[c] \in Reps \/ (resp[c].spans = << >> /\ resp[c].status \in {404, 500})
<1>1. Answered(c) /\ req[c] \in Requests(copy[c]) /\ copy[c] \in Copies
  BY DEF IInv, Progress, Types
<1>2. IsHeader(req[c].range) BY <1>1, RequestFacts
<1>3. << >> \in Spans
  <2>1. << >> \in [{} -> [kind : {"parsed"}, start : Nat, end : Nat]] OBVIOUS
  <2> QED BY <2>1 DEF Spans
<1>4. ASSUME NEW status \in {404, 500}, resp[c] = Answer(status, << >>, NoTag)
      PROVE  /\ resp[c].status \in Statuses /\ resp[c].tag \in Tags
             /\ resp[c].spans = << >> /\ resp[c].status = status
  BY <1>4 DEF Answer, Statuses, Tags
<1>5. ASSUME opened[c] \in Reps, etag[c] = Hash(opened[c]), NEW code \in {200, 404},
             resp[c] = Response(opened[c], req[c], etag[c], code)
      PROVE  resp[c].status \in Statuses /\ resp[c].tag \in Tags /\ resp[c].spans \in Spans
  <2>1. etag[c] \in Tags BY <1>5, HashTyped
  <2> QED BY <1>2, <1>5, <2>1, ResponseTyped
<1> QED BY <1>1, <1>2, <1>3, <1>4, <1>5 DEF Answered

LEMMA ReceiveStep == ASSUME IInv, NEW c \in Clients, Receive(c) PROVE IInv'
<1>1. PICK got \in Arrivals(resp[c].spans), now \in Times :
        LET modified == IF got = {} THEN NoDate ELSE LastModified(opened[c], now) IN
        copy' = [copy EXCEPT ![c] = Kept(req[c], resp[c], opened[c], modified, got, @)]
  BY DEF Receive
<1> DEFINE modified == IF got = {} THEN NoDate ELSE LastModified(opened[c], now)
<1>2. /\ pc[c] = "answered" /\ pc' = [pc EXCEPT ![c] = "idle"]
      /\ req' = [req EXCEPT ![c] = Plain] /\ opened' = [opened EXCEPT ![c] = NoRep]
      /\ missing' = [missing EXCEPT ![c] = FALSE] /\ etag' = [etag EXCEPT ![c] = NoTag]
      /\ resp' = [resp EXCEPT ![c] = NoAnswer]
      /\ UNCHANGED <<tree, released, etags>>
  BY DEF Receive, Goto, treeVars
<1>3. Kept(req[c], resp[c], opened[c], modified, got, copy[c]) \in Copies
  <2>1. copy[c] \in Copies BY DEF IInv, Types
  <2>2. CASE opened[c] \in Reps
    <3>1. modified \in Int BY <2>2, LastModifiedTyped DEF NoDate
    <3> HIDE DEF modified
    <3> QED BY <1>2, <2>1, <2>2, <3>1, AnsweredTyped, ArrivalsTyped, KeptTyped
  <2>3. CASE resp[c].status \in {404, 500}
    BY <2>1, <2>3, NoCopyTyped DEF Kept, Extends
  <2> QED BY <1>2, <2>2, <2>3, AnsweredTyped
<1>4. copy' \in [Clients -> Copies]
  BY <1>1, <1>3 DEF IInv, Types
<1>5. Types'
  BY <1>2, <1>4 DEF IInv, Types, TreeTypeOK, Tags
<1>6. EtagsRight' BY <1>2 DEF IInv, EtagsRight
<1>7. ASSUME NEW d \in Clients PROVE Progress(d)'
  <2>1. CASE d = c BY <1>2, <2>1 DEF IInv, Types, Progress
  <2>2. CASE d # c
    <3>1. copy'[d] = copy[d] BY <1>1, <2>2 DEF IInv, Types
    <3> QED BY <1>2, <2>2, <3>1, OthersProgress DEF IInv, Types
  <2> QED BY <2>1, <2>2
<1> QED BY <1>5, <1>6, <1>7 DEF IInv

LEMMA DeployStep == ASSUME IInv, NEW p \in Paths, Deploy(p) PROVE IInv'
<1>1. UNCHANGED <<etags, pc, req, opened, missing, etag, resp, copy>>
  BY DEF Deploy, requestVars
<1>2. TreeTypeOK'
  <2> USE TreeAssumption DEF IInv, Types, TreeTypeOK, Contents, Absent
  <2>1. CASE Release(p) BY <2>1 DEF Release
  <2>2. CASE Remove(p) BY <2>2 DEF Remove
  <2>3. CASE Rollback(p) BY <2>3 DEF Rollback
  <2> QED BY <2>1, <2>2, <2>3 DEF Deploy
<1>3. Types' BY <1>1, <1>2 DEF IInv, Types
<1>4. EtagsRight' BY <1>1 DEF IInv, EtagsRight
<1>5. \A c \in Clients : Progress(c)' BY <1>1, OthersProgress DEF IInv
<1> QED BY <1>3, <1>4, <1>5 DEF IInv

LEMMA StutterStep == ASSUME IInv, UNCHANGED vars PROVE IInv'
<1>1. UNCHANGED <<tree, released, etags, pc, req, opened, missing, etag, resp, copy>>
  BY DEF vars, treeVars, requestVars
<1>2. Types' /\ EtagsRight' BY <1>1 DEF IInv, Types, TreeTypeOK, EtagsRight
<1>3. \A c \in Clients : Progress(c)' BY <1>1, OthersProgress DEF IInv
<1> QED BY <1>2, <1>3 DEF IInv

LEMMA InvHolds == Spec => []IInv
<1>1. ASSUME IInv, [Next]_vars PROVE IInv'
  <2>1. ASSUME NEW c \in Clients, Ask(c) PROVE IInv' BY <1>1, <2>1, AskStep
  <2>2. ASSUME NEW c \in Clients, Open(c) PROVE IInv'
    <3>1. PICK p \in Asking : OpenFile(c, p) /\ UNCHANGED missing BY <2>2 DEF Open
    <3> QED BY <1>1, <3>1, OpenFileStep, ServingAssumption DEF IInv, Types
  <2>3. ASSUME NEW c \in Clients, OpenNotFoundPage(c) PROVE IInv'
    <3>1. /\ NotFoundPath \in Paths /\ OpenFile(c, NotFoundPath)
          /\ missing' = [missing EXCEPT ![c] = TRUE]
      BY <2>3, ServingAssumption DEF OpenNotFoundPage
    <3>2. missing' \in [Clients -> BOOLEAN] BY <1>1, <3>1 DEF IInv, Types
    <3> QED BY <1>1, <3>1, <3>2, OpenFileStep
  <2>4. ASSUME NEW c \in Clients, OpenFails(c) PROVE IInv'
    <3>1. PICK e : StatusResponse(c, StatusCode(e)) /\ pc[c] = "sent"
      BY <2>4 DEF OpenFails
    <3>2. StatusCode(e) \in {404, 500} BY DEF StatusCode
    <3> QED BY <1>1, <3>1, <3>2, StatusResponseStep
  <2>5. ASSUME NEW c \in Clients, HashFile(c) PROVE IInv' BY <1>1, <2>5, HashFileStep
  <2>6. ASSUME NEW c \in Clients, HashFails(c) PROVE IInv'
    BY <1>1, <2>6, StatusResponseStep DEF HashFails
  <2>7. ASSUME NEW c \in Clients, Serve(c) PROVE IInv' BY <1>1, <2>7, ServeStep
  <2>8. ASSUME NEW c \in Clients, Receive(c) PROVE IInv' BY <1>1, <2>8, ReceiveStep
  <2>9. ASSUME NEW p \in Paths, Deploy(p) PROVE IInv' BY <1>1, <2>9, DeployStep
  <2>10. CASE UNCHANGED vars BY <1>1, <2>10, StutterStep
  <2> QED BY <1>1, <2>1, <2>2, <2>3, <2>4, <2>5, <2>6, <2>7, <2>8, <2>9, <2>10 DEF Next
<1> QED BY <1>1, InitInv, PTL DEF Spec

-----------------------------------------------------------------------------
(* Theorems *)

\* The state keeps its types.
THEOREM TypeCorrect == Spec => []TypeOK
<1>1. ASSUME IInv PROVE TypeOK
  <2>1. ASSUME NEW c \in Clients PROVE resp[c].status \in Statuses
    <3>1. CASE pc[c] = "answered" BY <1>1, <3>1, AnsweredTyped
    <3>2. CASE pc[c] # "answered"
      BY <1>1, <3>2 DEF IInv, Progress, NoAnswer, Answer, Statuses
    <3> QED BY <3>1, <3>2
  <2> QED BY <1>1, <2>1 DEF IInv, Types, TypeOK, Copies, Progress
<1> QED BY <1>1, InvHolds, PTL

\* What serve made of a Range header when it answers with 206 or 416.
LEMMA RangeAnswer ==
    ASSUME IInv, NEW c \in Clients, pc[c] = "answered", resp[c].status \in {206, 416}
    PROVE  LET range == Resolve(req[c].range, RepLen(opened[c]))
           IN  /\ IsHeader(req[c].range) /\ RepLen(opened[c]) \in Nat
               /\ resp[c].status = 206 =>
                    /\ range.kind = "ranges"
                    /\ req[c].method = "GET" => resp[c].spans = range.ranges
               /\ resp[c].status = 416 => range.kind = "not_satisfiable"
<1>1. Answered(c) BY DEF IInv, Progress
<1>2. PICK code \in {200, 404} : resp[c] = Response(opened[c], req[c], etag[c], code)
  BY <1>1 DEF Answered, Answer
<1>3. opened[c] \in Reps /\ IsHeader(req[c].range) BY AnsweredTyped
<1>4. RepLen(opened[c]) \in Nat BY <1>3, LenTyped
<1> DEFINE range == Resolve(RangeHeader(req[c], etag[c]), RepLen(opened[c]))
<1>5. /\ resp[c].status = 206 =>
           range.kind = "ranges" /\ (req[c].method = "GET" => resp[c].spans = range.ranges)
      /\ resp[c].status = 416 => range.kind = "not_satisfiable"
  BY <1>2, ResponseFacts
<1>6. RangeHeader(req[c], etag[c]) = req[c].range BY <1>5, RangeHeaderKept
<1> QED BY <1>3, <1>4, <1>5, <1>6

\* Each part of a partial response is what RFC 7233 has its spec ask for
\* (range.rs:70-112, serving.rs:153-228), for every header, length and width.
THEOREM Ranged == Spec => []RangesAreHonoured
<1>1. ASSUME IInv, NEW c \in Clients, pc[c] = "answered", resp[c].status = 206,
             req[c].method = "GET"
      PROVE  /\ resp[c].spans # << >>
             /\ \A i \in DOMAIN resp[c].spans :
                  Bytes(resp[c].spans[i]) = Asked(req[c].range[i], RepLen(opened[c]))
  BY <1>1, RangeAnswer, RangesOfHeader
<1>2. IInv => RangesAreHonoured BY <1>1 DEF RangesAreHonoured
<1> QED BY <1>2, InvHolds, PTL

\* Of a header's specs only the two refused kinds go unanswered: a partial response
\* holds what all the others ask for, and a 416 means that they ask for nothing. (The
\* converse fails: a suffix of no bytes is answered with an empty part.)
OnlyTheRefusedAreMissing ==
    \A c \in Clients :
        LET accepted == Accepted(req[c].range, RepLen(opened[c])) IN
        pc[c] = "answered" =>
            /\ resp[c].status = 206 /\ req[c].method = "GET" => Served(resp[c].spans) = accepted
            /\ resp[c].status = 416 => accepted = {}

\* The extent of what the violation run of RangesFollowRfc shows (range.rs:87-90, 98-101).
THEOREM Refusals == Spec => []OnlyTheRefusedAreMissing
<1>1. ASSUME IInv, NEW c \in Clients, pc[c] = "answered", resp[c].status \in {206, 416}
      PROVE  LET accepted == Accepted(req[c].range, RepLen(opened[c]))
             IN  /\ resp[c].status = 206 /\ req[c].method = "GET" => Served(resp[c].spans) = accepted
                 /\ resp[c].status = 416 => accepted = {}
  <2>1. CASE resp[c].status = 206
    BY <1>1, <2>1, RangeAnswer, RangesOfHeader
  <2>2. CASE resp[c].status = 416
    <3>1. \A i \in DOMAIN req[c].range :
            Asked(req[c].range[i], RepLen(opened[c])) = {} \/ Refused(req[c].range[i], RepLen(opened[c]))
      BY <1>1, <2>2, RangeAnswer, UnsatisfiableHeader
    <3> QED BY <2>2, <3>1 DEF Accepted
  <2> QED BY <1>1, <2>1, <2>2
<1>2. IInv => OnlyTheRefusedAreMissing BY <1>1 DEF OnlyTheRefusedAreMissing
<1> QED BY <1>2, InvHolds, PTL

-----------------------------------------------------------------------------
(* Copies: the tag of a copy is that of all it is put together from.         *)

Sound(kept) ==
    /\ \A x \in Origins(kept) : x \in Reps /\ kept.tag = Hash(x)
    /\ \A x, y \in Origins(kept) : Alike(x, y)
    /\ kept.have # {} => Origins(kept) # {}
    /\ kept.have = {} => kept.tag = NoTag

CopiesSound == \A c \in Clients : Sound(copy[c])

LEMMA EmptyIsSound == Sound(NoCopy)
BY DEF Sound, NoCopy, Origins

\* Whatever of a response arrives, the copy stays sound.
LEMMA KeptSound ==
    ASSUME NEW kept \in Copies, Sound(kept), NEW r \in Requests(kept),
           NEW rep \in Reps, NEW code \in {200, 404}, NEW modified, NEW got \in SUBSET Nat
    PROVE  Sound(Kept(r, Response(rep, r, Hash(rep), code), rep, modified, got, kept))
<1> DEFINE p     == Response(rep, r, Hash(rep), code)
           bytes == {<<i, rep>> : i \in got}
           range == Resolve(RangeHeader(r, Hash(rep)), RepLen(rep))
<1>1. /\ p.status \in {200, 206} => p.tag = Hash(rep)
      /\ p.status = 206 => /\ range.kind = "ranges"
                           /\ PreconditionFailed(r, Hash(rep), Seconds(rep)) = "no"
  BY ResponseFacts
<1>2. CASE Extends(r, p, kept)
  <2>1. p.status = 206 BY <1>2 DEF Extends
  <2>2. kept.have # {} /\ kept.tag = Hash(rep) /\ kept.tag # NoTag
    <3>1. CASE r.if_range.form = "list"
      <4>1. kept.have # {} /\ r.if_range \in CopyTag(kept)
        BY <3>1, RequestFacts DEF CarriesTag
      <4>2. Hash(rep) # NoTag /\ \E t \in r.if_range.tokens : StrongEq(t, Hash(rep))
        BY <1>1, <2>1, <3>1, RangeHeaderKept
      <4> QED BY <4>1, <4>2, CopyTagTokens DEF StrongEq
    <3>2. CASE r.if_match.form = "list"
      <4>1. kept.have # {} /\ r.if_match \in CopyTag(kept)
        BY <3>2, RequestFacts DEF CarriesTag
      <4>2. AnyMatch(r.if_match, Hash(rep)) = "match"
        BY <1>1, <2>1 DEF PreconditionFailed
      <4>3. Hash(rep) # NoTag /\ \E t \in r.if_match.tokens : StrongEq(t, Hash(rep))
        BY <3>2, <4>2 DEF AnyMatch
      <4> QED BY <4>1, <4>3, CopyTagTokens DEF StrongEq
    <3>3. CASE p.tag # NoTag /\ p.tag = kept.tag
      BY <1>1, <2>1, <3>3 DEF Sound
    <3> QED BY <1>2, <3>1, <3>2, <3>3 DEF Extends
  <2>3. \A x \in Origins(kept) : Alike(x, rep)
    BY <2>2, HashIdentifies DEF Sound
  <2>4. Origins(kept) # {}
    BY <2>2 DEF Sound
  <2> DEFINE more == [kept EXCEPT !.have = @ \cup bytes]
  <2>5. more.tag = kept.tag /\ more.have = kept.have \cup bytes
    BY DEF Copies
  <2> HIDE DEF more
  <2>6. Origins(kept) \subseteq Origins(more) /\ \A y \in Origins(more) : y \in Origins(kept) \cup {rep}
    BY <2>5 DEF Origins
  <2>7. Sound(more)
    <3>1. \A y \in Origins(more) : y \in Reps /\ more.tag = Hash(y)
      BY <2>2, <2>5, <2>6 DEF Sound
    <3>2. \A y, z \in Origins(more) : Alike(y, z)
      BY <2>3, <2>6 DEF Sound, Alike
    <3>3. Origins(more) # {}
      BY <2>4, <2>6
    <3> QED BY <2>2, <2>5, <3>1, <3>2, <3>3 DEF Sound
  <2> QED BY <1>2, <2>7 DEF Kept, more
<1>3. CASE ~ Extends(r, p, kept) /\ p.status \in {200, 206} /\ got # {}
  <2> DEFINE fresh == [have |-> bytes, tag |-> p.tag, since |-> modified]
  <2>1. \A x \in Origins(fresh) : x = rep BY DEF Origins
  <2>2. fresh.have # {}
    <3>1. PICK i \in got : TRUE BY <1>3
    <3>2. <<i, rep>> \in bytes BY <3>1
    <3> QED BY <3>2
  <2>3. rep \in Origins(fresh)
    BY <2>2 DEF Origins
  <2>4. Sound(fresh)
    <3>1. fresh.tag = Hash(rep) BY <1>1, <1>3
    <3> HIDE DEF fresh
    <3>2. Origins(fresh) # {} BY <2>3
    <3>3. \A x, y \in Origins(fresh) : Alike(x, y) BY <2>1 DEF Alike
    <3> QED BY <2>1, <2>2, <3>1, <3>2, <3>3 DEF Sound
  <2> QED BY <1>3, <2>4 DEF Kept
<1>4. CASE ~ Extends(r, p, kept) /\ ~ (p.status \in {200, 206} /\ got # {})
  BY <1>4, EmptyIsSound DEF Kept
<1> QED BY <1>2, <1>3, <1>4

LEMMA CopiesStaySound ==
    ASSUME IInv, CopiesSound, [Next]_vars
    PROVE  CopiesSound'
<1>1. CASE UNCHANGED copy BY <1>1 DEF CopiesSound
<1>2. ASSUME NEW c \in Clients, Receive(c) PROVE CopiesSound'
  <2>1. PICK got \in Arrivals(resp[c].spans) :
          \E modified : copy' = [copy EXCEPT ![c] = Kept(req[c], resp[c], opened[c], modified, got, @)]
    BY <1>2 DEF Receive
  <2>7. PICK modified :
          copy' = [copy EXCEPT ![c] = Kept(req[c], resp[c], opened[c], modified, got, @)]
    BY <2>1
  <2>2. pc[c] = "answered" BY <1>2 DEF Receive, Goto
  <2>3. /\ Answered(c) /\ req[c] \in Requests(copy[c]) /\ copy[c] \in Copies
        /\ resp[c].spans \in Spans /\ got \in SUBSET Nat
    BY <2>2, AnsweredTyped, ArrivalsTyped DEF IInv, Types, Progress
  <2>4. Sound(copy[c]) BY DEF CopiesSound
  <2>5. Sound(Kept(req[c], resp[c], opened[c], modified, got, copy[c]))
    <3>1. ASSUME NEW status \in {404, 500}, resp[c] = Answer(status, << >>, NoTag)
          PROVE  Kept(req[c], resp[c], opened[c], modified, got, copy[c]) \in {copy[c], NoCopy}
      BY <3>1 DEF Kept, Extends, Answer
    <3>2. CASE \E status \in {404, 500} : resp[c] = Answer(status, << >>, NoTag)
      BY <2>4, <3>1, <3>2, EmptyIsSound
    <3>3. ASSUME opened[c] \in Reps, etag[c] = Hash(opened[c]), NEW code \in {200, 404},
                 resp[c] = Response(opened[c], req[c], etag[c], code)
          PROVE  Sound(Kept(req[c], resp[c], opened[c], modified, got, copy[c]))
      BY <2>3, <2>4, <3>3, KeptSound
    <3> QED BY <2>3, <3>2, <3>3 DEF Answered
  <2>6. ASSUME NEW d \in Clients PROVE Sound(copy'[d])
    BY <2>5, <2>7 DEF IInv, Types, CopiesSound
  <2> QED BY <2>6 DEF CopiesSound
<1> QED
  BY <1>1, <1>2 DEF Next, Ask, Open, OpenNotFoundPage, OpenFile, OpenFails, StatusResponse,
     HashFile, HashFails, Serve, Deploy, vars

LEMMA CopiesAreSound == Spec => []CopiesSound
<1>1. Init => CopiesSound BY EmptyIsSound DEF Init, CopiesSound
<1>2. IInv /\ CopiesSound /\ [Next]_vars => CopiesSound' BY CopiesStaySound
<1> QED BY <1>1, <1>2, InvHolds, PTL DEF Spec

\* What a client puts together from pieces is of one version in one coding, but for
\* codings hashed from their end, whatever is deployed between its requests.
MixedOnlyIfHashedAtEnd ==
    \A c \in Clients : \A x, y \in Origins(copy[c]) : Alike(x, y)

\* The client's part of resuming a download: If-Range and If-Match tell versions and
\* codings apart (serving.rs:105-135), for any requests and deployments between them.
THEOREM MixedOnly == Spec => []MixedOnlyIfHashedAtEnd
<1>1. CopiesSound => MixedOnlyIfHashedAtEnd BY DEF CopiesSound, Sound, MixedOnlyIfHashedAtEnd
<1> QED BY <1>1, CopiesAreSound, PTL

\* Where every file is hashed from its start, it is of one version in one coding.
THEOREM OneVersion == ASSUME HashedAtEnd = {} PROVE Spec => []NoMixedVersions
<1>1. ASSUME MixedOnlyIfHashedAtEnd, NEW c \in Clients
      PROVE  Cardinality(Origins(copy[c])) <= 1
  <2>1. CASE Origins(copy[c]) = {} BY <2>1, FS_EmptySet
  <2>2. CASE Origins(copy[c]) # {}
    <3>1. PICK x \in Origins(copy[c]) : TRUE BY <2>2
    <3>2. Origins(copy[c]) = {x}
      BY <1>1, <3>1, AlikeMeansEqual DEF MixedOnlyIfHashedAtEnd
    <3>3. Cardinality({x}) = 1 BY FS_Singleton
    <3> QED BY <3>2, <3>3
  <2> QED BY <2>1, <2>2
<1>2. MixedOnlyIfHashedAtEnd => NoMixedVersions BY <1>1 DEF NoMixedVersions
<1> QED BY <1>2, MixedOnly, PTL

\* A 304 to a client that sent an ETag tells the truth about its copy, however that
\* was put together, but for codings hashed from their end: it confirms a copy in
\* such a coding as another file in such a coding, and nothing else.
ConfirmedIsAlike ==
    \A c \in Clients :
        pc[c] = "answered" /\ resp[c].status = 304 /\ req[c].if_none_match.form = "list" =>
            /\ Origins(copy[c]) # {}
            /\ \A x \in Origins(copy[c]) : Alike(x, opened[c])

\* The extent of what the violation run of RevalidatedIsCurrent shows (etag.rs:157-181).
THEOREM Confirmed == Spec => []ConfirmedIsAlike
<1>1. ASSUME IInv, CopiesSound, NEW c \in Clients,
             pc[c] = "answered", resp[c].status = 304, req[c].if_none_match.form = "list"
      PROVE  /\ Origins(copy[c]) # {}
             /\ \A x \in Origins(copy[c]) : Alike(x, opened[c])
  <2>1. Answered(c) /\ req[c] \in Requests(copy[c]) /\ copy[c] \in Copies /\ Sound(copy[c])
    BY <1>1 DEF IInv, Types, Progress, CopiesSound
  <2>2. opened[c] \in Reps BY <1>1, AnsweredTyped
  <2>3. PICK code \in {200, 404} :
          /\ etag[c] = Hash(opened[c])
          /\ resp[c] = Response(opened[c], req[c], etag[c], code)
    BY <1>1, <2>1 DEF Answered, Answer
  <2>4. NotModified(req[c], etag[c], Seconds(opened[c])) = "yes"
    BY <1>1, <2>3, ResponseFacts
  <2>5. etag[c] # NoTag /\ \E t \in req[c].if_none_match.tokens : t.tag = etag[c]
    BY <1>1, <2>4 DEF NotModified, NoneMatch, WeakEq
  <2>6. copy[c].have # {} /\ req[c].if_none_match \in CopyTag(copy[c])
    BY <1>1, <2>1, RequestFacts DEF CarriesTag
  <2>7. copy[c].tag = Hash(opened[c]) /\ copy[c].tag # NoTag
    BY <2>3, <2>5, <2>6, CopyTagTokens
  <2>8. \A x \in Origins(copy[c]) : Alike(x, opened[c])
    BY <1>1, <2>1, <2>2, <2>7, HashIdentifies DEF Sound
  <2>9. Origins(copy[c]) # {} BY <2>1, <2>6 DEF Sound
  <2> QED BY <2>8, <2>9
<1>2. IInv /\ CopiesSound => ConfirmedIsAlike BY <1>1 DEF ConfirmedIsAlike
<1> QED BY <1>2, InvHolds, CopiesAreSound, PTL

\* Where every file is hashed from its start, a 304 confirms what the server has.
THEOREM Revalidated == ASSUME HashedAtEnd = {} PROVE Spec => []RevalidatedIsCurrent
<1>1. ConfirmedIsAlike => RevalidatedIsCurrent
  BY AlikeMeansEqual DEF ConfirmedIsAlike, RevalidatedIsCurrent
<1> QED BY <1>1, Confirmed, PTL

\* A client whose copy is current and that asks by its ETag is told so, whatever dates
\* serve handed out before.
THEOREM Recognised == Spec => []CurrentIsRecognised
<1>1. ASSUME IInv, CopiesSound, NEW c \in Clients, pc[c] = "answered",
             Origins(copy[c]) = {opened[c]}, copy[c].tag # NoTag, resp[c].status # 500
      PROVE  /\ req[c].if_none_match.form = "list" => resp[c].status = 304
             /\ req[c].if_match = StrongTag(copy[c]) /\ req[c].unmodified_since = NoDate =>
                  resp[c].status # 412
  <2>1. Answered(c) /\ req[c] \in Requests(copy[c]) /\ copy[c] \in Copies /\ Sound(copy[c])
    BY <1>1 DEF IInv, Types, Progress, CopiesSound
  <2>2. /\ opened[c] \in Reps
        /\ copy[c].tag = Hash(opened[c])
    BY <1>1, <2>1 DEF Sound
  <2>3. opened[c] # NoRep BY <2>2, RepsAreTags
  <2>4. PICK code \in {200, 404} :
          /\ etag[c] = Hash(opened[c])
          /\ resp[c] = Response(opened[c], req[c], etag[c], code)
    BY <1>1, <2>1, <2>3 DEF Answered, Answer
  <2> DEFINE seconds == Seconds(opened[c])
  <2>6. ASSUME req[c].if_none_match.form = "list" PROVE resp[c].status = 304
    <3>1. /\ req[c].method = "GET" /\ req[c].if_match = Absence
          /\ req[c].unmodified_since = NoDate
          /\ req[c].if_none_match \in CopyTag(copy[c])
      BY <2>1, <2>6, RequestFacts DEF CarriesTag
    <3>2. PreconditionFailed(req[c], etag[c], seconds) = "no"
      BY <3>1 DEF PreconditionFailed, AnyMatch, Absence, NoDate, BadDate
    <3>3. \E t \in req[c].if_none_match.tokens : t.tag = etag[c]
      BY <2>2, <2>4, <3>1, CopyTagTokens
    <3>4. NotModified(req[c], etag[c], seconds) = "yes"
      BY <1>1, <2>2, <2>4, <2>6, <3>3 DEF NotModified, NoneMatch, WeakEq
    <3> QED BY <2>4, <3>1, <3>2, <3>4, ResponseFacts
  <2>7. ASSUME req[c].if_match = StrongTag(copy[c]), req[c].unmodified_since = NoDate
        PROVE  resp[c].status # 412
    <3>1. req[c].if_match.form = "list" /\ Token(FALSE, copy[c].tag) \in req[c].if_match.tokens
      BY <2>7 DEF StrongTag, List
    <3>2. StrongEq(Token(FALSE, copy[c].tag), etag[c])
      BY <2>2, <2>4 DEF StrongEq, Token
    <3>3. AnyMatch(req[c].if_match, etag[c]) = "match"
      <4>1. \E t \in req[c].if_match.tokens : StrongEq(t, etag[c])
        BY <3>1, <3>2, Zenon
      <4> QED BY <1>1, <2>2, <2>4, <3>1, <4>1 DEF AnyMatch
    <3>4. PreconditionFailed(req[c], etag[c], seconds) = "no"
      BY <2>7, <3>3 DEF PreconditionFailed, NoDate, BadDate
    <3> QED BY <2>4, <3>4, ResponseFacts
  <2> QED BY <2>6, <2>7
<1>2. IInv /\ CopiesSound => CurrentIsRecognised BY <1>1 DEF CurrentIsRecognised
<1> QED BY <1>2, InvHolds, CopiesAreSound, PTL

-----------------------------------------------------------------------------
(* The not-found page *)

\* A request for a missing file succeeds only with 206, and only if it has a Range
\* header: as the not-found page is not answered with 200, serve's 206 alone takes
\* the place of its status.
OnlyRangesSucceedWithThePage ==
    \A c \in Clients :
        pc[c] = "answered" /\ missing[c] /\ resp[c].status \in {200, 206} =>
            resp[c].status = 206 /\ req[c].range # NoHeader

LEMMA PageResponse ==
    ASSUME NEW rep, NEW r, NEW tag
    PROVE  /\ Response(rep, r, tag, 404).status # 200
           /\ Response(rep, r, tag, 404).status = 206 => r.range # NoHeader
<1>1. RangeHeader(r, tag) \in {r.range, NoHeader} BY DEF RangeHeader
<1>2. Resolve(NoHeader, RepLen(rep)).kind = "none" BY DEF Resolve
<1>3. Response(rep, r, tag, 404).status # 200 BY DEF Response, Answer
<1>4. Response(rep, r, tag, 404).status = 206 =>
        Resolve(RangeHeader(r, tag), RepLen(rep)).kind = "ranges"
  BY ResponseFacts
<1> QED BY <1>1, <1>2, <1>3, <1>4

\* The extent of what the violation run of MissingDoesNotSucceed shows
\* (serving.rs:180-237, served_dir.rs:270-272).
THEOREM PageSucceeds == Spec => []OnlyRangesSucceedWithThePage
<1> DEFINE P == OnlyRangesSucceedWithThePage
<1>1. Init => P BY DEF Init, OnlyRangesSucceedWithThePage
<1>2. ASSUME IInv, P, [Next]_vars PROVE P'
  <2> SUFFICES ASSUME NEW d \in Clients, pc'[d] = "answered", missing'[d],
                      resp'[d].status \in {200, 206}
               PROVE  resp'[d].status = 206 /\ req'[d].range # NoHeader
    BY DEF OnlyRangesSucceedWithThePage
  <2>1. ASSUME UNCHANGED <<pc[d], missing[d], resp[d], req[d]>>
        PROVE  resp'[d].status = 206 /\ req'[d].range # NoHeader
    BY <1>2, <2>1 DEF OnlyRangesSucceedWithThePage
  <2>2. ASSUME NEW c \in Clients, pc'[c] # "answered",
               \A e \in Clients \ {c} : UNCHANGED <<pc[e], missing[e], resp[e], req[e]>>
        PROVE  resp'[d].status = 206 /\ req'[d].range # NoHeader
    BY <2>1, <2>2
  <2>3. ASSUME NEW c \in Clients,
               Ask(c) \/ Open(c) \/ OpenNotFoundPage(c) \/ HashFile(c) \/ Receive(c)
        PROVE  resp'[d].status = 206 /\ req'[d].range # NoHeader
    <3>1. CASE Ask(c)
      BY <1>2, <2>2, <3>1 DEF Ask, Goto, IInv, Types
    <3>2. CASE Open(c) \/ OpenNotFoundPage(c)
      <4>1. /\ \E to \in {"hash", "serve"} : pc' = [pc EXCEPT ![c] = to]
            /\ missing' \in {missing, [missing EXCEPT ![c] = TRUE]}
            /\ resp' = resp /\ req' = req
        BY <3>2 DEF Open, OpenNotFoundPage, OpenFile, Goto
      <4> QED BY <1>2, <2>2, <4>1 DEF IInv, Types
    <3>3. CASE HashFile(c)
      BY <1>2, <2>2, <3>3 DEF HashFile, Goto, IInv, Types
    <3>4. CASE Receive(c)
      BY <1>2, <2>2, <3>4 DEF Receive, Goto, IInv, Types
    <3> QED BY <2>3, <3>1, <3>2, <3>3, <3>4
  <2>4. ASSUME NEW c \in Clients, NEW status \in {404, 500}, StatusResponse(c, status)
        PROVE  resp'[d].status = 206 /\ req'[d].range # NoHeader
    <3>1. d = c => resp'[d].status = status
      BY <1>2, <2>4 DEF StatusResponse, Answer, IInv, Types
    <3>2. d # c => UNCHANGED <<pc[d], missing[d], resp[d], req[d]>>
      BY <1>2, <2>4 DEF StatusResponse, IInv, Types
    <3>3. CASE d = c BY <2>4, <3>1, <3>3
    <3> QED BY <2>1, <3>2, <3>3
  <2>5. ASSUME NEW c \in Clients, Serve(c)
        PROVE  resp'[d].status = 206 /\ req'[d].range # NoHeader
    <3>1. /\ missing' = missing /\ req' = req
          /\ resp' = [resp EXCEPT ![c] = Response(opened[c], req[c], etag[c], IF missing[c] THEN 404 ELSE 200)]
      BY <2>5 DEF Serve
    <3>2. CASE d = c
      <4>1. resp'[d] = Response(opened[d], req[d], etag[d], 404)
        BY <1>2, <3>1, <3>2 DEF IInv, Types
      <4> QED BY <3>1, <4>1, PageResponse
    <3>3. d # c => UNCHANGED <<pc[d], missing[d], resp[d], req[d]>>
      BY <1>2, <2>5 DEF Serve, Goto, IInv, Types
    <3> QED BY <2>1, <3>2, <3>3
  <2>6. ASSUME NEW p \in Paths, Deploy(p)
        PROVE  resp'[d].status = 206 /\ req'[d].range # NoHeader
    BY <2>1, <2>6 DEF Deploy, requestVars
  <2>7. CASE UNCHANGED vars BY <2>1, <2>7 DEF vars, requestVars
  <2>8. ASSUME NEW c \in Clients, OpenFails(c)
        PROVE  resp'[d].status = 206 /\ req'[d].range # NoHeader
    <3>1. PICK e : StatusResponse(c, StatusCode(e)) BY <2>8 DEF OpenFails
    <3>2. StatusCode(e) \in {404, 500} BY DEF StatusCode
    <3> QED BY <2>4, <3>1, <3>2
  <2> QED BY <1>2, <2>3, <2>4, <2>5, <2>6, <2>7, <2>8 DEF Next, HashFails
<1> QED BY <1>1, <1>2, InvHolds, PTL DEF Spec
=============================================================================
