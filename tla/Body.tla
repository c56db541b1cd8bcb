-------------------------------- MODULE Body --------------------------------
(***************************************************************************)
(* Response bodies (src/src/body.rs): Body::poll_frame over its three      *)
(* streams, the loop of MultipartStream, the length check of               *)
(* ExactLenStream, the source Resource::get_range, and the hook that runs  *)
(* when the body completes.                                                *)
(*                                                                         *)
(* A body is polled by one consumer.  Poll starts a poll_frame; a turn of  *)
(* the stream's loop is a step, and the turn that produces a frame also    *)
(* returns it.  Bytes are counted, not represented.                        *)
(***************************************************************************)
EXTENDS Integers

CONSTANTS
    Parts,           \* ranges of a multipart body
    HeaderLen,       \* HeaderLen[i]: length of part_headers[i]
    PartLen,         \* PartLen[i]: length of ranges[i]
    TrailerLen,      \* length of PART_TRAILER
    Rest,            \* Rest[i]: bytes from the header of part i to the end
    OnceLens,        \* lengths of the chunks that bodies are made from
    Streams,         \* streams given to new_exact_len: [len, yields]
    ChunkSize,       \* CHUNK_SIZE
    U64,             \* 2^64
    PollsAfterError  \* does the consumer poll again after an error?

ASSUME BodyAssumption ==
    /\ Parts \in Nat
    /\ HeaderLen \in [0 .. Parts - 1 -> Nat]
    /\ PartLen \in [0 .. Parts - 1 -> Nat]
    /\ TrailerLen \in Nat
    /\ ChunkSize \in Nat \ {0}
    /\ U64 \in Nat
    /\ OnceLens \subseteq 0 .. U64 - 1
    /\ Streams \subseteq [len : 0 .. U64 - 1, yields : Nat]
    /\ PollsAfterError \in BOOLEAN

\* The length prepare_multipart computes, unrolled from the end; it is built
\* with checked additions and so fits in 64 bits.
ASSUME LengthAssumption ==
    /\ Rest \in [0 .. Parts -> Nat]
    /\ Rest[Parts] = TrailerLen
    /\ \A i \in 0 .. Parts - 1 : Rest[i] = HeaderLen[i] + PartLen[i] + Rest[i + 1]
    /\ Rest[0] < U64

VARIABLES
    kind,       \* which BodyStream: "once", "exact" or "multi"
    chunk,      \* once: length of the chunk, or NoChunk
    cur,        \* exact: its stream; multi: the current part's, or NoStream
    state,      \* multi: state
    remaining,  \* multi: remaining
    on_complete, \* "some" or "none"
    pc,         \* "held" by the consumer, "polling" or "dropped"
    status,     \* history: "open", or what was first of end, failure and drop
    calls,      \* history: runs of the hook
    sent,       \* history: bytes handed over
    announced   \* history: the length announced at the start

vars == <<kind, chunk, cur, state, remaining, on_complete, pc, status,
          calls, sent, announced>>

NoChunk == -1

\* An ExactLenStream: what it still expects, what its inner stream still holds,
\* and whether the inner stream has ended.
Stream(rem, left) == [is |-> "open", remaining |-> rem, left |-> left]
NoStream == [is |-> "none", remaining |-> 0, left |-> 0]

EndState == 2 * Parts + 1

\* Subtraction of u64, which wraps in a release build.
Sub(a, b) == IF b <= a THEN a - b ELSE a - b + U64

\* Body::size_hint, always exact.
SizeHint ==
    IF kind = "once" THEN (IF chunk = NoChunk THEN 0 ELSE chunk)
    ELSE IF kind = "exact" THEN cur.remaining ELSE remaining

\* Body::is_end_stream.
IsEndStream ==
    IF kind = "once" THEN chunk = NoChunk
    ELSE IF kind = "exact" THEN cur.remaining = 0 ELSE remaining = 0

\* The constructors, as serve and the From conversions use them.
InitOnce ==
    /\ kind = "once"
    /\ chunk \in OnceLens \cup {NoChunk}
    /\ cur = NoStream /\ state = 0 /\ remaining = 0

InitExact ==
    /\ kind = "exact"
    /\ \E s \in Streams : cur = Stream(s.len, s.yields)
    /\ chunk = NoChunk /\ state = 0 /\ remaining = 0

InitMulti ==
    /\ kind = "multi"
    /\ remaining = Rest[0]
    /\ chunk = NoChunk /\ cur = NoStream /\ state = 0

Init ==
    /\ InitOnce \/ InitExact \/ InitMulti
    /\ on_complete = "some"
    /\ pc = "held"
    /\ status = "open"
    /\ calls = 0
    /\ sent = 0
    /\ announced = SizeHint

-----------------------------------------------------------------------------
(* poll_frame *)

\* The consumer polls until the end or an error; it may poll again after the
\* end, but for an exact-length body, whose unfold stream does not allow that.
Poll ==
    /\ pc = "held"
    /\ \/ status = "open"
       \/ status = "ended" /\ kind # "exact"
       \/ status = "failed" /\ PollsAfterError
    /\ pc' = "polling"
    /\ UNCHANGED <<kind, chunk, cur, state, remaining, on_complete, status, calls,
                   sent, announced>>

\* Mutant of ReturnLast: the hook is called without being taken.
ReturnLastKeepHook(s) ==
    /\ pc' = "held"
    /\ status'  = IF status = "open" THEN s ELSE status
    /\ calls'   = calls + (IF on_complete = "some" THEN 1 ELSE 0)
    /\ UNCHANGED <<kind, on_complete, sent, announced>>

\* poll_frame returns a frame of n bytes.
ReturnData(n) ==
    /\ pc' = "held"
    /\ sent' = sent + n
    /\ UNCHANGED <<kind, on_complete, status, calls, announced>>

\* poll_frame returns None (s = "ended") or an error (s = "failed"), after taking
\* and running the hook, if it is still there.
ReturnLast(s) ==
    /\ pc' = "held"
    /\ status'  = IF status = "open" THEN s ELSE status
    /\ on_complete' = "none"
    /\ calls'   = calls + (IF on_complete = "some" THEN 1 ELSE 0)
    /\ UNCHANGED <<kind, sent, announced>>

\* The stream's loop goes on.
Loop == UNCHANGED <<kind, on_complete, pc, status, calls, sent, announced>>

\* BodyStream::Once: the chunk is taken.
Once ==
    /\ pc = "polling"
    /\ kind = "once"
    /\ chunk' = NoChunk
    /\ IF chunk = NoChunk THEN ReturnLast("ended") ELSE ReturnData(chunk)
    /\ UNCHANGED <<cur, state, remaining>>

-----------------------------------------------------------------------------
(* ExactLenStream over an inner stream.  The whole body of a Single range, or
   the current part of a multipart body.                                   *)

ReadingCur == pc = "polling" /\ cur.is = "open"

\* The inner stream yields n bytes (get_range reads one chunk; a read may be
\* short) and they are within what is expected.
Read ==
    /\ ReadingCur
    /\ \E n \in 1 .. cur.left :
         /\ n <= ChunkSize
         /\ n <= cur.remaining
         /\ cur' = [cur EXCEPT !.remaining = @ - n, !.left = @ - n]
         /\ remaining' = IF kind = "multi" THEN Sub(remaining, n) ELSE remaining
         /\ ReturnData(n)
    /\ UNCHANGED <<chunk, state>>

\* Mutant of Overrun: the bytes are passed on and the count stops at zero.
OverrunSaturates ==
    /\ ReadingCur
    /\ \E n \in 1 .. cur.left :
         /\ n <= ChunkSize
         /\ n > cur.remaining
         /\ cur' = [cur EXCEPT !.remaining = 0, !.left = @ - n]
         /\ ReturnData(n)
    /\ UNCHANGED <<chunk, state, remaining>>

\* What an error of the current stream does to a multipart body ("Fuse").
FuseMultipart ==
    IF kind = "multi" THEN remaining' = 0 /\ state' = EndState
    ELSE UNCHANGED <<remaining, state>>

\* More bytes than expected: StreamTooLongError.
Overrun ==
    /\ ReadingCur
    /\ \E n \in 1 .. cur.left :
         /\ n <= ChunkSize
         /\ n > cur.remaining
         /\ cur' = [cur EXCEPT !.remaining = 0, !.left = @ - n]
    /\ FuseMultipart
    /\ ReturnLast("failed")
    /\ UNCHANGED chunk

\* The inner stream fails: a read error, or read_range found no byte.  get_range
\* stays where it is and would read again.
ReadFails ==
    /\ ReadingCur
    /\ cur.left > 0
    /\ FuseMultipart
    /\ ReturnLast("failed")
    /\ UNCHANGED <<chunk, cur>>

\* The inner stream ends early: StreamTooShortError.
Underrun ==
    /\ ReadingCur
    /\ cur.left = 0
    /\ cur.remaining # 0
    /\ cur' = [cur EXCEPT !.remaining = 0, !.is = "spent"]
    /\ FuseMultipart
    /\ ReturnLast("failed")
    /\ UNCHANGED chunk

\* Mutant of CurDone: a multipart body goes on without clearing cur.
CurDoneKept ==
    /\ ReadingCur
    /\ cur.left = 0
    /\ cur.remaining = 0
    /\ IF kind = "multi"
         THEN cur' = [cur EXCEPT !.is = "spent"] /\ state' = state + 1 /\ Loop
         ELSE cur' = [cur EXCEPT !.is = "spent"] /\ UNCHANGED state /\ ReturnLast("ended")
    /\ UNCHANGED <<chunk, remaining>>

\* The inner stream ends where it should: the end of the body, or of a part.
CurDone ==
    /\ ReadingCur
    /\ cur.left = 0
    /\ cur.remaining = 0
    /\ IF kind = "multi"
         THEN cur' = NoStream /\ state' = state + 1 /\ Loop
         ELSE cur' = [cur EXCEPT !.is = "spent"] /\ UNCHANGED state /\ ReturnLast("ended")
    /\ UNCHANGED <<chunk, remaining>>

-----------------------------------------------------------------------------
(* MultipartStream without a current part *)

Between == pc = "polling" /\ kind = "multi" /\ cur.is = "none"

part == state \div 2
odd  == state % 2 = 1

\* Mutant of Header: the header's length is not subtracted.
HeaderUncounted ==
    /\ Between
    /\ part < Parts /\ ~ odd
    /\ state' = state + 1
    /\ ReturnData(HeaderLen[part])
    /\ UNCHANGED <<chunk, cur, remaining>>

Header ==
    /\ Between
    /\ part < Parts /\ ~ odd
    /\ state' = state + 1
    /\ remaining' = Sub(remaining, HeaderLen[part])
    /\ ReturnData(HeaderLen[part])
    /\ UNCHANGED <<chunk, cur>>

OpenPart ==
    /\ Between
    /\ part < Parts /\ odd
    /\ cur' = Stream(PartLen[part], PartLen[part])
    /\ Loop
    /\ UNCHANGED <<chunk, state, remaining>>

Trailer ==
    /\ Between
    /\ part = Parts /\ ~ odd
    /\ state' = state + 1
    /\ remaining' = Sub(remaining, TrailerLen)
    /\ ReturnData(TrailerLen)
    /\ UNCHANGED <<chunk, cur>>

PollEnd ==
    /\ Between
    /\ part = Parts /\ odd
    /\ ReturnLast("ended")
    /\ UNCHANGED <<chunk, cur, state, remaining>>

-----------------------------------------------------------------------------

Turn ==
    \/ Once \/ Read \/ Overrun \/ ReadFails \/ Underrun \/ CurDone
    \/ Header \/ OpenPart \/ Trailer \/ PollEnd

\* Mutant of Drop: the body has no destructor.
DropSilently ==
    /\ pc = "held"
    /\ pc' = "dropped"
    /\ status' = IF status = "open" THEN "dropped" ELSE status
    /\ UNCHANGED <<kind, chunk, cur, state, remaining, on_complete, calls, sent,
                   announced>>

\* The consumer drops the body between two polls; the destructor takes the hook
\* and runs it.
Drop ==
    /\ pc = "held"
    /\ pc' = "dropped"
    /\ on_complete' = "none"
    /\ status' = IF status = "open" THEN "dropped" ELSE status
    /\ calls' = calls + (IF on_complete = "some" THEN 1 ELSE 0)
    /\ UNCHANGED <<kind, chunk, cur, state, remaining, sent, announced>>

Next == Poll \/ Turn \/ Drop

\* poll_frame returns without waiting for anything, and the server polls a body
\* until it is over or drops it.
Fairness == WF_vars(Turn) /\ WF_vars(Poll \/ Drop)

Spec == Init /\ [][Next]_vars /\ Fairness

-----------------------------------------------------------------------------
(* Properties *)

Cursors == [is : {"none", "open", "spent"}, remaining : 0 .. U64 - 1, left : Nat]

\* The types of the state; while a part of a multipart body is open, the state
\* says so.
TypeOK ==
    /\ kind \in {"once", "exact", "multi"}
    /\ chunk \in OnceLens \cup {NoChunk}
    /\ cur \in Cursors
    /\ state \in 0 .. EndState
    /\ remaining \in 0 .. U64 - 1
    /\ on_complete \in {"some", "none"}
    /\ pc \in {"held", "polling", "dropped"}
    /\ status \in {"open", "ended", "failed", "dropped"}
    /\ calls \in Nat
    /\ sent \in Nat
    /\ announced \in 0 .. U64 - 1
    /\ kind = "multi" /\ cur.is # "none" /\ status = "open" => odd /\ part < Parts

\* size_hint is exact at every moment: what was handed over and what is still
\* announced add up to the Content-Length computed before the first byte, across
\* headers, short reads, parts and trailer; a body that ends has sent all of it.
LengthKept ==
    status \in {"open", "ended"} =>
        /\ sent + SizeHint = announced
        /\ status = "ended" => sent = announced

\* The end is final: no byte follows once is_end_stream holds of a body that has not
\* failed, nor after None, whatever the inner stream still holds.  Nothing is said of
\* polls after an error: there the "Fuse" of MultipartStream (body.rs:361-366) sets
\* remaining and state but leaves cur in place, which is polled first and may deliver.
NothingAfterEnd ==
    [][(status = "open" /\ IsEndStream) \/ status = "ended" => sent' = sent]_vars

\* Body implements BodyContract, the view of the server that sends it: among
\* other things the hook runs exactly once however the body is over.
Contract == INSTANCE BodyContract WITH
    left   <- IF status = "open" THEN SizeHint ELSE 0,
    given  <- sent

ImplementsContract == Contract!Spec

\* Every body is over some time, with its hook run: no turn of the loop waits
\* for something that never comes.
EventuallyCompletes == <>(calls = 1)
=============================================================================
