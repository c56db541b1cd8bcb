----------------------------- MODULE BodyProofs -----------------------------
(***************************************************************************)
(* Proofs about Body: for any number of parts, any lengths and any inner   *)
(* streams, the announced length is kept, nothing follows the end, and     *)
(* Body implements BodyContract.                                           *)
(*                                                                         *)
(* The heart of the inductive invariant is MultiInv: what remaining has to *)
(* be in each state of a multipart body.                                   *)
(***************************************************************************)
EXTENDS Body, TLAPS

\* The premise of the theorems about what a body delivers, but for Finality and Hook:
\* the consumer does not poll after an error, as hyper does not (see NothingAfterEnd).
StopsAtError == PollsAfterError = FALSE

HookInv ==
    /\ status = "open" => on_complete = "some" /\ calls = 0
    /\ status # "open" => on_complete = "none" /\ calls = 1

PollInv ==
    /\ pc = "polling" => status \in {"open", "ended"}
    /\ pc = "polling" /\ status = "ended" => kind # "exact"
    /\ status = "dropped" => pc = "dropped"

\* The streams by kind of body.
CurInv ==
    /\ kind = "once" => cur.is = "none"
    /\ kind = "exact" => cur.is # "none"
    /\ kind = "exact" /\ status = "open" => cur.is = "open"

EndInv ==
    status = "ended" =>
        /\ kind = "once" => chunk = NoChunk
        /\ kind = "exact" => cur.remaining = 0
        /\ kind = "multi" => state = EndState /\ cur.is = "none" /\ remaining = 0

\* What is still announced, in each state of a multipart body.
MultiInv ==
    kind = "multi" /\ status = "open" =>
        \/ /\ cur.is = "open" /\ odd /\ part < Parts
           /\ cur.left = cur.remaining
           /\ remaining = cur.remaining + Rest[part + 1]
        \/ /\ cur.is = "none"
           /\ ~ odd => remaining = Rest[part]
           /\ odd /\ part < Parts => remaining = PartLen[part] + Rest[part + 1]
           /\ odd /\ part = Parts => remaining = 0

IInv ==
    /\ TypeOK
    /\ HookInv
    /\ PollInv
    /\ CurInv
    /\ EndInv
    /\ MultiInv
    /\ LengthKept

\* The state of a multipart body is a part number and a parity.
LEMMA StateFacts ==
    ASSUME state \in 0 .. EndState
    PROVE  /\ part \in 0 .. Parts
           /\ (state + 1) \in Nat
           /\ odd  => state = 2 * part + 1
           /\ ~ odd => state = 2 * part
           /\ odd  => (state + 1) \div 2 = part + 1 /\ (state + 1) % 2 = 0
           /\ ~ odd => (state + 1) \div 2 = part /\ (state + 1) % 2 = 1
  BY BodyAssumption DEF EndState, part, odd

\* The lengths are natural numbers, and a part's bytes are within the total.
LEMMA RestFacts ==
    ASSUME NEW i \in 0 .. Parts - 1
    PROVE  /\ HeaderLen[i] \in Nat /\ PartLen[i] \in Nat
           /\ Rest[i] \in Nat /\ Rest[i + 1] \in Nat
           /\ Rest[i] = HeaderLen[i] + PartLen[i] + Rest[i + 1]
<1>1. i \in 0 .. Parts /\ i + 1 \in 0 .. Parts
  BY BodyAssumption
<1>2. QED
  BY <1>1, BodyAssumption, LengthAssumption

\* A subtraction that does not underflow is one.
LEMMA SubFacts ==
    ASSUME NEW a \in 0 .. U64 - 1, NEW b \in Nat, b <= a
    PROVE  /\ Sub(a, b) = a - b
           /\ Sub(a, b) \in 0 .. U64 - 1
  BY BodyAssumption DEF Sub

\* The counters are 64-bit numbers.
LEMMA U64Facts == U64 \in Nat /\ 0 \in 0 .. U64 - 1
<1>1. Rest[0] \in Nat
  BY BodyAssumption, LengthAssumption
<1>2. QED
  BY <1>1, BodyAssumption, LengthAssumption

\* What a stream counts, and what is left of it after n bytes.
LEMMA CursorFacts ==
    ASSUME NEW c \in Cursors, NEW n \in 1 .. c.left
    PROVE  /\ n \in Nat /\ c.left \in Nat /\ c.left - n \in Nat
           /\ c.remaining \in 0 .. U64 - 1
           /\ n <= c.remaining => c.remaining - n \in 0 .. U64 - 1
<1>1. c.left \in Nat /\ c.remaining \in 0 .. U64 - 1
  BY DEF Cursors
<1>2. QED
  BY <1>1, U64Facts

LEMMA InitIInv == Init => IInv
<1> SUFFICES ASSUME Init PROVE IInv
  OBVIOUS
<1> USE BodyAssumption DEF Init
<1>0. EndState \in Nat /\ 0 \in 0 .. EndState
  BY DEF EndState
<1>1. CASE InitOnce
  <2>1. cur \in Cursors /\ cur.is = "none"
    BY <1>1, LengthAssumption DEF InitOnce, NoStream, Cursors
  <2>2. SizeHint \in 0 .. U64 - 1 /\ remaining \in 0 .. U64 - 1
    BY <1>1, LengthAssumption DEF InitOnce, SizeHint, NoChunk
  <2>3. QED
    BY <1>0, <1>1, <2>1, <2>2 DEF InitOnce, IInv, TypeOK, HookInv, PollInv, CurInv,
       EndInv, MultiInv, LengthKept
<1>2. CASE InitExact
  <2>1. PICK s \in Streams : cur = Stream(s.len, s.yields)
    BY <1>2 DEF InitExact
  <2>2. s.len \in 0 .. U64 - 1 /\ s.yields \in Nat
    BY <2>1
  <2>3. cur \in Cursors /\ cur.is = "open"
    BY <2>1, <2>2 DEF Stream, Cursors
  <2>4. SizeHint \in 0 .. U64 - 1 /\ remaining \in 0 .. U64 - 1
    BY <1>2, <2>3, LengthAssumption DEF InitExact, SizeHint, Cursors
  <2>5. QED
    BY <1>0, <1>2, <2>3, <2>4 DEF InitExact, IInv, TypeOK, HookInv, PollInv, CurInv,
       EndInv, MultiInv, LengthKept
<1>3. CASE InitMulti
  <2>1. cur \in Cursors /\ cur.is = "none"
    BY <1>3, LengthAssumption DEF InitMulti, NoStream, Cursors
  <2>2. Rest[0] \in 0 .. U64 - 1
    BY LengthAssumption
  <2>3. part = 0 /\ ~ odd
    BY <1>3 DEF InitMulti, part, odd
  <2>4. QED
    BY <1>0, <1>3, <2>1, <2>2, <2>3 DEF InitMulti, SizeHint, IInv, TypeOK, HookInv,
       PollInv, CurInv, EndInv, MultiInv, LengthKept
<1>4. QED
  BY <1>1, <1>2, <1>3

\* poll_frame starts and the body is dropped: no stream is touched.
LEMMA PollDropIInv ==
    ASSUME IInv, StopsAtError \/ status = "open", Poll \/ Drop
    PROVE  IInv'
<1> USE DEF IInv
<1>1. UNCHANGED <<kind, chunk, cur, state, remaining, sent, announced>>
  BY DEF Poll, Drop
<1>2. HookInv' /\ PollInv'
  BY DEF Poll, Drop, HookInv, PollInv, StopsAtError, TypeOK
<1>3. SizeHint' = SizeHint /\ (odd <=> odd') /\ part' = part
  BY <1>1 DEF SizeHint, odd, part
<1>4. TypeOK'
  BY <1>1, <1>3 DEF Poll, Drop, TypeOK, HookInv
<1>5. CurInv' /\ EndInv' /\ MultiInv' /\ LengthKept'
  BY <1>1, <1>3 DEF Poll, Drop, TypeOK, CurInv, EndInv, MultiInv, LengthKept
<1>6. QED
  BY <1>2, <1>4, <1>5

\* A poll that returns the end or an error, for every stream.
LEMMA LastIInv ==
    ASSUME IInv, pc = "polling", NEW s \in {"ended", "failed"}, ReturnLast(s)
    PROVE  HookInv' /\ PollInv'
<1>1. status \in {"open", "ended"}
  BY DEF IInv, PollInv
<1>2. calls' = 1 /\ on_complete' = "none" /\ status' \in {"ended", "failed"} /\ pc' = "held"
  BY <1>1 DEF ReturnLast, IInv, HookInv
<1>3. QED
  BY <1>2 DEF HookInv, PollInv

\* A poll that returns data, and a turn after which the loop goes on, for every
\* stream.
LEMMA MoreIInv ==
    ASSUME IInv, pc = "polling", Loop \/ \E n : ReturnData(n)
    PROVE  HookInv' /\ PollInv'
  BY DEF IInv, HookInv, PollInv, Loop, ReturnData

LEMMA OnceIInv ==
    ASSUME IInv, Once
    PROVE  IInv'
<1> USE DEF IInv
<1>1. HookInv' /\ PollInv'
  BY LastIInv, MoreIInv DEF Once
<1>2. kind = "once" /\ kind' = "once" /\ UNCHANGED <<cur, state, remaining, announced>>
  BY DEF Once, ReturnLast, ReturnData
<1>3. CASE chunk = NoChunk
  <2>2. status \in {"open", "ended"}
    BY DEF Once, PollInv
  <2>1. chunk' = chunk /\ status' = "ended" /\ sent' = sent /\ calls' = 1
        /\ on_complete' = "none" /\ pc' = "held"
    BY <1>1, <1>3, <2>2 DEF Once, ReturnLast, HookInv
  <2>3. TypeOK'
    BY <1>2, <2>1 DEF TypeOK, odd, part
  <2>4. CurInv' /\ EndInv' /\ MultiInv' /\ LengthKept'
    BY <1>2, <1>3, <2>1, <2>2 DEF CurInv, EndInv, MultiInv, LengthKept, SizeHint, TypeOK
  <2>5. QED
    BY <1>1, <2>3, <2>4
<1>4. CASE chunk # NoChunk
  <2>1. chunk' = NoChunk /\ UNCHANGED <<status, calls, on_complete>> /\ pc' = "held"
        /\ sent' = sent + chunk
    BY <1>4 DEF Once, ReturnData
  <2>2. status = "open"
    BY <1>2, <1>4 DEF Once, PollInv, EndInv
  <2>3. chunk \in 0 .. U64 - 1
    BY <1>4, BodyAssumption DEF TypeOK
  <2>4. TypeOK'
    BY <1>2, <2>1, <2>3, BodyAssumption DEF TypeOK, odd, part
  <2>5. CurInv' /\ EndInv' /\ MultiInv'
    BY <1>2, <2>1, <2>2 DEF CurInv, EndInv, MultiInv
  <2>6. LengthKept'
    BY <1>2, <1>4, <2>1, <2>2, <2>3 DEF LengthKept, SizeHint, TypeOK
  <2>7. QED
    BY <1>1, <2>4, <2>5, <2>6
<1>5. QED
  BY <1>3, <1>4

\* What is known when the current stream is polled.
LEMMA ReadingFacts ==
    ASSUME IInv, ReadingCur
    PROVE  /\ kind \in {"exact", "multi"} /\ status = "open"
           /\ cur \in Cursors /\ cur.is = "open"
           /\ kind = "multi" => /\ odd /\ part \in 0 .. Parts - 1
                                /\ cur.left = cur.remaining
                                /\ remaining = cur.remaining + Rest[part + 1]
<1> USE DEF IInv, ReadingCur
<1>1. kind \in {"exact", "multi"} /\ cur \in Cursors /\ cur.is = "open"
  BY DEF CurInv, TypeOK
<1>2. status = "open"
  BY <1>1 DEF PollInv, EndInv
<1>3. part \in 0 .. Parts
  BY StateFacts DEF TypeOK
<1>4. QED
  BY <1>1, <1>2, <1>3, BodyAssumption DEF MultiInv

LEMMA ReadIInv ==
    ASSUME IInv, Read
    PROVE  IInv'
<1> USE DEF IInv
<1>1. HookInv' /\ PollInv'
  BY MoreIInv DEF Read, ReadingCur
<1>f. /\ kind \in {"exact", "multi"} /\ status = "open"
      /\ cur \in Cursors /\ cur.is = "open"
      /\ kind = "multi" => /\ odd /\ part \in 0 .. Parts - 1
                           /\ cur.left = cur.remaining
                           /\ remaining = cur.remaining + Rest[part + 1]
  BY ReadingFacts DEF Read
<1>2. PICK n \in 1 .. cur.left :
        /\ n <= cur.remaining
        /\ cur' = [cur EXCEPT !.remaining = @ - n, !.left = @ - n]
        /\ remaining' = IF kind = "multi" THEN Sub(remaining, n) ELSE remaining
        /\ ReturnData(n)
  BY DEF Read
<1>3. /\ cur.remaining \in 0 .. U64 - 1 /\ cur.left \in Nat /\ n \in Nat
      /\ cur'.remaining = cur.remaining - n /\ cur'.left = cur.left - n
      /\ cur'.is = "open" /\ cur' \in Cursors
  <2>1. /\ cur.remaining \in 0 .. U64 - 1 /\ cur.left \in Nat /\ n \in Nat
        /\ cur.remaining - n \in 0 .. U64 - 1 /\ cur.left - n \in Nat
    BY <1>f, <1>2, CursorFacts
  <2>2. /\ cur'.remaining = cur.remaining - n /\ cur'.left = cur.left - n
        /\ cur'.is = "open"
    BY <1>f, <1>2 DEF Cursors
  <2>3. cur' \in Cursors
    BY <1>f, <1>2, <2>1 DEF Cursors
  <2>4. QED
    BY <2>1, <2>2, <2>3
<1>4. /\ UNCHANGED <<kind, chunk, state, announced, on_complete, status, calls>>
      /\ pc' = "held" /\ sent' = sent + n
  BY <1>2 DEF Read, ReturnData
<1>5. kind = "multi" =>
        /\ remaining' = remaining - n
        /\ remaining' \in 0 .. U64 - 1
  <2> SUFFICES ASSUME kind = "multi"
               PROVE  remaining' = remaining - n /\ remaining' \in 0 .. U64 - 1
    OBVIOUS
  <2>1. Rest[part + 1] \in Nat
    BY <1>f, RestFacts
  <2>2. n <= remaining /\ remaining \in 0 .. U64 - 1
    BY <1>f, <1>2, <1>3, <2>1 DEF TypeOK
  <2>3. QED
    BY <1>2, <1>3, <2>2, SubFacts
<1>6. (odd <=> odd') /\ part' = part
  BY <1>4 DEF odd, part
<1>7. TypeOK'
  <2>1. remaining' \in 0 .. U64 - 1
    BY <1>2, <1>5, <1>f DEF TypeOK
  <2>2. sent' \in Nat
    BY <1>3, <1>4 DEF TypeOK
  <2>3. kind' = "multi" => odd' /\ part' < Parts
    BY <1>4, <1>6, <1>f, BodyAssumption
  <2>4. QED
    BY <1>3, <1>4, <2>1, <2>2, <2>3 DEF TypeOK
<1>8. CurInv' /\ EndInv'
  BY <1>3, <1>4, <1>f DEF CurInv, EndInv
<1>9. MultiInv'
  <2> SUFFICES ASSUME kind = "multi" PROVE MultiInv'
    BY <1>4 DEF MultiInv
  <2>1. Rest[part + 1] \in Nat
    BY <1>f, RestFacts
  <2>2. remaining' = cur'.remaining + Rest[part + 1] /\ cur'.left = cur'.remaining
    BY <1>3, <1>5, <1>f, <2>1
  <2>3. QED
    BY <1>3, <1>6, <1>f, <2>2, BodyAssumption DEF MultiInv
<1>10. LengthKept'
  <2>1. SizeHint' = SizeHint - n /\ SizeHint \in Int
    BY <1>3, <1>4, <1>5, <1>f DEF SizeHint, TypeOK
  <2>2. QED
    BY <1>3, <1>4, <1>f, <2>1 DEF LengthKept, TypeOK
<1>11. QED
  BY <1>1, <1>7, <1>8, <1>9, <1>10

\* The current stream fails, in any of the three ways.
LEMMA FailIInv ==
    ASSUME IInv, Overrun \/ ReadFails \/ Underrun
    PROVE  IInv'
<1> USE DEF IInv
<1>f. kind \in {"exact", "multi"} /\ status = "open" /\ cur \in Cursors /\ cur.is = "open"
  BY ReadingFacts DEF Overrun, ReadFails, Underrun
<1>1. ReturnLast("failed") /\ FuseMultipart /\ chunk' = chunk
  BY DEF Overrun, ReadFails, Underrun
<1>2. HookInv' /\ PollInv'
  BY <1>1, LastIInv DEF Overrun, ReadFails, Underrun, ReadingCur
<1>3. cur' \in Cursors /\ cur'.is \in {"open", "spent"}
  <2>1. CASE Overrun
    <3>1. PICK n \in 1 .. cur.left : cur' = [cur EXCEPT !.remaining = 0, !.left = @ - n]
      BY <2>1 DEF Overrun
    <3>2. cur.left - n \in Nat /\ 0 \in 0 .. U64 - 1
      BY <1>f, CursorFacts, U64Facts
    <3>3. QED
      BY <3>1, <3>2, <1>f DEF Cursors
  <2>2. CASE ReadFails
    BY <2>2, <1>f DEF ReadFails
  <2>3. CASE Underrun
    <3>1. 0 \in 0 .. U64 - 1
      BY U64Facts
    <3>2. QED
      BY <2>3, <3>1, <1>f DEF Underrun, Cursors
  <2>4. QED
    BY <2>1, <2>2, <2>3
<1>4. /\ state' \in 0 .. EndState /\ remaining' \in 0 .. U64 - 1
  <2>1. EndState \in 0 .. EndState /\ 0 \in 0 .. U64 - 1
    BY BodyAssumption, LengthAssumption DEF EndState
  <2>2. QED
    BY <1>1, <2>1 DEF FuseMultipart, TypeOK
<1>5. status' = "failed" /\ kind' = kind /\ sent' = sent /\ announced' = announced
      /\ pc' = "held"
  BY <1>1, <1>f DEF ReturnLast
<1>6. TypeOK'
  BY <1>1, <1>2, <1>3, <1>4, <1>5 DEF TypeOK, HookInv
<1>7. CurInv' /\ EndInv' /\ MultiInv' /\ LengthKept'
  BY <1>3, <1>5, <1>f DEF CurInv, EndInv, MultiInv, LengthKept
<1>8. QED
  BY <1>2, <1>6, <1>7
LEMMA CurDoneIInv ==
    ASSUME IInv, CurDone
    PROVE  IInv'
<1> USE DEF IInv
<1>f. /\ kind \in {"exact", "multi"} /\ status = "open"
      /\ cur \in Cursors /\ cur.is = "open" /\ cur.remaining = 0
      /\ kind = "multi" => /\ odd /\ part \in 0 .. Parts - 1
                           /\ remaining = cur.remaining + Rest[part + 1]
      /\ UNCHANGED <<kind, chunk, remaining, sent, announced>>
  BY ReadingFacts DEF CurDone, Loop, ReturnLast
<1>1. HookInv' /\ PollInv'
  BY LastIInv, MoreIInv DEF CurDone, ReadingCur
<1>2. CASE kind = "multi"
  <2>1. /\ cur' = NoStream /\ state' = state + 1
        /\ UNCHANGED <<pc, status, calls, on_complete>>
    BY <1>2 DEF CurDone, Loop
  <2>2. /\ part' = part + 1 /\ ~ odd' /\ state' \in 0 .. EndState
    <3>1. state \in 0 .. EndState /\ part \in 0 .. Parts
      BY StateFacts DEF TypeOK
    <3>2. /\ (state + 1) \div 2 = part + 1 /\ (state + 1) % 2 = 0
          /\ state = 2 * part + 1
      BY <1>2, <1>f, <3>1, StateFacts
    <3>3. state + 1 \in 0 .. EndState
      BY <1>2, <1>f, <3>1, <3>2, BodyAssumption DEF EndState
    <3>4. part' = part + 1 /\ ~ odd'
      BY <2>1, <3>2 DEF part, odd
    <3>5. QED
      BY <2>1, <3>3, <3>4
  <2>3. cur' \in Cursors /\ cur'.is = "none"
    BY <2>1, U64Facts DEF NoStream, Cursors
  <2>4. TypeOK'
    BY <1>f, <2>1, <2>2, <2>3 DEF TypeOK
  <2>5. remaining = Rest[part + 1]
    BY <1>2, <1>f, RestFacts
  <2>6. CurInv' /\ EndInv' /\ MultiInv'
    BY <1>2, <1>f, <2>1, <2>2, <2>3, <2>5 DEF CurInv, EndInv, MultiInv
  <2>7. LengthKept'
    BY <1>2, <1>f, <2>1 DEF LengthKept, SizeHint
  <2>8. QED
    BY <1>1, <2>4, <2>6, <2>7
<1>3. CASE kind = "exact"
  <2>1. /\ cur' = [cur EXCEPT !.is = "spent"] /\ state' = state
        /\ status' = "ended" /\ pc' = "held"
    BY <1>3, <1>f DEF CurDone, ReturnLast
  <2>2. cur' \in Cursors /\ cur'.is = "spent" /\ cur'.remaining = 0
    BY <1>f, <2>1 DEF Cursors
  <2>3. TypeOK'
    BY <1>1, <1>3, <1>f, <2>1, <2>2 DEF TypeOK, HookInv
  <2>4. CurInv' /\ EndInv' /\ MultiInv'
    BY <1>3, <1>f, <2>1, <2>2 DEF CurInv, EndInv, MultiInv
  <2>5. LengthKept'
    BY <1>3, <1>f, <2>1, <2>2 DEF LengthKept, SizeHint, TypeOK
  <2>6. QED
    BY <1>1, <2>3, <2>4, <2>5
<1>4. QED
  BY <1>2, <1>3, <1>f

\* A header or the trailer: a frame of len bytes, after which MultiInv asks for
\* rest.
LEMMA FrameIInv ==
    ASSUME IInv, Between, NEW len \in Nat, NEW rest \in Nat,
           status = "open", ~ odd, remaining = len + rest,
           remaining' = Sub(remaining, len), state' = state + 1,
           ReturnData(len), UNCHANGED <<chunk, cur>>,
           part < Parts => rest = PartLen[part] + Rest[part + 1],
           part = Parts => rest = 0
    PROVE  IInv'
<1> USE DEF IInv, Between
<1>1. HookInv' /\ PollInv'
  BY MoreIInv
<1>2. /\ UNCHANGED <<kind, chunk, cur, announced, on_complete, status, calls>>
      /\ pc' = "held" /\ sent' = sent + len
  BY DEF ReturnData
<1>3. remaining' = rest /\ remaining' \in 0 .. U64 - 1
  <2>1. remaining \in 0 .. U64 - 1 /\ len <= remaining
    BY U64Facts DEF TypeOK
  <2>2. QED
    BY <2>1, SubFacts
<1>4. /\ part' = part /\ odd' /\ state' \in 0 .. EndState
  <2>1. /\ (state + 1) \div 2 = part /\ (state + 1) % 2 = 1
        /\ state = 2 * part /\ part \in 0 .. Parts
    BY StateFacts DEF TypeOK
  <2>2. state + 1 \in 0 .. EndState
    BY <2>1, BodyAssumption DEF EndState
  <2>3. part' = part /\ odd' = (1 = 1)
    BY <2>1 DEF part, odd
  <2>4. QED
    BY <2>2, <2>3
<1>5. TypeOK'
  BY <1>2, <1>3, <1>4 DEF TypeOK
<1>6. CurInv' /\ EndInv'
  BY <1>2 DEF CurInv, EndInv
<1>7. MultiInv'
  BY <1>2, <1>3, <1>4 DEF MultiInv
<1>8. LengthKept'
  BY <1>2, <1>3 DEF LengthKept, SizeHint, TypeOK
<1>9. QED
  BY <1>1, <1>5, <1>6, <1>7, <1>8

\* Between parts an ended multipart body is at the end state, so a turn before
\* that state finds it open.
LEMMA BetweenFacts ==
    ASSUME IInv, Between
    PROVE  /\ part \in 0 .. Parts
           /\ ~ (part = Parts /\ odd) => status = "open"
           /\ status = "open" /\ ~ odd => remaining = Rest[part]
           /\ status = "open" /\ odd /\ part < Parts =>
                remaining = PartLen[part] + Rest[part + 1]
           /\ status = "open" /\ odd /\ part = Parts => remaining = 0
<1> USE DEF IInv, Between
<1>1. part \in 0 .. Parts
  BY StateFacts DEF TypeOK
<1>2. status \in {"open", "ended"}
  BY DEF PollInv
<1>3. status = "ended" => part = Parts /\ odd
  <2>1. status = "ended" => state = 2 * Parts + 1
    BY DEF EndInv, EndState
  <2>2. (2 * Parts + 1) \div 2 = Parts /\ (2 * Parts + 1) % 2 = 1
    BY BodyAssumption
  <2>3. QED
    BY <2>1, <2>2 DEF part, odd
<1>4. QED
  BY <1>1, <1>2, <1>3 DEF MultiInv

LEMMA HeaderIInv ==
    ASSUME IInv, Header
    PROVE  IInv'
<1>1. Between /\ ~ odd /\ part \in 0 .. Parts - 1
  BY BetweenFacts, BodyAssumption DEF Header
<1>2. status = "open" /\ remaining = Rest[part]
  BY <1>1, BetweenFacts, BodyAssumption
<1>3. /\ HeaderLen[part] \in Nat /\ PartLen[part] + Rest[part + 1] \in Nat
      /\ remaining = HeaderLen[part] + (PartLen[part] + Rest[part + 1])
  BY <1>1, <1>2, RestFacts
<1>4. part # Parts
  BY <1>1, BodyAssumption
<1>5. QED
  BY <1>1, <1>2, <1>3, <1>4, FrameIInv DEF Header

LEMMA TrailerIInv ==
    ASSUME IInv, Trailer
    PROVE  IInv'
<1>1. Between /\ ~ odd /\ part = Parts
  BY DEF Trailer
<1>2. status = "open" /\ remaining = TrailerLen
  BY <1>1, BetweenFacts, LengthAssumption
<1>3. TrailerLen \in Nat /\ ~ (part < Parts) /\ remaining = TrailerLen + 0
  BY <1>1, <1>2, BodyAssumption
<1>4. QED
  BY <1>1, <1>2, <1>3, FrameIInv DEF Trailer

LEMMA OpenPartIInv ==
    ASSUME IInv, OpenPart
    PROVE  IInv'
<1> USE DEF IInv
<1>1. Between /\ odd /\ part \in 0 .. Parts - 1
  BY BetweenFacts, BodyAssumption DEF OpenPart
<1>2. status = "open" /\ remaining = PartLen[part] + Rest[part + 1]
  BY <1>1, BetweenFacts, BodyAssumption
<1>3. /\ UNCHANGED <<kind, chunk, state, remaining, on_complete, pc, status, calls,
                     sent, announced>>
      /\ cur' = Stream(PartLen[part], PartLen[part])
  BY DEF OpenPart, Loop
<1>4. part' = part /\ (odd <=> odd')
  BY <1>3 DEF part, odd
<1>5. PartLen[part] \in 0 .. U64 - 1
  <2>1. remaining \in 0 .. U64 - 1 /\ PartLen[part] \in Nat /\ Rest[part + 1] \in Nat
    BY <1>1, RestFacts DEF TypeOK
  <2>2. QED
    BY <1>2, <2>1, U64Facts
<1>6. /\ cur' \in Cursors /\ cur'.is = "open"
      /\ cur'.left = PartLen[part] /\ cur'.remaining = PartLen[part]
  BY <1>1, <1>3, <1>5, RestFacts DEF Stream, Cursors
<1>7. part < Parts
  BY <1>1, BodyAssumption
<1>8. TypeOK'
  BY <1>1, <1>3, <1>4, <1>6, <1>7 DEF TypeOK
<1>9. HookInv' /\ PollInv' /\ CurInv' /\ EndInv'
  BY <1>1, <1>2, <1>3, <1>6 DEF HookInv, PollInv, CurInv, EndInv, Between
<1>10. MultiInv'
  BY <1>1, <1>2, <1>3, <1>4, <1>6, <1>7 DEF MultiInv
<1>11. LengthKept'
  BY <1>1, <1>3 DEF LengthKept, SizeHint, Between
<1>12. QED
  BY <1>8, <1>9, <1>10, <1>11

LEMMA PollEndIInv ==
    ASSUME IInv, PollEnd
    PROVE  IInv'
<1> USE DEF IInv
<1>1. Between /\ odd /\ part = Parts /\ kind = "multi" /\ cur.is = "none"
  BY DEF PollEnd, Between
<1>2. HookInv' /\ PollInv'
  BY LastIInv DEF PollEnd, Between
<1>4. remaining = 0 /\ status \in {"open", "ended"}
  BY <1>1, BetweenFacts DEF EndInv, PollInv, Between
<1>3. /\ UNCHANGED <<kind, chunk, cur, state, remaining, sent, announced>>
      /\ status' = "ended" /\ pc' = "held"
  BY <1>4 DEF PollEnd, ReturnLast
<1>5. state = EndState
  BY <1>1, StateFacts DEF TypeOK, EndState
<1>6. TypeOK'
  BY <1>1, <1>2, <1>3 DEF TypeOK, HookInv
<1>7. CurInv' /\ EndInv' /\ MultiInv'
  BY <1>1, <1>3, <1>4, <1>5 DEF CurInv, EndInv, MultiInv
<1>8. LengthKept'
  BY <1>1, <1>3, <1>4 DEF LengthKept, SizeHint, TypeOK
<1>9. QED
  BY <1>2, <1>6, <1>7, <1>8

LEMMA NextIInv ==
    ASSUME IInv, StopsAtError \/ status = "open", [Next]_vars
    PROVE  IInv'
<1>1. CASE Poll \/ Drop
  BY <1>1, PollDropIInv
<1>2. CASE Turn
  BY <1>2, OnceIInv, ReadIInv, FailIInv, CurDoneIInv, HeaderIInv, OpenPartIInv,
     TrailerIInv, PollEndIInv DEF Turn
<1>3. CASE UNCHANGED vars
  <2>1. (odd <=> odd') /\ part' = part /\ SizeHint' = SizeHint
    BY <1>3 DEF vars, odd, part, SizeHint
  <2>2. QED
    BY <1>3, <2>1 DEF vars, IInv, TypeOK, HookInv, PollInv, CurInv, EndInv, MultiInv,
       LengthKept
<1>4. QED
  BY <1>1, <1>2, <1>3 DEF Next

\* The inductive invariant.
THEOREM Invariance == ASSUME StopsAtError PROVE Spec => []IInv
<1>1. IInv /\ [Next]_vars => IInv'
  BY NextIInv
<1>2. QED
  BY <1>1, InitIInv, PTL DEF Spec
-----------------------------------------------------------------------------
(* The theorems *)

\* The types hold for any lengths and streams.
THEOREM TypeCorrect == ASSUME StopsAtError PROVE Spec => []TypeOK
<1>1. IInv => TypeOK
  BY DEF IInv
<1>2. QED
  BY <1>1, Invariance, PTL

\* The Content-Length is kept, for any ranges and any sizes of reads.
THEOREM ExactLength == ASSUME StopsAtError PROVE Spec => []LengthKept
<1>1. IInv => LengthKept
  BY DEF IInv
<1>2. QED
  BY <1>1, Invariance, PTL

\* A turn that hands over bytes takes as many from what is announced.
LEMMA TurnHint ==
    ASSUME IInv, IInv', Turn, status' = "open"
    PROVE  /\ status = "open"
           /\ SizeHint \in Nat /\ SizeHint' \in Nat
           /\ sent + SizeHint = sent' + SizeHint'
           /\ sent \in Nat /\ sent' \in Nat /\ sent <= sent'
<1>1. status = "open" /\ announced' = announced
  BY DEF Turn, Once, Read, Overrun, ReadFails, Underrun, CurDone, Header, OpenPart,
     Trailer, PollEnd, ReturnLast, ReturnData, Loop
<1>2. SizeHint \in Nat /\ SizeHint' \in Nat
  <2>1. /\ chunk \in 0 .. U64 - 1 \/ chunk = NoChunk
        /\ cur.remaining \in Nat /\ remaining \in Nat
    BY U64Facts, BodyAssumption DEF IInv, TypeOK, Cursors
  <2>2. /\ chunk' \in 0 .. U64 - 1 \/ chunk' = NoChunk
        /\ cur'.remaining \in Nat /\ remaining' \in Nat
    BY U64Facts, BodyAssumption DEF IInv, TypeOK, Cursors
  <2>3. QED
    BY <2>1, <2>2, U64Facts DEF SizeHint
<1>3. sent + SizeHint = sent' + SizeHint'
  BY <1>1 DEF IInv, LengthKept
<1>4. sent \in Nat /\ sent' \in Nat
  BY DEF IInv, TypeOK
<1>5. sent <= sent'
  <2>1. sent' = sent \/ \E n \in Nat : sent' = sent + n
    <3>1. CASE Once
      <4>1. chunk # NoChunk => chunk \in Nat
        BY U64Facts, BodyAssumption DEF IInv, TypeOK
      <4>2. QED
        BY <3>1, <4>1 DEF Once, ReturnLast, ReturnData
    <3>2. CASE Read
      BY <3>2, ReadingFacts, CursorFacts DEF Read, ReturnData
    <3>3. CASE Header
      <4>1. HeaderLen[part] \in Nat
        BY <3>3, BetweenFacts, BodyAssumption, RestFacts DEF Header
      <4>2. QED
        BY <3>3, <4>1 DEF Header, ReturnData
    <3>4. CASE Trailer
      BY <3>4, BodyAssumption DEF Trailer, ReturnData
    <3>5. CASE Overrun \/ ReadFails \/ Underrun \/ CurDone \/ OpenPart \/ PollEnd
      BY <3>5 DEF Overrun, ReadFails, Underrun, CurDone, OpenPart, PollEnd, ReturnLast, Loop
    <3>6. QED
      BY <3>1, <3>2, <3>3, <3>4, <3>5 DEF Turn
  <2>2. QED
    BY <1>4, <2>1
<1>6. QED
  BY <1>1, <1>2, <1>3, <1>4, <1>5

\* A body that is over stays as it is for the server.
LEMMA OverFacts ==
    ASSUME IInv, StopsAtError \/ status = "open", Next, status # "open"
    PROVE  UNCHANGED <<status, calls, sent>>
<1> USE DEF IInv
<1>1. CASE Poll \/ Drop
  BY <1>1 DEF Poll, Drop, HookInv, TypeOK
<1>2. CASE Turn
  <2>1. pc = "polling"
    BY <1>2 DEF Turn, Once, Read, Overrun, ReadFails, Underrun, CurDone, Header,
       OpenPart, Trailer, PollEnd, ReadingCur, Between
  <2>2. status = "ended" /\ kind # "exact"
    BY <2>1 DEF PollInv
  <2>3. CASE kind = "once"
    <3>1. Once /\ chunk = NoChunk
      BY <1>2, <2>2, <2>3 DEF Turn, Read, Overrun, ReadFails, Underrun, CurDone, Header,
         OpenPart, Trailer, PollEnd, ReadingCur, Between, CurInv, EndInv
    <3>2. QED
      BY <2>2, <3>1 DEF Once, ReturnLast, HookInv, TypeOK
  <2>4. CASE kind = "multi"
    <3>1. cur.is = "none" /\ Between
      BY <2>1, <2>2, <2>4 DEF EndInv, Between
    <3>2. part = Parts /\ odd
      BY <2>2, <3>1, BetweenFacts
    <3>3. ~ (Parts < Parts)
      BY BodyAssumption
    <3>4. PollEnd
      BY <1>2, <2>4, <3>1, <3>2, <3>3 DEF Turn, Once, Read, Overrun, ReadFails, Underrun,
         CurDone, Header, OpenPart, Trailer, ReadingCur
    <3>5. QED
      BY <2>2, <3>4 DEF PollEnd, ReturnLast, HookInv, TypeOK
  <2>5. QED
    BY <2>2, <2>3, <2>4 DEF TypeOK
<1>3. QED
  BY <1>1, <1>2 DEF Next

-----------------------------------------------------------------------------
(* The end, whatever the consumer does *)

\* A body that has not failed satisfies the inductive invariant, and one that has
\* ended has nothing left to give; neither needs StopsAtError.
OpenInv == status = "open" => IInv

OverInv ==
    /\ kind \in {"once", "exact", "multi"}
    /\ state \in Nat
    /\ kind = "once" => cur.is = "none"
    /\ status = "ended" =>
         /\ pc = "polling" => kind # "exact"
         /\ kind = "once" => chunk = NoChunk
         /\ kind = "multi" => state = EndState /\ cur.is = "none"

LEMMA OpenStep ==
    ASSUME OpenInv, [Next]_vars
    PROVE  OpenInv'
<1>1. status' = "open" => status = "open"
  BY DEF Next, Poll, Drop, vars, Turn, Once, Read, Overrun, ReadFails, Underrun, CurDone,
     Header, OpenPart, Trailer, PollEnd, ReturnLast, ReturnData, Loop
<1>2. QED
  BY <1>1, NextIInv DEF OpenInv

\* A poll of a body that has ended returns None again.
LEMMA EndedTurn ==
    ASSUME OverInv, Turn, status = "ended"
    PROVE  /\ (Once /\ chunk = NoChunk) \/ PollEnd
           /\ sent' = sent
<1>1. pc = "polling"
  BY DEF Turn, Once, Read, Overrun, ReadFails, Underrun, CurDone, Header,
     OpenPart, Trailer, PollEnd, ReadingCur, Between
<1>2. CASE kind = "once"
  BY <1>1, <1>2 DEF OverInv, Turn, Once, Read, Overrun, ReadFails, Underrun, CurDone, Header,
     OpenPart, Trailer, PollEnd, ReadingCur, Between, ReturnLast
<1>3. CASE kind = "multi"
  <2>1. state = EndState /\ cur.is = "none"
    BY <1>3 DEF OverInv
  <2>2. part = Parts /\ odd /\ ~ (Parts < Parts)
    BY <2>1, BodyAssumption DEF EndState, part, odd
  <2>3. PollEnd
    BY <1>3, <2>1, <2>2 DEF Turn, Once, Read, Overrun, ReadFails, Underrun, CurDone, Header,
       OpenPart, Trailer, ReadingCur, Between
  <2>4. QED
    BY <2>3 DEF PollEnd, ReturnLast
<1>4. QED
  BY <1>1, <1>2, <1>3 DEF OverInv

LEMMA OverStep ==
    ASSUME OverInv, [Next]_vars
    PROVE  OverInv'
<1>1. CASE Poll \/ Drop \/ UNCHANGED vars
  BY <1>1 DEF Poll, Drop, vars, OverInv
<1>2. CASE Turn /\ status = "ended"
  BY <1>2, EndedTurn DEF Once, PollEnd, ReturnLast, OverInv
<1>3. CASE Turn /\ status # "ended"
  <2>1. CASE Once
    BY <1>3, <2>1 DEF Once, ReturnLast, ReturnData, OverInv
  <2>2. CASE Read \/ Overrun \/ ReadFails \/ Underrun
    <3>1. EndState \in Nat
      BY BodyAssumption DEF EndState
    <3>2. QED
      BY <1>3, <2>2, <3>1 DEF Read, Overrun, ReadFails, Underrun, ReadingCur, ReturnData,
         ReturnLast, FuseMultipart, OverInv
  <2>3. CASE CurDone
    BY <1>3, <2>3 DEF CurDone, ReadingCur, Loop, ReturnLast, OverInv
  <2>4. CASE Header \/ OpenPart \/ Trailer
    BY <1>3, <2>4 DEF Header, OpenPart, Trailer, Between, Loop, ReturnData, OverInv
  <2>5. CASE PollEnd
    <3>1. part = Parts /\ odd => state = EndState
      BY BodyAssumption DEF EndState, part, odd, OverInv
    <3>2. QED
      BY <1>3, <2>5, <3>1 DEF PollEnd, Between, ReturnLast, OverInv
  <2>6. QED
    BY <1>3, <2>1, <2>2, <2>3, <2>4, <2>5 DEF Turn
<1>4. QED
  BY <1>1, <1>2, <1>3 DEF Next

\* The end of a body is final, whatever its inner streams hold and whatever the
\* consumer does: no premise StopsAtError here.
THEOREM Finality == Spec => NothingAfterEnd
<1>. DEFINE Final == (status = "open" /\ IsEndStream) \/ status = "ended" => sent' = sent
<1>1. OpenInv /\ OpenInv' /\ OverInv /\ [Next]_vars => Final
  <2> SUFFICES ASSUME OpenInv, OpenInv', OverInv, [Next]_vars,
                      (status = "open" /\ IsEndStream) \/ status = "ended"
               PROVE  sent' = sent
    OBVIOUS
  <2>1. CASE UNCHANGED vars
    BY <2>1 DEF vars
  <2>2. CASE Poll \/ Drop
    BY <2>2 DEF Poll, Drop
  <2>3. CASE Turn /\ status = "ended"
    BY <2>3, EndedTurn
  <2>4. CASE Turn /\ status = "open"
    <3>1. SizeHint = 0
      BY <2>4 DEF IsEndStream, SizeHint
    <3>2. CASE status' = "open"
      BY <2>4, <3>1, <3>2, TurnHint DEF OpenInv
    <3>3. CASE status' # "open"
      BY <2>4, <3>3 DEF Turn, Once, Read, Overrun, ReadFails, Underrun, CurDone, Header,
         OpenPart, Trailer, PollEnd, ReturnLast, ReturnData, Loop
    <3>4. QED
      BY <3>2, <3>3
  <2>5. QED
    BY <2>1, <2>2, <2>3, <2>4 DEF Next
<1>2. Init => OpenInv /\ OverInv
  <2> SUFFICES ASSUME Init PROVE OpenInv /\ OverInv
    OBVIOUS
  <2>1. IInv /\ status = "open"
    BY InitIInv DEF Init
  <2>2. state \in Nat
    BY <2>1, BodyAssumption DEF IInv, TypeOK, EndState
  <2>3. QED
    BY <2>1, <2>2 DEF OpenInv, OverInv, IInv, TypeOK, CurInv
<1>3. OpenInv /\ OverInv /\ [Next]_vars => (OpenInv /\ OverInv)'
  BY OpenStep, OverStep
<1>4. OpenInv /\ OpenInv' /\ OverInv /\ [Next]_vars => [Final]_vars
  BY <1>1
<1>5. QED
  BY <1>2, <1>3, <1>4, PTL DEF Spec, NothingAfterEnd

\* Body implements BodyContract: every step is one of the contract or none.
THEOREM Implementation == ASSUME StopsAtError PROVE Spec => ImplementsContract
<1> USE DEF Contract!vars
<1>1. Init => Contract!Init
  <2> SUFFICES ASSUME Init PROVE Contract!Init
    OBVIOUS
  <2>1. announced \in Nat /\ SizeHint = announced /\ status = "open"
    BY InitIInv, U64Facts DEF Init, IInv, TypeOK
  <2>2. QED
    BY <2>1 DEF Init, Contract!Init
<1>2. IInv /\ IInv' /\ [Next]_vars => [Contract!Next]_Contract!vars
  <2> SUFFICES ASSUME IInv, IInv', [Next]_vars
               PROVE  [Contract!Next]_Contract!vars
    OBVIOUS
  <2>1. CASE UNCHANGED vars
    <3>1. SizeHint' = SizeHint
      BY <2>1 DEF vars, SizeHint
    <3>2. QED
      BY <2>1, <3>1 DEF vars
  <2>2. CASE Next /\ status # "open"
    BY <2>2, OverFacts
  <2>3. CASE Poll /\ status = "open"
    <3>1. SizeHint' = SizeHint
      BY <2>3 DEF Poll, SizeHint
    <3>2. QED
      BY <2>3, <3>1 DEF Poll
  <2>4. CASE Drop /\ status = "open"
    BY <2>4 DEF Drop, IInv, HookInv, Contract!Next, Contract!Drop, Contract!Close
  <2>5. CASE Turn /\ status = "open" /\ status' = "open"
    <3>1. calls' = calls
      BY <2>5 DEF IInv, HookInv
    <3>2. SizeHint' \in 0 .. SizeHint /\ sent' = sent + (SizeHint - SizeHint')
      BY <2>5, TurnHint
    <3>3. QED
      BY <2>5, <3>1, <3>2 DEF Contract!Next, Contract!Deliver
  <2>6. CASE Turn /\ status = "open" /\ status' # "open"
    <3>1. calls' = 1 /\ sent' = sent /\ status' \in {"ended", "failed"}
      BY <2>6 DEF Turn, Once, Read, Overrun, ReadFails, Underrun, CurDone, Header,
         OpenPart, Trailer, PollEnd, ReturnLast, ReturnData, Loop, IInv, HookInv
    <3>2. status' = "ended" => SizeHint = 0
      <4>1. status' = "ended" => sent' = announced'
        BY DEF IInv, LengthKept
      <4>2. sent + SizeHint = announced /\ announced' = announced /\ sent \in Nat
        BY <2>6 DEF IInv, LengthKept, TypeOK, Turn, Once, Read, Overrun, ReadFails,
           Underrun, CurDone, Header, OpenPart, Trailer, PollEnd, ReturnLast, ReturnData, Loop
      <4>3. SizeHint \in Int
        BY U64Facts, BodyAssumption DEF IInv, TypeOK, SizeHint, Cursors, NoChunk
      <4>4. QED
        BY <3>1, <4>1, <4>2, <4>3
    <3>3. QED
      BY <2>6, <3>1, <3>2 DEF Contract!Next, Contract!End, Contract!Fail, Contract!Close
  <2>7. QED
    BY <2>1, <2>2, <2>3, <2>4, <2>5, <2>6 DEF Next
<1>3. QED
  BY <1>1, <1>2, Invariance, PTL DEF Spec, ImplementsContract, Contract!Spec
-----------------------------------------------------------------------------
(* The hook, whatever the consumer does *)

\* on_complete runs once, when the body is first over, and that is final: neither a
\* poll after an error, which the streams survive and go on from, nor the drop at
\* the end runs it again (Body::poll_frame and the destructor, body.rs:24-60; the
\* tests at 465-540 poll to the end or drop, never after an error).
HookRunsOnce ==
    /\ [](calls = IF status = "open" THEN 0 ELSE 1)
    /\ [][status # "open" => status' # "open" /\ calls' = calls]_vars

LEMMA HookStep ==
    ASSUME HookInv, [Next]_vars
    PROVE  HookInv' /\ (status # "open" => status' # "open" /\ calls' = calls)
<1>1. CASE UNCHANGED vars
  BY <1>1 DEF vars, HookInv
<1>2. CASE Poll
  BY <1>2 DEF Poll, HookInv
<1>3. CASE Drop
  BY <1>3 DEF Drop, HookInv
<1>4. ASSUME NEW s \in {"ended", "failed"}, ReturnLast(s)
      PROVE  HookInv' /\ status' # "open" /\ (status # "open" => calls' = calls)
  BY <1>4 DEF ReturnLast, HookInv
<1>5. ASSUME UNCHANGED <<on_complete, status, calls>>
      PROVE  HookInv' /\ (status # "open" => status' # "open" /\ calls' = calls)
  BY <1>5 DEF HookInv
<1>6. CASE Turn
  BY <1>4, <1>5, <1>6 DEF Turn, Once, Read, Overrun, ReadFails, Underrun, CurDone, Header,
     OpenPart, Trailer, PollEnd, ReturnData, Loop
<1>7. QED
  BY <1>1, <1>2, <1>3, <1>6 DEF Next

\* The hook of every body runs at most once and has run when the body is over, even
\* for a consumer that polls after an error: no premise StopsAtError here.
THEOREM Hook == Spec => HookRunsOnce
<1>1. Init => HookInv
  BY DEF Init, HookInv
<1>2. HookInv /\ [Next]_vars => HookInv'
  BY HookStep
<1>3. HookInv => calls = IF status = "open" THEN 0 ELSE 1
  BY DEF HookInv
<1>4. HookInv /\ [Next]_vars
        => [status # "open" => status' # "open" /\ calls' = calls]_vars
  BY HookStep
<1>5. QED
  BY <1>1, <1>2, <1>3, <1>4, PTL DEF Spec, HookRunsOnce
=============================================================================
