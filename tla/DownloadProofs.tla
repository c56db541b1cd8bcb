---------------------------- MODULE DownloadProofs ----------------------------
(***************************************************************************)
(* Proofs about Download for any clients, paths, versions and lengths, any *)
(* chunk size and any number of faults.                                    *)
(*                                                                         *)
(* A body starts where its client's copy ends, and a read returns no more  *)
(* than the rest of the chunk (ReadBounds): position and copy stay equal,  *)
(* and neither passes the announced length, also across responses          *)
(* (PlaceInv).  Why a response breaks off follows from what a read that    *)
(* can return nothing says about its resource (NothingToRead).             *)
(***************************************************************************)
EXTENDS Download, TLAPS

-----------------------------------------------------------------------------
(* Resources *)

\* A read returns at most what it was asked for, and never nothing.
LEMMA ReadBounds ==
    ASSUME NEW r \in Resources, NEW start \in Nat, NEW count \in Nat \ {0},
           NEW n, NEW now \in Nat, n \in ReadRange(r, start, count, now)
    PROVE  n \in Nat \ {0} /\ n <= count
  BY DEF ReadRange, SmallerOf, Resources

\* A chunk is not empty and lies within the rest.
LEMMA ChunkBounds ==
    ASSUME NEW start \in Nat, NEW end \in Nat, start < end
    PROVE  NextChunk(start, end) \in Nat \ {0} /\ start + NextChunk(start, end) <= end
  BY ChunkAssumption DEF NextChunk, SmallerOf

\* If no byte can be read where the resource says there is one, then the file is
\* shorter than its resource, or the bytes are fewer.
LEMMA NothingToRead ==
    ASSUME NEW r \in Resources, NEW start \in Nat, NEW now \in Nat, start < r.len,
           ReadRange(r, start, NextChunk(start, r.len), now) = {}
    PROVE  \/ r.content = "file" /\ now < r.len
           \/ r.content = "bytes" /\ r.held < r.len
<1> DEFINE n == NextChunk(start, r.len)
<1>1. r.len \in Nat /\ r.held \in Nat /\ r.content \in {"file", "bytes"}
  BY DEF Resources
<1>2. n \in Nat \ {0} /\ start + n <= r.len
  BY <1>1, ChunkBounds
<1> HIDE DEF n
<1>3. CASE r.content = "file"
  <2>1. 1 .. SmallerOf(n, now - start) = {}
    BY <1>3 DEF ReadRange, n
  <2>2. 1 \notin 1 .. SmallerOf(n, now - start)
    BY <2>1
  <2>3. now - start < 1
    BY <1>2, <2>2 DEF SmallerOf
  <2>4. QED
    BY <1>1, <1>3, <2>3
<1>4. CASE r.content = "bytes"
  <2>1. start + n > r.held
    BY <1>4 DEF ReadRange, n
  <2>2. QED
    BY <1>1, <1>2, <1>4, <2>1
<1>5. QED
  BY <1>1, <1>3, <1>4

-----------------------------------------------------------------------------
(* Type correctness *)

LEMMA NoResourceType ==
    NoResource \in Resources /\ NoCopy \in Copies /\ NoEntry \in CacheEntries
  BY TreeAssumption
  DEF NoResource, FileResource, Resources, NoCopy, Copies, Validator, NoEntry,
      CacheEntries, Contents, Absent

LEMMA PresentType ==
    ASSUME TypeOK, NEW p \in Paths, Present(p)
    PROVE  cache[p].resource \in Resources /\ cache[p].resource.version \in Versions
<1>1. cache[p] \in CacheEntries /\ cache[p] # NoEntry
  BY DEF TypeOK, Present
<1>2. QED
  BY <1>1 DEF CacheEntries, Resources, Contents, Versions

LEMMA ValidatorType ==
    ASSUME NEW r \in Resources
    PROVE  Validator(r) \in [version : Contents, len : Nat] /\ Validator(r).len = r.len
  BY DEF Validator, Resources

\* What is left of TypeOK once the variables of the clients are typed.
ClientsOK ==
    /\ pc \in [Clients -> {"idle", "lookup", "open", "insert", "body", "done"}]
    /\ res \in [Clients -> Resources]
    /\ pos \in [Clients -> Nat]
    /\ copy \in [Clients -> Copies]
    /\ \A c \in Clients : pc[c] \in {"insert", "body"} => res[c].version \in Versions

\* A well-typed resource makes a well-typed answer.
LEMMA AnswerType ==
    ASSUME ClientsOK, NEW c \in Clients, NEW r \in Resources, r.version \in Versions,
           Answer(c, r)
    PROVE  ClientsOK'
<1>1. Validator(r) \in [version : Contents, len : Nat]
  BY ValidatorType
<1>2. copy[c] \in Copies /\ copy[c].have \in Nat
  BY DEF ClientsOK, Copies
<1>3. copy' \in [Clients -> Copies]
  BY <1>1, <1>2 DEF Answer, ClientsOK, Copies
<1>4. QED
  BY <1>2, <1>3 DEF Answer, ClientsOK

\* An entry of the bytes that were read of an open file is well typed.
LEMMA BytesType ==
    ASSUME NEW r \in Resources, r.version \in Versions, NEW now \in Nat,
           NEW n \in ReadBytes(r, now)
    PROVE  Entry(BytesResource(r, n)) \in CacheEntries
<1>1. r.len \in Nat /\ r.held \in Nat
  BY DEF Resources
<1>2. n \in Nat
  BY <1>1 DEF ReadBytes, ReadRange, SmallerOf
<1>3. BytesResource(r, n) \in [content : {"bytes"}, version : Versions, len : Nat, held : Nat]
  BY <1>2 DEF BytesResource, Resources
<1>4. QED
  BY <1>3 DEF Entry, CacheEntries

LEMMA StepType ==
    ASSUME TypeOK, NEW c \in Clients, Step(c)
    PROVE  TypeOK'
<1> USE NoResourceType
<1>A. ClientsOK /\ want[c] \in Paths /\ faults \in Nat /\ MaxFaults \in Nat
  BY DownloadAssumption DEF TypeOK, ClientsOK
<1>F. ASSUME UNCHANGED faults \/ Fault PROVE faults' \in 0 .. MaxFaults
  BY <1>F, DownloadAssumption DEF TypeOK, Fault
<1>T. ASSUME ClientsOK', cache' \in [Paths -> CacheEntries], UNCHANGED faults \/ Fault,
             UNCHANGED <<treeVars, size, want>>
      PROVE  TypeOK'
  BY <1>T, <1>F DEF TypeOK, ClientsOK, TreeTypeOK, treeVars
<1>C. cache \in [Paths -> CacheEntries]
  BY DEF TypeOK
<1>1. CASE Ask(c)
  <2>1. ClientsOK'
    BY <1>A, <1>1 DEF Ask, Goto, ClientsOK
  <2>2. QED
    BY <1>1, <1>C, <1>T, <2>1 DEF Ask
<1>2. CASE Hit(c)
  <2>1. ClientsOK'
    BY <1>2, <1>A, PresentType, AnswerType DEF Hit
  <2>2. QED
    BY <1>2, <1>C, <1>T, <2>1 DEF Hit
<1>3. CASE Miss(c)
  <2>1. ClientsOK'
    BY <1>A, <1>3 DEF Miss, Goto, ClientsOK
  <2>2. cache' \in [Paths -> CacheEntries]
    BY <1>3, <1>C DEF Miss
  <2>3. QED
    BY <1>3, <1>T, <2>1, <2>2 DEF Miss
<1>4. CASE Open(c)
  <2>1. tree[want[c]] \in Versions
    BY <1>4, <1>A DEF Open, OpenStatus, TypeOK, TreeTypeOK, Contents, Versions, Absent
  <2>2. size[tree[want[c]]] \in Nat
    BY <2>1 DEF TypeOK
  <2>3. FileResource(tree[want[c]], size[tree[want[c]]]) \in Resources
    BY <2>1, <2>2 DEF FileResource, Resources, Contents, Versions
  <2>4. ClientsOK'
    BY <1>4, <1>A, <2>1, <2>3 DEF Open, Goto, ClientsOK, FileResource
  <2>5. QED
    BY <1>4, <1>C, <1>T, <2>4 DEF Open
<1>5. CASE OpenFails(c)
  <2>1. ClientsOK'
    BY <1>A, <1>5 DEF OpenFails, Goto, ClientsOK
  <2>2. QED
    BY <1>5, <1>C, <1>T, <2>1 DEF OpenFails
<1>6. CASE Insert(c)
  <2>1. res[c] \in Resources /\ res[c].version \in Versions
    BY <1>6, <1>A DEF Insert, ClientsOK
  <2>2. ClientsOK'
    BY <1>6, <1>A, <2>1, AnswerType DEF Insert
  <2>3. size[res[c].version] \in Nat
    BY <2>1 DEF TypeOK
  <2>4. cache' \in [Paths -> CacheEntries]
    BY <1>6, <1>C, <2>1, <2>3, BytesType DEF Insert
  <2>5. QED
    BY <1>6, <1>T, <2>2, <2>4 DEF Insert
<1>7. CASE SkipInsert(c)
  <2>1. ClientsOK'
    BY <1>7, <1>A, AnswerType DEF SkipInsert, ClientsOK
  <2>2. QED
    BY <1>7, <1>C, <1>T, <2>1 DEF SkipInsert
<1>8. CASE Read(c)
  <2>1. res[c] \in Resources /\ res[c].version \in Versions /\ pos[c] \in Nat
    BY <1>8, <1>A DEF Read, ClientsOK
  <2>2. size[res[c].version] \in Nat /\ res[c].len \in Nat
    BY <2>1 DEF TypeOK, Resources
  <2>3. PICK n \in Readable(c) : Store(c, n) /\ pos' = [pos EXCEPT ![c] = @ + n]
    BY <1>8 DEF Read
  <2>4. n \in Nat
    BY <1>8, <2>1, <2>2, <2>3, ChunkBounds, ReadBounds DEF Read, Readable
  <2>5. copy' \in [Clients -> Copies]
    BY <1>A, <2>3, <2>4 DEF Store, ClientsOK, Copies
  <2>6. pos' \in [Clients -> Nat]
    BY <1>A, <2>3, <2>4 DEF ClientsOK
  <2>7. UNCHANGED <<treeVars, size, cache, pc, res, want, faults>>
    BY <1>8 DEF Read
  <2>8. ClientsOK'
    BY <1>A, <2>5, <2>6, <2>7 DEF ClientsOK
  <2>9. QED
    BY <1>C, <1>T, <2>7, <2>8
<1>9. CASE BodyEnds(c) \/ BodyFails(c)
  <2>1. ClientsOK'
    BY <1>A, <1>9 DEF BodyEnds, BodyFails, Close, Goto, ClientsOK
  <2>2. QED
    BY <1>9, <1>C, <1>T, <2>1 DEF BodyEnds, BodyFails, Close
<1>10. QED
  BY <1>1, <1>2, <1>3, <1>4, <1>5, <1>6, <1>7, <1>8, <1>9 DEF Step

LEMMA NextType == TypeOK /\ [Next]_vars => TypeOK'
<1> SUFFICES ASSUME TypeOK, [Next]_vars PROVE TypeOK'
  OBVIOUS
<1>1. ASSUME NEW c \in Clients, Step(c) PROVE TypeOK'
  BY <1>1, StepType
<1>2. ASSUME NEW p \in Paths, Expire(p) PROVE TypeOK'
  <2>1. [cache[p] EXCEPT !.expired = TRUE] \in CacheEntries
    BY <1>2 DEF Expire, Present, TypeOK, CacheEntries
  <2>2. cache' \in [Paths -> CacheEntries]
    BY <1>2, <2>1 DEF Expire, TypeOK
  <2>3. QED
    BY <1>2, <2>2 DEF Expire, TypeOK, TreeTypeOK, treeVars, clientVars
<1>3. ASSUME NEW p \in Paths, Deploy(p) PROVE TypeOK'
  <2>1. TreeTypeOK'
    <3> USE TreeAssumption DEF TypeOK, TreeTypeOK, Contents, Absent
    <3>1. CASE Release(p)
      BY <3>1 DEF Release
    <3>2. CASE Remove(p)
      BY <3>2 DEF Remove
    <3>3. CASE Rollback(p)
      BY <3>3 DEF Rollback
    <3>4. QED
      BY <1>3, <3>1, <3>2, <3>3 DEF Deploy
  <2>2. QED
    BY <1>3, <2>1 DEF Deploy, TypeOK, clientVars
<1>4. ASSUME NEW v \in Versions, Cut(v) PROVE TypeOK'
  <2>1. PICK n \in 0 .. size[v] - 1 : size' = [size EXCEPT ![v] = n]
    BY <1>4 DEF Cut
  <2>2. size' \in [Versions -> Nat]
    BY <2>1 DEF TypeOK
  <2>3. QED
    BY <1>4, <2>2 DEF Cut, TypeOK, TreeTypeOK, treeVars, clientVars
<1>5. CASE UNCHANGED vars
  BY <1>5 DEF vars, treeVars, clientVars, TypeOK, TreeTypeOK
<1>6. QED
  BY <1>1, <1>2, <1>3, <1>4, <1>5 DEF Next

\* The state is well typed: only bytes in memory are ever cached, and a body has
\* a file behind it.
THEOREM TypeCorrect == Spec => []TypeOK
<1>1. Init => TypeOK
  BY NoResourceType, TreeAssumption, DownloadAssumption
  DEF Init, TreeInit, TypeOK, TreeTypeOK, Contents, Versions, Absent
<1>2. QED
  BY <1>1, NextType, PTL DEF Spec

-----------------------------------------------------------------------------
(* Every byte in its place *)

\* No client has more than the whole of what it has a part of.
CopyInv == \A c \in Clients : copy[c].have <= copy[c].of.len

PlaceInv == TypeOK /\ CopyInv /\ BytesInPlace

\* A body starts where the copy ends.
LEMMA AnswerPlace ==
    ASSUME PlaceInv, NEW c \in Clients, NEW r \in Resources, Answer(c, r)
    PROVE  CopyInv' /\ BytesInPlace'
<1>1. Validator(r).len = r.len /\ r.len \in Nat
  BY ValidatorType DEF Resources
<1>2. copy[c] \in Copies /\ copy[c].have \in Nat
  BY DEF PlaceInv, TypeOK, Copies
<1>3. /\ copy'[c].of = Validator(r)
      /\ copy'[c].have = pos'[c]
      /\ pos'[c] <= r.len
      /\ pc'[c] = "body" /\ res'[c] = r
  <2>1. CASE copy[c].of = Validator(r)
    BY <1>1, <1>2, <2>1 DEF PlaceInv, TypeOK, CopyInv, Answer
  <2>2. CASE copy[c].of # Validator(r)
    BY <1>1, <1>2, <2>2 DEF PlaceInv, TypeOK, CopyInv, Answer
  <2>3. QED
    BY <2>1, <2>2
<1>4. \A d \in Clients \ {c} :
        /\ copy'[d] = copy[d] /\ pos'[d] = pos[d] /\ pc'[d] = pc[d] /\ res'[d] = res[d]
  BY DEF PlaceInv, TypeOK, Answer
<1>5. QED
  BY <1>1, <1>3, <1>4 DEF PlaceInv, CopyInv, BytesInPlace

LEMMA StepPlace ==
    ASSUME PlaceInv, NEW c \in Clients, Step(c)
    PROVE  CopyInv' /\ BytesInPlace'
<1>T. TypeOK
  BY DEF PlaceInv
<1>1. CASE Hit(c)
  BY <1>1, <1>T, PresentType, AnswerPlace DEF Hit, TypeOK
<1>2. CASE Insert(c) \/ SkipInsert(c)
  BY <1>2, <1>T, AnswerPlace DEF Insert, SkipInsert, TypeOK
<1>3. CASE Read(c)
  <2>1. /\ res[c] \in Resources /\ res[c].len \in Nat /\ res[c].version \in Versions
        /\ pos[c] \in Nat /\ pos[c] < res[c].len
    BY <1>3, <1>T DEF Read, TypeOK, Resources
  <2>2. PICK n \in Readable(c) : Store(c, n) /\ pos' = [pos EXCEPT ![c] = @ + n]
    BY <1>3 DEF Read
  <2>3. size[res[c].version] \in Nat
    BY <1>T, <2>1 DEF TypeOK
  <2>4. n \in Nat /\ pos[c] + n <= res[c].len
    BY <2>1, <2>2, <2>3, ChunkBounds, ReadBounds DEF Readable
  <2>5. copy[c].of = Validator(res[c]) /\ copy[c].have = pos[c]
    BY <1>3 DEF Read, PlaceInv, BytesInPlace
  <2>6. /\ copy'[c].of = Validator(res[c]) /\ copy'[c].have = pos[c] + n
        /\ pos'[c] = pos[c] + n
        /\ \A d \in Clients \ {c} : copy'[d] = copy[d] /\ pos'[d] = pos[d]
    BY <1>T, <2>2, <2>5 DEF Store, TypeOK, Copies
  <2>7. Validator(res[c]).len = res[c].len
    BY <2>1, ValidatorType
  <2>8. UNCHANGED <<pc, res>>
    BY <1>3 DEF Read
  <2>9. pc[c] = "body"
    BY <1>3 DEF Read
  <2>10. QED
    BY <2>4, <2>6, <2>7, <2>8, <2>9 DEF PlaceInv, CopyInv, BytesInPlace
<1>4. CASE BodyEnds(c)
  <2>1. pc[c] = "body" /\ pos[c] = res[c].len /\ pc' = [pc EXCEPT ![c] = "done"]
        /\ copy' = copy
    BY <1>4 DEF BodyEnds, Close, Goto
  <2>2. copy[c].have = copy[c].of.len
    BY <1>T, <2>1, ValidatorType DEF PlaceInv, BytesInPlace, TypeOK
  <2>3. \A d \in Clients \ {c} : pos'[d] = pos[d] /\ pc'[d] = pc[d] /\ res'[d] = res[d]
    BY <1>4, <1>T DEF BodyEnds, Close, Goto, TypeOK
  <2>4. pc'[c] = "done"
    BY <1>T, <2>1 DEF TypeOK
  <2>5. QED
    BY <2>1, <2>2, <2>3, <2>4 DEF PlaceInv, CopyInv, BytesInPlace
<1>5. CASE BodyFails(c)
  <2>1. pc'[c] = "idle" /\ copy' = copy
    BY <1>5, <1>T DEF BodyFails, Close, Goto, TypeOK
  <2>2. \A d \in Clients \ {c} : pos'[d] = pos[d] /\ pc'[d] = pc[d] /\ res'[d] = res[d]
    BY <1>5, <1>T DEF BodyFails, Close, Goto, TypeOK
  <2>3. QED
    BY <2>1, <2>2 DEF PlaceInv, CopyInv, BytesInPlace
<1>6. CASE Ask(c) \/ Miss(c) \/ Open(c) \/ OpenFails(c)
  <2>1. pc'[c] \in {"lookup", "open", "insert", "idle"} /\ UNCHANGED <<copy, pos>>
    BY <1>6, <1>T DEF Ask, Miss, Open, OpenFails, Goto, TypeOK
  <2>2. \A d \in Clients \ {c} : pc'[d] = pc[d] /\ res'[d] = res[d]
    BY <1>6, <1>T DEF Ask, Miss, Open, OpenFails, Goto, TypeOK
  <2>3. QED
    BY <2>1, <2>2 DEF PlaceInv, CopyInv, BytesInPlace
<1>7. QED
  BY <1>1, <1>2, <1>3, <1>4, <1>5, <1>6 DEF Step

LEMMA NextPlace == PlaceInv /\ [Next]_vars => PlaceInv'
<1> SUFFICES ASSUME PlaceInv, [Next]_vars PROVE CopyInv' /\ BytesInPlace'
  BY NextType DEF PlaceInv
<1>1. ASSUME NEW c \in Clients, Step(c) PROVE CopyInv' /\ BytesInPlace'
  BY <1>1, StepPlace
<1>2. ASSUME UNCHANGED clientVars PROVE CopyInv' /\ BytesInPlace'
  BY <1>2 DEF clientVars, PlaceInv, CopyInv, BytesInPlace
<1>3. ASSUME NEW p \in Paths, Expire(p) \/ Deploy(p) PROVE CopyInv' /\ BytesInPlace'
  BY <1>2, <1>3 DEF Expire, Deploy
<1>4. ASSUME NEW v \in Versions, Cut(v) PROVE CopyInv' /\ BytesInPlace'
  BY <1>2, <1>4 DEF Cut
<1>5. CASE UNCHANGED vars
  BY <1>2, <1>5 DEF vars
<1>6. QED
  BY <1>1, <1>3, <1>4, <1>5 DEF Next

LEMMA PlaceInit == Init => PlaceInv
<1>1. Init => TypeOK
  BY NoResourceType, TreeAssumption, DownloadAssumption
  DEF Init, TreeInit, TypeOK, TreeTypeOK, Contents, Versions, Absent
<1>2. Init => CopyInv /\ BytesInPlace
  BY DEF Init, CopyInv, BytesInPlace, NoCopy, Validator, NoResource, FileResource
<1>3. QED
  BY <1>1, <1>2 DEF PlaceInv

\* Short reads, broken responses, resumptions, expiry and replaced files never put
\* a byte in the wrong place, and what is finished is whole.
THEOREM Placement == Spec => []BytesInPlace
<1>1. PlaceInv => BytesInPlace
  BY DEF PlaceInv
<1>2. QED
  BY <1>1, PlaceInit, NextPlace, PTL DEF Spec

-----------------------------------------------------------------------------
(* Failures *)

Cause(c) ==
    \/ faults' # faults
    \/ res[c].content = "file" /\ size[res[c].version] < res[c].len
    \/ res[c].content = "bytes" /\ res[c].held < res[c].len

LEMMA FailureCause ==
    ASSUME TypeOK, [Next]_vars, NEW c \in Clients, pc[c] = "body", pc'[c] = "idle"
    PROVE  Cause(c)
<1>1. ASSUME NEW d \in Clients, Step(d) PROVE Cause(c)
  <2>1. d = c
    BY <1>1 DEF TypeOK, Step, Ask, Hit, Miss, Open, OpenFails, Insert, SkipInsert, Read,
                BodyEnds, BodyFails, Answer, Goto
  <2>2. BodyFails(c)
    BY <1>1, <2>1 DEF TypeOK, Step, Ask, Hit, Miss, Open, OpenFails, Insert, SkipInsert,
                      Read, BodyEnds, Goto
  <2>3. CASE Fault
    BY <2>3 DEF Fault, Cause, TypeOK
  <2>4. CASE pos[c] < res[c].len /\ Readable(c) = {}
    <3>1. /\ res[c] \in Resources /\ res[c].version \in Versions /\ pos[c] \in Nat
          /\ size[res[c].version] \in Nat
      BY DEF TypeOK
    <3>2. QED
      BY <2>4, <3>1, NothingToRead DEF Readable, Cause
  <2>5. QED
    BY <2>2, <2>3, <2>4 DEF BodyFails
<1>2. pc' # pc
  OBVIOUS
<1>3. QED
  BY <1>1, <1>2 DEF Next, Expire, Deploy, Cut, clientVars, vars

\* No response breaks off without an I/O error, a lost connection, or a resource
\* that promises more bytes than there are.
THEOREM Causes == Spec => FailuresHaveACause
<1>1. TypeOK /\ [Next]_vars =>
        [\A c \in Clients : pc[c] = "body" /\ pc'[c] = "idle" => Cause(c)]_vars
  BY FailureCause
<1>2. QED
  BY <1>1, TypeCorrect, PTL DEF Spec, FailuresHaveACause, Cause
-----------------------------------------------------------------------------
(* What a client has is not lost *)

\* However its responses break off, a client's copy of one version only grows, by
\* bytes the version has; it starts again, from nothing, only for another version or
\* length (resource.rs get_range, and If-Range in serving.rs).
CopiesOnlyGrow ==
    [][\A c \in Clients :
         copy'[c] # copy[c] =>
            \/ /\ copy'[c].of = copy[c].of
               /\ copy[c].have < copy'[c].have /\ copy'[c].have <= copy[c].of.len
            \/ copy'[c].of # copy[c].of /\ copy'[c].have = 0]_vars

Grows(c) ==
    copy'[c] # copy[c] =>
       \/ /\ copy'[c].of = copy[c].of
          /\ copy[c].have < copy'[c].have /\ copy'[c].have <= copy[c].of.len
       \/ copy'[c].of # copy[c].of /\ copy'[c].have = 0

LEMMA StepGrows ==
    ASSUME PlaceInv, NEW d \in Clients, Step(d), NEW c \in Clients
    PROVE  Grows(c)
<1>T. TypeOK /\ BytesInPlace /\ copy[c] \in Copies /\ copy[d] \in Copies
  BY DEF PlaceInv, TypeOK
<1>1. ASSUME UNCHANGED copy PROVE Grows(c)
  BY <1>1 DEF Grows
<1>2. ASSUME NEW r \in Resources, Answer(d, r) PROVE Grows(c)
  <2>1. CASE d = c /\ copy[c].of # Validator(r)
    BY <1>2, <1>T, <2>1 DEF Answer, TypeOK, Grows
  <2>2. CASE d # c \/ copy[c].of = Validator(r)
    <3>1. copy'[c] = copy[c]
      BY <1>2, <1>T, <2>2 DEF Answer, TypeOK
    <3>2. QED
      BY <3>1 DEF Grows
  <2>3. QED
    BY <2>1, <2>2
<1>3. CASE Hit(d)
  BY <1>2, <1>3, <1>T, PresentType DEF Hit, TypeOK
<1>4. CASE Insert(d) \/ SkipInsert(d)
  BY <1>2, <1>4, <1>T DEF Insert, SkipInsert, TypeOK
<1>5. CASE Read(d)
  <2>1. CASE d # c
    <3>1. copy'[c] = copy[c]
      BY <1>5, <2>1, <1>T DEF Read, Store, TypeOK
    <3>2. QED
      BY <3>1 DEF Grows
  <2>2. CASE d = c
    <3>1. PICK n \in Readable(c) : Store(c, n)
      BY <1>5, <2>2 DEF Read
    <3>2. /\ res[c] \in Resources /\ res[c].len \in Nat /\ pos[c] \in Nat
          /\ pos[c] < res[c].len /\ copy[c].of = Validator(res[c])
          /\ copy[c].have = pos[c] /\ size[res[c].version] \in Nat
      BY <1>5, <2>2, <1>T DEF Read, BytesInPlace, TypeOK, Resources
    <3>3. NextChunk(pos[c], res[c].len) \in Nat \ {0}
          /\ pos[c] + NextChunk(pos[c], res[c].len) <= res[c].len
      BY <3>2, ChunkBounds
    <3>4. n \in Nat \ {0} /\ n <= NextChunk(pos[c], res[c].len)
      BY <3>2, <3>3, ReadBounds DEF Readable
    <3>5. copy'[c].of = copy[c].of /\ copy'[c].have = copy[c].have + n
      BY <3>1, <1>T DEF Store, TypeOK, Copies
    <3>6. copy[c].of.len = res[c].len
      BY <3>2, ValidatorType
    <3>7. QED
      BY <3>2, <3>3, <3>4, <3>5, <3>6 DEF Grows
  <2>3. QED
    BY <2>1, <2>2
<1>6. CASE Ask(d) \/ Miss(d) \/ Open(d) \/ OpenFails(d) \/ BodyEnds(d) \/ BodyFails(d)
  BY <1>1, <1>6 DEF Ask, Miss, Open, OpenFails, BodyEnds, BodyFails, Close
<1>7. QED
  BY <1>3, <1>4, <1>5, <1>6 DEF Step

LEMMA NextGrows ==
    ASSUME PlaceInv, [Next]_vars, NEW c \in Clients
    PROVE  Grows(c)
<1>1. ASSUME UNCHANGED copy PROVE Grows(c)
  BY <1>1 DEF Grows
<1>2. ASSUME NEW p \in Paths, Expire(p) \/ Deploy(p) PROVE Grows(c)
  BY <1>1, <1>2 DEF Expire, Deploy, clientVars
<1>3. ASSUME NEW v \in Versions, Cut(v) PROVE Grows(c)
  BY <1>1, <1>3 DEF Cut, clientVars
<1>4. ASSUME UNCHANGED vars PROVE Grows(c)
  BY <1>1, <1>4 DEF vars, clientVars
<1>5. QED
  BY <1>2, <1>3, <1>4, StepGrows DEF Next

\* Resuming makes progress: no step of anyone takes bytes of its version from a
\* client, and a client that starts over does so for another version.
THEOREM Progress == Spec => CopiesOnlyGrow
<1>1. PlaceInv /\ [Next]_vars => [\A c \in Clients : Grows(c)]_vars
  BY NextGrows
<1>2. QED
  BY <1>1, NextPlace, PlaceInit, PTL DEF Spec, CopiesOnlyGrow, Grows
=============================================================================
