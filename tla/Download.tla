------------------------------- MODULE Download -------------------------------
(***************************************************************************)
(* Downloads through the resource cache: ServedDir::resolve with its cache *)
(* (src/src/served_dir.rs:228-258, src/src/resource_cache.rs) composed     *)
(* with the resources it hands out and the bodies that read them           *)
(* (src/src/resource.rs), and with clients that resume what broke off.     *)
(*                                                                         *)
(*   idle -> lookup --------------------> body -> done                     *)
(*             \-> open -> insert ------>   \---> idle (to resume)         *)
(*                                                                         *)
(* ResourceCache says whether what is cached is current, Body what a body  *)
(* does when its source fails.  The question here is what becomes of the   *)
(* clients when the two meet: a read may be short, so an entry may hold    *)
(* fewer bytes than the length it announces, and it is hit for as long as  *)
(* it has not expired.                                                     *)
(***************************************************************************)
EXTENDS FileTree, Resource

CONSTANTS
    Clients,
    MaxItemWeight,   \* max_item_weight
    MaxFaults        \* bound on I/O errors and lost connections

ASSUME DownloadAssumption ==
    /\ MaxItemWeight \in Nat
    /\ MaxFaults \in Nat

VARIABLES
    size,     \* size[v]: length now of the file version v came with
    cache,    \* cache[p]: the entry for p, or NoEntry
    pc,       \* where each client, and the request it waits for, is
    want,     \* the path each client downloads
    res,      \* the resource its request is answered from
    pos,      \* get_range: where the next chunk of the body starts
    copy,     \* what the client has: its first bytes, and of what
    faults    \* I/O errors and lost connections so far

clientVars == <<pc, res, pos, copy>>
vars == <<treeVars, size, cache, clientVars, want, faults>>

NoResource == FileResource(Absent, 0)
Resources  == [content : {"file", "bytes"}, version : Contents, len : Nat, held : Nat]

\* What ETag and Last-Modified tell a client apart by.
Validator(r)  == [version |-> r.version, len |-> r.len]
NoCopy        == [of |-> Validator(NoResource), have |-> 0]
Copies        == [of : [version : Contents, len : Nat], have : Nat]

\* CacheValue: the resource, and whether expire_after has passed.
Entry(r)     == [resource |-> r, expired |-> FALSE]
NoEntry      == Entry(NoResource)
\* What is cached is in memory: the cache keeps no file open.
CacheEntries ==
    [resource : [content : {"bytes"}, version : Versions, len : Nat, held : Nat],
     expired  : BOOLEAN] \cup {NoEntry}

Present(p) == cache[p] # NoEntry

Init ==
    /\ TreeInit
    /\ size   = LenOf
    /\ cache  = [p \in Paths |-> NoEntry]
    /\ pc     = [c \in Clients |-> "idle"]
    /\ want   \in [Clients -> Paths \ Dirs]
    /\ res    = [c \in Clients |-> NoResource]
    /\ pos    = [c \in Clients |-> 0]
    /\ copy   = [c \in Clients |-> NoCopy]
    /\ faults = 0

Goto(c, from, to) == pc[c] = from /\ pc' = [pc EXCEPT ![c] = to]

Fault == faults < MaxFaults /\ faults' = faults + 1

-----------------------------------------------------------------------------
(* A request: resolve, and the response *)

\* The client asks for the whole, or for the rest of what it has under If-Range.
Ask(c) ==
    /\ Goto(c, "idle", "lookup")
    /\ UNCHANGED <<treeVars, size, cache, res, pos, copy, want, faults>>

\* The answer from resource r: the rest of the client's copy if its validator
\* still matches, otherwise the whole from the start.
Answer(c, r) ==
    /\ pc'  = [pc EXCEPT ![c] = "body"]
    /\ res' = [res EXCEPT ![c] = r]
    /\ copy' = [copy EXCEPT ![c] =
                 IF @.of = Validator(r) THEN @ ELSE [of |-> Validator(r), have |-> 0]]
    /\ pos' = [pos EXCEPT ![c] = IF copy[c].of = Validator(r) THEN copy[c].have ELSE 0]

\* ResourceCache::get, an entry that has not expired: a clone of its bytes.
Hit(c) ==
    /\ pc[c] = "lookup"
    /\ Present(want[c]) /\ ~ cache[want[c]].expired
    /\ Answer(c, cache[want[c]].resource)
    /\ UNCHANGED <<treeVars, size, cache, want, faults>>

\* ResourceCache::get without a hit; what has expired is removed.
Miss(c) ==
    /\ Goto(c, "lookup", "open")
    /\ Present(want[c]) => cache[want[c]].expired
    /\ cache' = [p \in Paths |-> IF Present(want[c]) /\ cache[p].expired THEN NoEntry
                                 ELSE cache[p]]
    /\ UNCHANGED <<treeVars, size, res, pos, copy, want, faults>>

\* find_file and create_entity: the resource takes the length the file has now.
Open(c) ==
    /\ Goto(c, "open", "insert")
    /\ OpenStatus(want[c]) = "ok"
    /\ LET v == tree[want[c]] IN res' = [res EXCEPT ![c] = FileResource(v, size[v])]
    /\ UNCHANGED <<treeVars, size, cache, pos, copy, want, faults>>

\* A 404, or an I/O error of the open or of the hash; the client asks again.
OpenFails(c) ==
    /\ Goto(c, "open", "idle")
    /\ \/ OpenStatus(want[c]) # "ok" /\ UNCHANGED faults
       \/ Fault
    /\ UNCHANGED <<treeVars, size, cache, res, pos, copy, want>>

\* Mutant of Insert: the open file itself is cached.
InsertFile(c) ==
    /\ pc[c] = "insert"
    /\ res[c].len <= MaxItemWeight
    /\ \E evicted \in SUBSET Paths :
         cache' = [p \in Paths |->
                    IF p \in evicted THEN NoEntry
                    ELSE IF p = want[c] THEN Entry(res[c]) ELSE cache[p]]
    /\ Answer(c, res[c])
    /\ UNCHANGED <<treeVars, size, want, faults>>

\* Mutant of Insert: the request is answered with what was cached.
InsertAnswersCached(c) ==
    /\ pc[c] = "insert"
    /\ res[c].len <= MaxItemWeight
    /\ \E n \in ReadBytes(res[c], size[res[c].version]), evicted \in SUBSET Paths :
         /\ cache' = [p \in Paths |->
                       IF p \in evicted THEN NoEntry
                       ELSE IF p = want[c] THEN Entry(BytesResource(res[c], n)) ELSE cache[p]]
         /\ Answer(c, BytesResource(res[c], n))
    /\ UNCHANGED <<treeVars, size, want, faults>>

\* ResourceCache::insert of a clone, turned into bytes by one read that may be
\* short; the request itself goes on with the file.
Insert(c) ==
    /\ pc[c] = "insert"
    /\ res[c].len <= MaxItemWeight
    /\ \E n \in ReadBytes(res[c], size[res[c].version]), evicted \in SUBSET Paths :
         cache' = [p \in Paths |->
                    IF p \in evicted THEN NoEntry
                    ELSE IF p = want[c] THEN Entry(BytesResource(res[c], n)) ELSE cache[p]]
    /\ Answer(c, res[c])
    /\ UNCHANGED <<treeVars, size, want, faults>>

\* ResourceCache::insert gives up: too heavy, no byte to read, or an I/O error.
SkipInsert(c) ==
    /\ pc[c] = "insert"
    /\ \/ /\ \/ res[c].len > MaxItemWeight
             \/ ReadBytes(res[c], size[res[c].version]) = {}
          /\ UNCHANGED faults
       \/ Fault
    /\ Answer(c, res[c])
    /\ UNCHANGED <<treeVars, size, cache, want>>

-----------------------------------------------------------------------------
(* The body: get_range, one chunk after the other *)

\* What the next turn of get_range may read.
Readable(c) ==
    ReadRange(res[c], pos[c], NextChunk(pos[c], res[c].len), size[res[c].version])

\* The client stores n more bytes.
Store(c, n) == copy' = [copy EXCEPT ![c].have = @ + n]

\* Mutant of Read: the position advances by what was asked, not by what came.
ReadSkips(c) ==
    /\ pc[c] = "body"
    /\ pos[c] < res[c].len
    /\ \E n \in Readable(c) : Store(c, n)
    /\ pos' = [pos EXCEPT ![c] = @ + NextChunk(pos[c], res[c].len)]
    /\ UNCHANGED <<treeVars, size, cache, pc, res, want, faults>>

\* A chunk is read and sent; the position advances by its length.
Read(c) ==
    /\ pc[c] = "body"
    /\ pos[c] < res[c].len
    /\ \E n \in Readable(c) :
         /\ Store(c, n)
         /\ pos' = [pos EXCEPT ![c] = @ + n]
    /\ UNCHANGED <<treeVars, size, cache, pc, res, want, faults>>

\* The response is over, and its resource dropped.
Close(c) ==
    /\ res' = [res EXCEPT ![c] = NoResource]
    /\ pos' = [pos EXCEPT ![c] = 0]
    /\ UNCHANGED <<treeVars, size, cache, copy, want>>

\* The body ends: the client has all that was announced.
BodyEnds(c) ==
    /\ Goto(c, "body", "done")
    /\ pos[c] = res[c].len
    /\ Close(c)
    /\ UNCHANGED faults

\* No byte can be read, the read fails or the connection is lost: the response
\* breaks off, and the client will resume.
BodyFails(c) ==
    /\ Goto(c, "body", "idle")
    /\ \/ pos[c] < res[c].len /\ Readable(c) = {} /\ UNCHANGED faults
       \/ Fault
    /\ Close(c)

Step(c) ==
    \/ Ask(c) \/ Hit(c) \/ Miss(c) \/ Open(c) \/ OpenFails(c) \/ Insert(c)
    \/ SkipInsert(c) \/ Read(c) \/ BodyEnds(c) \/ BodyFails(c)

-----------------------------------------------------------------------------
(* The environment *)

\* expire_after passes.
Expire(p) ==
    /\ Present(p)
    /\ cache' = [cache EXCEPT ![p].expired = TRUE]
    /\ UNCHANGED <<treeVars, size, clientVars, want, faults>>

Deploy(p) ==
    /\ Release(p) \/ Remove(p) \/ Rollback(p)
    /\ UNCHANGED <<size, cache, clientVars, want, faults>>

\* A file is cut in place, which the documentation (resource.rs:171-176) warns
\* against; once in a run.
Cut(v) ==
    /\ size = LenOf
    /\ \E n \in 0 .. size[v] - 1 : size' = [size EXCEPT ![v] = n]
    /\ UNCHANGED <<treeVars, cache, clientVars, want, faults>>

Next ==
    \/ \E c \in Clients : Step(c)
    \/ \E p \in Paths : Expire(p) \/ Deploy(p)
    \/ \E v \in Versions : Cut(v)

\* Requests and bodies run to their end, clients do not give up, time passes.
Fairness ==
    /\ \A c \in Clients : WF_vars(Step(c))
    /\ \A p \in Paths : WF_vars(Expire(p))

Spec == Init /\ [][Next]_vars /\ Fairness

-----------------------------------------------------------------------------
(* Properties *)

TypeOK ==
    /\ TreeTypeOK
    /\ size \in [Versions -> Nat]
    /\ cache \in [Paths -> CacheEntries]
    /\ pc \in [Clients -> {"idle", "lookup", "open", "insert", "body", "done"}]
    /\ want \in [Clients -> Paths]
    /\ res \in [Clients -> Resources]
    /\ pos \in [Clients -> Nat]
    /\ copy \in [Clients -> Copies]
    /\ faults \in 0 .. MaxFaults
    /\ \A c \in Clients :
         pc[c] \in {"insert", "body"} => res[c].version \in Versions

\* Every byte lands in its place, once: however many short reads, broken responses,
\* resumptions and restarts there were, the body's position is the number of
\* bytes the client has of that very version, and a finished copy is whole.
BytesInPlace ==
    \A c \in Clients :
        /\ pc[c] = "body" =>
             copy[c].of = Validator(res[c]) /\ copy[c].have = pos[c] /\ pos[c] <= res[c].len
        /\ pc[c] = "done" => copy[c].have = copy[c].of.len

\* A response breaks off for a cause: an I/O error or lost connection, a file that
\* was cut below the length of its resource, or bytes fewer than it.
FailuresHaveACause ==
    [][\A c \in Clients :
         pc[c] = "body" /\ pc'[c] = "idle" =>
            \/ faults' # faults
            \/ res[c].content = "file" /\ size[res[c].version] < res[c].len
            \/ res[c].content = "bytes" /\ res[c].held < res[c].len]_vars

\* Once its path stops changing, every download completes: a response from an
\* entry that is short breaks off, again and again, but the entry expires, and the
\* request that replaces it is answered from the file.
EventuallyWhole ==
    \A c \in Clients :
        (\E v \in Versions : <>[](tree[want[c]] = v)) => <>(pc[c] = "done")
=============================================================================
