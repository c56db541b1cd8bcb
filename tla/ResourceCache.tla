---------------------------- MODULE ResourceCache ----------------------------
(***************************************************************************)
(* The in-memory cache of whole responses (src/src/resource_cache.rs) and  *)
(* the way ServedDir::resolve uses it (src/src/served_dir.rs:228-258):     *)
(* concurrent requests look a resource up, find the file on a miss and     *)
(* insert what they found, while time passes and the tree changes.         *)
(*                                                                         *)
(*   resolve:  idle -> lookup ------------------------------> done         *)
(*                        \-> sweep -> find -> insert ------->             *)
(*                                                                         *)
(* Time is kept as ages: how long ago an entry was inserted, a request     *)
(* opened its file, a path last held a version.  Ages stop one past what   *)
(* they are compared with, so that time itself is unbounded.               *)
(***************************************************************************)
EXTENDS FileTree

CONSTANTS
    Requests,      \* concurrent requests
    Encodings,     \* content codings, "identity" among them
    Preferences,   \* the values of CompressionSupport
    Accepts,       \* Accepts[f]: the codings find_file may return for f
    EncodedLen,    \* EncodedLen[e][v]: length of version v in coding e
    MaxItemWeight, \* max_item_weight
    ExpireAfter,   \* expire_after
    MaxFill        \* longest time from opening a file to inserting it

ASSUME ResourceAssumption ==
    /\ "identity" \in Encodings
    /\ Accepts \in [Preferences -> SUBSET Encodings]
    /\ \A f \in Preferences : "identity" \in Accepts[f]
    /\ EncodedLen \in [Encodings -> [Versions -> Nat]]
    /\ MaxItemWeight \in Nat
    /\ ExpireAfter \in Nat
    /\ MaxFill \in Nat \ {0}

ExpiredAge == ExpireAfter + 1             \* an entry's age stops here
GoneCap    == ExpireAfter + MaxFill + 1   \* and the age of a version here

VARIABLES
    cache,     \* cache[k]: the entry under key k, or NoEntry
    pc,        \* where each request is
    req,       \* path and preferred encodings of each request
    found,     \* what find_file returned: content and coding
    openAge,   \* time since the request opened its file
    result,    \* what resolve returns
    gone       \* history: gone[p][v]: time since p last held v

requestVars == <<pc, req, found, openAge, result>>
vars == <<treeVars, cache, requestVars, gone>>

Asks      == [path : Paths, preferred : Preferences]
NoRequest == [path |-> "none", preferred |-> "none"]
Keys      == [path : Paths, encodings : Preferences]
Resources == [content : Contents, encoding : Encodings]
NoResource == [content |-> Absent, encoding |-> "identity"]

\* Mutant of CacheKey: the encodings are left out of the key.
CacheKeyPathOnly(p, f) == [path |-> p, encodings |-> CHOOSE g \in Preferences : TRUE]

\* CacheKey::new.
CacheKey(p, f) == [path |-> p, encodings |-> f]

\* CacheValue: the resource and its insert_time, as an age.
Entry(res, age) == [resource |-> res, age |-> age]
NoEntry == Entry(NoResource, 0)
CacheEntries == [resource : Resources, age : 0 .. ExpiredAge]

Present(k) == cache[k].resource # NoResource

Older(n, cap) == IF n < cap THEN n + 1 ELSE n

Init ==
    /\ TreeInit
    /\ cache     = [k \in Keys |-> NoEntry]
    /\ pc        = [r \in Requests |-> "idle"]
    /\ req       = [r \in Requests |-> NoRequest]
    /\ found     = [r \in Requests |-> NoResource]
    /\ openAge   = [r \in Requests |-> 0]
    /\ result    = [r \in Requests |-> NoResource]
    /\ gone      = [p \in Paths |-> [v \in Versions |-> IF tree[p] = v THEN 0 ELSE GoneCap]]

Goto(r, from, to) == pc[r] = from /\ pc' = [pc EXCEPT ![r] = to]

\* resolve returns res (NoResource stands for an error).
Finish(r, res) ==
    /\ pc'        = [pc EXCEPT ![r] = "done"]
    /\ result'    = [result EXCEPT ![r] = res]
    /\ found'     = [found EXCEPT ![r] = NoResource]
    /\ openAge'   = [openAge EXCEPT ![r] = 0]
    /\ UNCHANGED <<treeVars, req, gone>>

KeyOf(r) == CacheKey(req[r].path, req[r].preferred)

-----------------------------------------------------------------------------
(* resolve and the cache operations it calls *)

Request(r, ask) ==
    /\ Goto(r, "idle", "lookup")
    /\ req' = [req EXCEPT ![r] = ask]
    /\ UNCHANGED <<treeVars, cache, found, openAge, result, gone>>

\* Mutant of Hit: the age of the entry is not looked at.
HitAnyAge(r) ==
    /\ pc[r] = "lookup"
    /\ Present(KeyOf(r))
    /\ Finish(r, cache[KeyOf(r)].resource)
    /\ UNCHANGED cache

\* Mutant of Hit: every hit renews the entry (sliding expiration).
HitRenews(r) ==
    /\ pc[r] = "lookup"
    /\ Present(KeyOf(r))
    /\ cache[KeyOf(r)].age <= ExpireAfter
    /\ Finish(r, cache[KeyOf(r)].resource)
    /\ cache' = [cache EXCEPT ![KeyOf(r)].age = 0]

\* ResourceCache::get, an entry that has not expired.
Hit(r) ==
    /\ pc[r] = "lookup"
    /\ Present(KeyOf(r))
    /\ cache[KeyOf(r)].age <= ExpireAfter
    /\ Finish(r, cache[KeyOf(r)].resource)
    /\ UNCHANGED cache

\* ResourceCache::get, an expired entry: all expired entries are to go.
HitExpired(r) ==
    /\ Goto(r, "lookup", "sweep")
    /\ Present(KeyOf(r))
    /\ cache[KeyOf(r)].age > ExpireAfter
    /\ UNCHANGED <<treeVars, cache, req, found, openAge, result, gone>>

\* Mutant of Sweep: the key that was found expired is removed.
SweepKey(r) ==
    /\ Goto(r, "sweep", "find")
    /\ cache' = [cache EXCEPT ![KeyOf(r)] = NoEntry]
    /\ UNCHANGED <<treeVars, req, found, openAge, result, gone>>

\* The retain of ResourceCache::get.  Other requests may have inserted since the
\* entry was read.
Sweep(r) ==
    /\ Goto(r, "sweep", "find")
    /\ cache' = [k \in Keys |-> IF cache[k].age < ExpireAfter THEN cache[k] ELSE NoEntry]
    /\ UNCHANGED <<treeVars, req, found, openAge, result, gone>>

Miss(r) ==
    /\ Goto(r, "lookup", "find")
    /\ ~ Present(KeyOf(r))
    /\ UNCHANGED <<treeVars, cache, req, found, openAge, result, gone>>

\* Mutant of Find: a missing file is not noticed.
FindUnchecked(r) ==
    /\ Goto(r, "find", "insert")
    /\ \E e \in Accepts[req[r].preferred] :
         found' = [found EXCEPT ![r] = [content |-> tree[req[r].path], encoding |-> e]]
    /\ openAge' = [openAge EXCEPT ![r] = 0]
    /\ UNCHANGED <<treeVars, cache, req, result, gone>>

\* find_file opens the path, or a compressed form of it that suits the request.
Find(r) ==
    /\ Goto(r, "find", "insert")
    /\ OpenStatus(req[r].path) = "ok"
    /\ \E e \in Accepts[req[r].preferred] :
         found' = [found EXCEPT ![r] = [content |-> tree[req[r].path], encoding |-> e]]
    /\ openAge' = [openAge EXCEPT ![r] = 0]
    /\ UNCHANGED <<treeVars, cache, req, result, gone>>

\* find_file ends in an error: the path is missing or a directory, or the system
\* reports any other error of opening it, so it may fail whatever the path holds.
FindFails(r) ==
    /\ pc[r] = "find"
    /\ Finish(r, NoResource)
    /\ UNCHANGED cache

\* ResourceCache::insert: the bytes are read from the open file and stored with
\* the current time; the sieve cache evicts what it likes.
Insert(r) ==
    /\ pc[r] = "insert"
    /\ LET len == EncodedLen[found[r].encoding][found[r].content] IN
         len <= MaxItemWeight /\ len > 0
    /\ \E evicted \in SUBSET Keys :
         cache' = [k \in Keys |->
                    IF k \in evicted THEN NoEntry
                    ELSE IF k = KeyOf(r) THEN Entry(found[r], 0) ELSE cache[k]]
    /\ Finish(r, found[r])

\* ResourceCache::insert gives up: the item is too heavy, or its bytes cannot be
\* read (an empty file never can: read_range fails on zero bytes).
SkipInsert(r) ==
    /\ pc[r] = "insert"
    /\ Finish(r, found[r])
    /\ UNCHANGED cache

\* The response is handed on.
Respond(r) ==
    /\ Goto(r, "done", "idle")
    /\ req'       = [req EXCEPT ![r] = NoRequest]
    /\ result'    = [result EXCEPT ![r] = NoResource]
    /\ UNCHANGED <<treeVars, cache, found, openAge, gone>>

Step(r) ==
    \/ Hit(r) \/ HitExpired(r) \/ Sweep(r) \/ Miss(r) \/ Find(r) \/ FindFails(r)
    \/ Insert(r) \/ SkipInsert(r) \/ Respond(r)

-----------------------------------------------------------------------------
(* The environment *)

\* MaxFill is a promise about scheduling: time does not pass while a request is
\* about to exceed it.
Tick ==
    /\ \A r \in Requests : pc[r] = "insert" => openAge[r] < MaxFill
    /\ cache'   = [k \in Keys |->
                    IF Present(k) THEN [cache[k] EXCEPT !.age = Older(@, ExpiredAge)] ELSE NoEntry]
    /\ openAge' = [r \in Requests |-> IF pc[r] = "insert" THEN openAge[r] + 1 ELSE 0]
    /\ gone'    = [p \in Paths |-> [v \in Versions |->
                    IF tree[p] = v THEN 0 ELSE Older(gone[p][v], GoneCap)]]
    /\ UNCHANGED <<treeVars, pc, req, found, result>>

Deploy(p) ==
    /\ Release(p) \/ Remove(p) \/ Rollback(p)
    /\ gone' = [gone EXCEPT ![p] = [v \in Versions |->
                 IF v = tree'[p] THEN 0 ELSE gone[p][v]]]
    /\ UNCHANGED <<cache, requestVars>>

Next ==
    \/ \E r \in Requests, ask \in Asks : Request(r, ask)
    \/ \E r \in Requests : Step(r)
    \/ Tick
    \/ \E p \in Paths : Deploy(p)

\* Requests run to their end and time passes; nobody has to ask or to deploy.
Fairness ==
    /\ \A r \in Requests : WF_vars(Step(r))
    /\ WF_vars(Tick)

Spec == Init /\ [][Next]_vars /\ Fairness

-----------------------------------------------------------------------------
(* Properties *)

\* The types of the state, and of the request where resolve uses it.
TypeOK ==
    /\ TreeTypeOK
    /\ cache \in [Keys -> CacheEntries]
    /\ pc \in [Requests -> {"idle", "lookup", "sweep", "find", "insert", "done"}]
    /\ req \in [Requests -> Asks \cup {NoRequest}]
    /\ found \in [Requests -> Resources]
    /\ openAge \in [Requests -> 0 .. MaxFill]
    /\ result \in [Requests -> Resources]
    /\ gone \in [Paths -> [Versions -> 0 .. GoneCap]]
    /\ \A r \in Requests :
         /\ pc[r] # "idle" => req[r] \in Asks
         /\ pc[r] = "insert" => found[r].content \in Versions

\* A response is stale by at most expire_after plus the time one request takes
\* from opening a file to inserting it: its path held those bytes that recently.
\* insert_time is taken at the insertion, so expire_after alone is no bound.
BoundedStaleness ==
    [][\A r \in Requests :
         pc[r] # "done" /\ pc'[r] = "done" /\ result'[r] # NoResource =>
            gone[req[r].path][result'[r].content] <= ExpireAfter + MaxFill]_vars

\* No client gets a coding it did not accept, however requests with other
\* Accept-Encoding headers fill the cache for the same path.
EncodingAccepted ==
    \A r \in Requests :
        pc[r] = "done" => result[r].encoding \in Accepts[req[r].preferred]

\* Cleaning up spares what is fresh: an entry that disappears while no insertion
\* takes place has expired, even if it replaced an expired one after the cleaning
\* request looked at it.
CleanupSparesFresh ==
    [][\A k \in Keys :
         Present(k) /\ ~ Present(k)' =>
            \/ cache[k].age >= ExpireAfter
            \/ \E r \in Requests : pc[r] = "insert" /\ pc'[r] = "done"]_vars

\* Once a path stops changing, every response for it is from some time on what it
\* holds or an error of opening it: expired, evicted and late entries do not linger.
EventuallyCurrent ==
    \A p \in Paths, v \in Versions :
        <>[](tree[p] = v) =>
            <>[](\A r \in Requests :
                   pc[r] = "done" /\ req[r].path = p => result[r].content \in {v, Absent})
=============================================================================
