------------------------- MODULE ResourceCacheProofs -------------------------
(***************************************************************************)
(* Proofs about ResourceCache for every set of paths, requests and         *)
(* preferences and every expiry, weight and latency.                       *)
(*                                                                         *)
(* What an entry promises depends on the request that inserted it: the     *)
(* bytes were current when that request opened its file (FoundInv), which  *)
(* was at most MaxFill before the insertion, so the path gave them up at   *)
(* most MaxFill before the entry was born (EntryInv).                      *)
(***************************************************************************)
EXTENDS ResourceCache, TLAPS

\* A version the path holds has not been gone for any time.
HeldInv ==
    \A p \in Paths, v \in Versions : tree[p] = v => gone[p][v] = 0

\* An entry holds a real version in a coding its key accepts, which its path
\* held at most MaxFill before the entry was inserted.
EntryInv ==
    \A k \in Keys : Present(k) =>
        /\ cache[k].resource.content \in Versions
        /\ cache[k].resource.encoding \in Accepts[k.encodings]
        /\ gone[k.path][cache[k].resource.content] <= cache[k].age + MaxFill

\* What a request found was there when it opened the file.
FoundInv ==
    \A r \in Requests : pc[r] = "insert" =>
        /\ found[r].encoding \in Accepts[req[r].preferred]
        /\ gone[req[r].path][found[r].content] <= openAge[r]

IInv == TypeOK /\ HeldInv /\ EntryInv /\ FoundInv /\ EncodingAccepted

-----------------------------------------------------------------------------
(* Types *)

LEMMA NoResourceType == NoResource \in Resources /\ NoEntry \in CacheEntries
  BY TreeAssumption, ResourceAssumption
  DEF NoResource, NoEntry, Entry, Resources, CacheEntries, Contents, Absent, ExpiredAge

LEMMA KeyOfType ==
    ASSUME NEW r \in Requests, req[r] \in Asks
    PROVE  /\ KeyOf(r) \in Keys
           /\ KeyOf(r).path = req[r].path /\ KeyOf(r).encodings = req[r].preferred
           /\ req[r].path \in Paths /\ req[r].preferred \in Preferences
  BY DEF Asks, Keys, KeyOf, CacheKey

LEMMA EntryType ==
    \A e \in CacheEntries : e.resource \in Resources /\ e.age \in 0 .. ExpiredAge
  BY DEF CacheEntries

LEMMA InitType == Init => TypeOK
<1> SUFFICES ASSUME Init PROVE TypeOK
  OBVIOUS
<1> USE TreeAssumption, ResourceAssumption, NoResourceType DEF Init
<1>1. TreeTypeOK
  BY DEF TreeInit, TreeTypeOK, Contents, Versions, Absent
<1>2. gone \in [Paths -> [Versions -> 0 .. GoneCap]]
  BY DEF GoneCap
<1>3. QED
  BY <1>1, <1>2 DEF TypeOK

\* A return with a resource keeps the types.
LEMMA FinishType ==
    ASSUME TypeOK, NEW r \in Requests, pc[r] # "idle",
           NEW res \in Resources, Finish(r, res),
           cache' \in [Keys -> CacheEntries]
    PROVE  TypeOK'
  BY NoResourceType, ResourceAssumption
  DEF TypeOK, Finish, treeVars, TreeTypeOK

LEMMA StepType ==
    ASSUME TypeOK, NEW r \in Requests, Step(r)
    PROVE  TypeOK'
<1> USE ResourceAssumption
<1>0. cache \in [Keys -> CacheEntries]
  BY DEF TypeOK
<1>1. CASE Hit(r)
  <2>1. KeyOf(r) \in Keys
    BY <1>1, KeyOfType DEF Hit, TypeOK
  <2>2. cache[KeyOf(r)].resource \in Resources
    BY <1>0, <2>1, EntryType
  <2>3. QED
    BY <1>0, <1>1, <2>2, FinishType DEF Hit
<1>2. CASE HitExpired(r)
  BY <1>2 DEF HitExpired, Goto, TypeOK, treeVars, TreeTypeOK
<1>3. CASE Sweep(r)
  <2>1. cache' \in [Keys -> CacheEntries]
    BY <1>0, <1>3, NoResourceType DEF Sweep
  <2>2. QED
    BY <1>3, <2>1 DEF Sweep, Goto, TypeOK, treeVars, TreeTypeOK
<1>4. CASE Miss(r)
  BY <1>4 DEF Miss, Goto, TypeOK, treeVars, TreeTypeOK
<1>5. CASE Find(r)
  <2>1. req[r].path \in Paths /\ req[r].preferred \in Preferences
    BY <1>5, KeyOfType DEF Find, Goto, TypeOK
  <2>2. tree[req[r].path] \in Versions
    BY <1>5, <2>1
    DEF Find, OpenStatus, TypeOK, TreeTypeOK, Contents, Versions, Absent
  <2>3. PICK e \in Encodings :
          found' = [found EXCEPT ![r] = [content |-> tree[req[r].path], encoding |-> e]]
    BY <1>5, <2>1 DEF Find
  <2>4. [content |-> tree[req[r].path], encoding |-> e] \in Resources
    BY <2>2, <2>3 DEF Resources, Contents, Versions
  <2>5. QED
    BY <1>5, <2>2, <2>3, <2>4 DEF Find, Goto, TypeOK, treeVars, TreeTypeOK
<1>6. CASE FindFails(r)
  BY <1>0, <1>6, NoResourceType, FinishType DEF FindFails
<1>7. CASE Insert(r)
  <2>1. found[r] \in Resources
    BY DEF TypeOK
  <2>2. Entry(found[r], 0) \in CacheEntries
    BY <2>1 DEF Entry, CacheEntries, ExpiredAge
  <2>3. cache' \in [Keys -> CacheEntries]
    BY <1>0, <1>7, <2>2, NoResourceType DEF Insert
  <2>4. QED
    BY <1>7, <2>1, <2>3, FinishType DEF Insert
<1>8. CASE SkipInsert(r)
  BY <1>0, <1>8, FinishType DEF SkipInsert, TypeOK
<1>9. CASE Respond(r)
  BY <1>9, NoResourceType DEF Respond, Goto, TypeOK, treeVars, TreeTypeOK
<1> QED
  BY <1>1, <1>2, <1>3, <1>4, <1>5, <1>6, <1>7, <1>8, <1>9 DEF Step

LEMMA TickType ==
    ASSUME TypeOK, Tick
    PROVE  TypeOK'
<1> USE TreeAssumption, ResourceAssumption
<1>1. cache' \in [Keys -> CacheEntries]
  <2>1. SUFFICES ASSUME NEW k \in Keys PROVE cache'[k] \in CacheEntries
    BY DEF Tick
  <2>2. cache[k] \in CacheEntries
    BY DEF TypeOK
  <2>3. [cache[k] EXCEPT !.age = Older(@, ExpiredAge)] \in CacheEntries
    BY <2>2 DEF CacheEntries, Older, ExpiredAge
  <2>4. QED
    BY <2>3, NoResourceType DEF Tick
<1>2. openAge' \in [Requests -> 0 .. MaxFill]
  BY DEF Tick, TypeOK
<1>3. gone' \in [Paths -> [Versions -> 0 .. GoneCap]]
  BY DEF Tick, TypeOK, Older, GoneCap
<1>4. QED
  BY <1>1, <1>2, <1>3 DEF Tick, TypeOK, treeVars, TreeTypeOK

\* What a deployment does to the tree.
LEMMA DeployTree ==
    ASSUME TypeOK, NEW p \in Paths, Deploy(p)
    PROVE  /\ TreeTypeOK'
           /\ \A q \in Paths \ {p} : tree'[q] = tree[q]
<1> USE TreeAssumption DEF TypeOK, TreeTypeOK, Contents, Absent
<1>1. CASE Release(p)
  BY <1>1 DEF Release
<1>2. CASE Remove(p)
  BY <1>2 DEF Remove
<1>3. CASE Rollback(p)
  BY <1>3 DEF Rollback
<1>4. QED
  BY <1>1, <1>2, <1>3 DEF Deploy

LEMMA NextType == TypeOK /\ [Next]_vars => TypeOK'
<1> SUFFICES ASSUME TypeOK, [Next]_vars PROVE TypeOK'
  OBVIOUS
<1>1. ASSUME NEW r \in Requests, NEW ask \in Asks, Request(r, ask) PROVE TypeOK'
  BY <1>1 DEF Request, Goto, TypeOK, treeVars, TreeTypeOK
<1>2. ASSUME NEW r \in Requests, Step(r) PROVE TypeOK'
  BY <1>2, StepType
<1>3. CASE Tick
  BY <1>3, TickType
<1>4. ASSUME NEW p \in Paths, Deploy(p) PROVE TypeOK'
  <2>1. TreeTypeOK'
    BY <1>4, DeployTree
  <2>2. gone' \in [Paths -> [Versions -> 0 .. GoneCap]]
    BY <1>4, ResourceAssumption DEF Deploy, TypeOK, GoneCap
  <2>3. QED
    BY <1>4, <2>1, <2>2 DEF Deploy, requestVars, TypeOK
<1>5. CASE UNCHANGED vars
  BY <1>5 DEF vars, requestVars, treeVars, TypeOK, TreeTypeOK
<1>6. QED
  BY <1>1, <1>2, <1>3, <1>4, <1>5 DEF Next

\* Every reachable state is well typed; only a real version is ever inserted.
THEOREM TypeCorrect == Spec => []TypeOK
  BY InitType, NextType, PTL DEF Spec

-----------------------------------------------------------------------------
(* The inductive invariant *)

LEMMA InitIInv == Init => IInv
<1> SUFFICES ASSUME Init PROVE IInv
  OBVIOUS
<1>1. HeldInv
  BY DEF Init, HeldInv
<1>2. EntryInv
  BY DEF Init, EntryInv, Present, NoEntry, Entry
<1>3. FoundInv /\ EncodingAccepted
  BY DEF Init, FoundInv, EncodingAccepted
<1>4. QED
  BY <1>1, <1>2, <1>3, InitType DEF IInv

\* A return keeps the invariant if its coding is accepted and the cache keeps
\* its promise.
LEMMA FinishInv ==
    ASSUME IInv, TypeOK', EntryInv', NEW r \in Requests, NEW res \in Resources,
           Finish(r, res), res.encoding \in Accepts[req[r].preferred]
    PROVE  IInv'
<1> USE DEF Finish, treeVars
<1>1. HeldInv'
  BY DEF IInv, HeldInv
<1>2. FoundInv'
  BY DEF IInv, FoundInv, TypeOK
<1>3. EncodingAccepted'
  BY DEF IInv, EncodingAccepted, TypeOK
<1>4. QED
  BY <1>1, <1>2, <1>3 DEF IInv

LEMMA StepInv ==
    ASSUME IInv, NEW r \in Requests, Step(r)
    PROVE  IInv'
<1>T. TypeOK /\ TypeOK'
  BY StepType DEF IInv
<1>E. ASSUME cache' = cache, gone' = gone PROVE EntryInv'
  BY <1>E DEF IInv, EntryInv, Present
<1>1. CASE Hit(r)
  <2>1. KeyOf(r) \in Keys /\ KeyOf(r).encodings = req[r].preferred
    BY <1>1, <1>T, KeyOfType DEF Hit, TypeOK
  <2>2. /\ cache[KeyOf(r)].resource \in Resources
        /\ cache[KeyOf(r)].resource.encoding \in Accepts[req[r].preferred]
    BY <1>1, <1>T, <2>1, EntryType DEF Hit, TypeOK, IInv, EntryInv
  <2>3. EntryInv'
    BY <1>1, <1>E DEF Hit, Finish
  <2>4. QED
    BY <1>1, <1>T, <2>2, <2>3, FinishInv DEF Hit
<1>2. CASE HitExpired(r)
  <2> USE <1>2, <1>T DEF HitExpired, Goto, treeVars
  <2>1. HeldInv' /\ EntryInv'
    BY <1>E DEF IInv, HeldInv
  <2>2. FoundInv' /\ EncodingAccepted'
    BY DEF IInv, FoundInv, EncodingAccepted, TypeOK
  <2>3. QED
    BY <2>1, <2>2 DEF IInv
<1>3. CASE Sweep(r)
  <2> USE <1>3, <1>T DEF Sweep, Goto, treeVars
  <2>1. HeldInv'
    BY DEF IInv, HeldInv
  <2>2. EntryInv'
    BY DEF IInv, EntryInv, Present, NoEntry, Entry
  <2>3. FoundInv' /\ EncodingAccepted'
    BY DEF IInv, FoundInv, EncodingAccepted, TypeOK
  <2>4. QED
    BY <2>1, <2>2, <2>3 DEF IInv
<1>4. CASE Miss(r)
  <2> USE <1>4, <1>T DEF Miss, Goto, treeVars
  <2>1. HeldInv' /\ EntryInv'
    BY <1>E DEF IInv, HeldInv
  <2>2. FoundInv' /\ EncodingAccepted'
    BY DEF IInv, FoundInv, EncodingAccepted, TypeOK
  <2>3. QED
    BY <2>1, <2>2 DEF IInv
<1>5. CASE Find(r)
  <2> USE <1>5, <1>T DEF Find, Goto, treeVars
  <2>1. /\ found'[r].content = tree[req[r].path]
        /\ found'[r].encoding \in Accepts[req[r].preferred]
    BY DEF TypeOK
  <2>2. req[r].path \in Paths
    BY KeyOfType DEF TypeOK
  <2>3. found'[r].content \in Versions
    BY DEF TypeOK
  <2>4. gone[req[r].path][found'[r].content] = 0
    BY <2>1, <2>2, <2>3 DEF IInv, HeldInv
  <2>5. HeldInv' /\ EntryInv'
    BY <1>E DEF IInv, HeldInv
  <2>6. FoundInv'
    BY <2>1, <2>4 DEF IInv, FoundInv, TypeOK
  <2>7. EncodingAccepted'
    BY DEF IInv, EncodingAccepted, TypeOK
  <2>8. QED
    BY <2>5, <2>6, <2>7 DEF IInv
<1>6. CASE FindFails(r)
  <2>1. NoResource.encoding \in Accepts[req[r].preferred]
    BY <1>6, <1>T, KeyOfType, ResourceAssumption DEF FindFails, TypeOK, NoResource
  <2>2. EntryInv'
    BY <1>6, <1>E DEF FindFails, Finish
  <2>3. QED
    BY <1>6, <1>T, <2>1, <2>2, NoResourceType, FinishInv DEF FindFails
<1>7. CASE Insert(r)
  <2>1. found[r] \in Resources /\ found[r].content \in Versions
    BY <1>7, <1>T DEF Insert, TypeOK
  <2>2. /\ found[r].encoding \in Accepts[req[r].preferred]
        /\ gone[req[r].path][found[r].content] <= openAge[r]
        /\ openAge[r] \in 0 .. MaxFill
    BY <1>7, <1>T DEF Insert, IInv, FoundInv, TypeOK
  <2>3. /\ KeyOf(r).path = req[r].path /\ KeyOf(r).encodings = req[r].preferred
        /\ req[r].path \in Paths
    BY <1>7, <1>T, KeyOfType DEF Insert, TypeOK
  <2>4. gone[req[r].path][found[r].content] \in Nat
    BY <1>T, <2>1, <2>3 DEF TypeOK
  <2>5. EntryInv'
    <3>1. SUFFICES ASSUME NEW k \in Keys, Present(k)'
                   PROVE  /\ cache'[k].resource.content \in Versions
                          /\ cache'[k].resource.encoding \in Accepts[k.encodings]
                          /\ gone[k.path][cache'[k].resource.content]
                               <= cache'[k].age + MaxFill
      BY <1>7 DEF EntryInv, Insert, Finish
    <3>2. cache'[k] = IF k = KeyOf(r) THEN Entry(found[r], 0) ELSE cache[k]
      BY <1>7, <3>1 DEF Insert, Present, NoEntry, Entry
    <3>3. CASE k = KeyOf(r)
      BY <2>1, <2>2, <2>3, <2>4, <3>2, <3>3, ResourceAssumption DEF Entry
    <3>4. CASE k # KeyOf(r)
      BY <3>1, <3>2, <3>4 DEF IInv, EntryInv, Present
    <3>5. QED
      BY <3>3, <3>4
  <2>6. QED
    BY <1>7, <1>T, <2>1, <2>2, <2>5, FinishInv DEF Insert
<1>8. CASE SkipInsert(r)
  <2>1. found[r] \in Resources /\ found[r].encoding \in Accepts[req[r].preferred]
    BY <1>8, <1>T DEF SkipInsert, TypeOK, IInv, FoundInv
  <2>2. EntryInv'
    BY <1>8, <1>E DEF SkipInsert, Finish
  <2>3. QED
    BY <1>8, <1>T, <2>1, <2>2, FinishInv DEF SkipInsert
<1>9. CASE Respond(r)
  <2> USE <1>9, <1>T DEF Respond, Goto, treeVars
  <2>1. HeldInv' /\ EntryInv'
    BY <1>E DEF IInv, HeldInv
  <2>2. FoundInv' /\ EncodingAccepted'
    BY DEF IInv, FoundInv, EncodingAccepted, TypeOK
  <2>3. QED
    BY <2>1, <2>2 DEF IInv
<1> QED
  BY <1>1, <1>2, <1>3, <1>4, <1>5, <1>6, <1>7, <1>8, <1>9 DEF Step

\* Versions, entries and open files grow older together.
LEMMA TickInv ==
    ASSUME IInv, Tick, TypeOK'
    PROVE  IInv'
<1> USE ResourceAssumption
<1>T. TypeOK
  BY DEF IInv
<1>1. \A p \in Paths, v \in Versions :
        /\ gone[p][v] \in 0 .. GoneCap
        /\ gone'[p][v] \in {0, Older(gone[p][v], GoneCap)}
  BY <1>T DEF Tick, TypeOK
<1>2. HeldInv'
  BY DEF Tick, treeVars, HeldInv
<1>3. EntryInv'
  <2>1. SUFFICES ASSUME NEW k \in Keys, Present(k)'
                 PROVE  /\ cache'[k].resource.content \in Versions
                        /\ cache'[k].resource.encoding \in Accepts[k.encodings]
                        /\ gone'[k.path][cache'[k].resource.content]
                             <= cache'[k].age + MaxFill
    BY DEF EntryInv
  <2>2. cache[k] \in CacheEntries /\ k.path \in Paths
    BY <1>T DEF TypeOK, Keys
  <2>3. /\ Present(k)
        /\ cache'[k].resource = cache[k].resource
        /\ cache'[k].age = Older(cache[k].age, ExpiredAge)
    BY <2>1, <2>2 DEF Tick, Present, NoEntry, Entry, CacheEntries
  <2>4. /\ cache[k].resource.content \in Versions
        /\ cache[k].resource.encoding \in Accepts[k.encodings]
        /\ gone[k.path][cache[k].resource.content] <= cache[k].age + MaxFill
    BY <2>3 DEF IInv, EntryInv
  <2>5. cache[k].age \in 0 .. ExpiredAge
    BY <2>2, EntryType
  <2>6. QED
    BY <1>1, <2>2, <2>3, <2>4, <2>5 DEF Older, GoneCap, ExpiredAge
<1>4. FoundInv'
  <2>1. SUFFICES ASSUME NEW r \in Requests, pc[r] = "insert"
                 PROVE  /\ found[r].encoding \in Accepts[req[r].preferred]
                        /\ gone'[req[r].path][found[r].content] <= openAge'[r]
    BY DEF FoundInv, Tick
  <2>2. /\ found[r].encoding \in Accepts[req[r].preferred]
        /\ gone[req[r].path][found[r].content] <= openAge[r]
    BY <2>1 DEF IInv, FoundInv
  <2>3. /\ found[r].content \in Versions /\ req[r].path \in Paths
        /\ openAge[r] \in 0 .. MaxFill /\ openAge'[r] = openAge[r] + 1
    BY <1>T, <2>1 DEF TypeOK, Asks, Tick
  <2>4. QED
    BY <1>1, <2>2, <2>3 DEF Older
<1>5. EncodingAccepted'
  BY DEF Tick, IInv, EncodingAccepted
<1>6. QED
  BY <1>2, <1>3, <1>4, <1>5 DEF IInv

LEMMA DeployInv ==
    ASSUME IInv, NEW p \in Paths, Deploy(p), TypeOK'
    PROVE  IInv'
<1>T. TypeOK
  BY DEF IInv
<1>1. /\ UNCHANGED <<cache, requestVars>>
      /\ \A q \in Paths, v \in Versions :
           gone'[q][v] = IF q = p /\ v = tree'[p] THEN 0 ELSE gone[q][v]
      /\ \A q \in Paths \ {p} : tree'[q] = tree[q]
  BY <1>T, DeployTree DEF Deploy, TypeOK
<1>2. \A q \in Paths, v \in Versions :
        gone[q][v] \in Nat /\ gone'[q][v] \in Nat /\ gone'[q][v] <= gone[q][v]
  BY <1>T, <1>1, ResourceAssumption DEF TypeOK, GoneCap
<1>3. HeldInv'
  BY <1>1 DEF IInv, HeldInv
<1>4. EntryInv'
  <2>1. SUFFICES ASSUME NEW k \in Keys, Present(k)
                 PROVE  /\ cache[k].resource.content \in Versions
                        /\ cache[k].resource.encoding \in Accepts[k.encodings]
                        /\ gone'[k.path][cache[k].resource.content]
                             <= cache[k].age + MaxFill
    BY <1>1 DEF EntryInv, Present
  <2>a. k.path \in Paths /\ cache[k] \in CacheEntries
    BY <1>T DEF TypeOK, Keys
  <2>2. k.path \in Paths /\ cache[k].age \in Nat
    BY <2>a, EntryType, ResourceAssumption DEF ExpiredAge
  <2>3. QED
    BY <1>2, <2>1, <2>2, ResourceAssumption DEF IInv, EntryInv
<1>5. FoundInv'
  <2>1. SUFFICES ASSUME NEW r \in Requests, pc[r] = "insert"
                 PROVE  /\ found[r].encoding \in Accepts[req[r].preferred]
                        /\ gone'[req[r].path][found[r].content] <= openAge[r]
    BY <1>1 DEF FoundInv, requestVars
  <2>2. found[r].content \in Versions /\ req[r].path \in Paths /\ openAge[r] \in Nat
    BY <1>T, <2>1, ResourceAssumption DEF TypeOK, Asks
  <2>3. QED
    BY <1>2, <2>1, <2>2 DEF IInv, FoundInv
<1>6. EncodingAccepted'
  BY <1>1 DEF IInv, EncodingAccepted, requestVars
<1>7. QED
  BY <1>3, <1>4, <1>5, <1>6 DEF IInv

LEMMA NextIInv == IInv /\ [Next]_vars => IInv'
<1> SUFFICES ASSUME IInv, [Next]_vars PROVE IInv'
  OBVIOUS
<1>T. TypeOK /\ TypeOK'
  BY NextType DEF IInv
<1>1. ASSUME NEW r \in Requests, NEW ask \in Asks, Request(r, ask) PROVE IInv'
  <2> USE <1>1, <1>T DEF Request, Goto, treeVars
  <2>1. HeldInv' /\ EntryInv'
    BY DEF IInv, HeldInv, EntryInv, Present
  <2>2. FoundInv' /\ EncodingAccepted'
    BY DEF IInv, FoundInv, EncodingAccepted, TypeOK
  <2>3. QED
    BY <2>1, <2>2 DEF IInv
<1>2. ASSUME NEW r \in Requests, Step(r) PROVE IInv'
  BY <1>2, StepInv
<1>3. CASE Tick
  BY <1>3, <1>T, TickInv
<1>4. ASSUME NEW p \in Paths, Deploy(p) PROVE IInv'
  BY <1>4, <1>T, DeployInv
<1>5. CASE UNCHANGED vars
  <2> USE <1>5 DEF vars, requestVars, treeVars
  <2>1. HeldInv' /\ EntryInv'
    BY DEF IInv, HeldInv, EntryInv, Present
  <2>2. FoundInv' /\ EncodingAccepted'
    BY DEF IInv, FoundInv, EncodingAccepted
  <2>3. QED
    BY <1>T, <2>1, <2>2 DEF IInv
<1>6. QED
  BY <1>1, <1>2, <1>3, <1>4, <1>5 DEF Next

\* The inductive invariant: entries are in an accepted coding and were current at
\* most MaxFill before they were inserted.
THEOREM Invariance == Spec => []IInv
  BY InitIInv, NextIInv, PTL DEF Spec

-----------------------------------------------------------------------------
(* The theorems *)

\* Whoever fills the cache, a client gets a coding it accepts.
THEOREM Negotiated == Spec => []EncodingAccepted
<1>1. IInv => EncodingAccepted
  BY DEF IInv
<1>2. QED
  BY <1>1, Invariance, PTL
\* No response is staler than expire_after and one fill, for every value of both.
THEOREM Staleness == Spec => BoundedStaleness
<1>. DEFINE Stale == \A r \in Requests :
         pc[r] # "done" /\ pc'[r] = "done" /\ result'[r] # NoResource =>
            gone[req[r].path][result'[r].content] <= ExpireAfter + MaxFill
<1>1. IInv /\ [Next]_vars => Stale
  <2> SUFFICES ASSUME IInv, [Next]_vars, NEW r \in Requests,
                      pc[r] # "done", pc'[r] = "done", result'[r] # NoResource
               PROVE  gone[req[r].path][result'[r].content] <= ExpireAfter + MaxFill
    OBVIOUS
  <2>T. TypeOK
    BY DEF IInv
  <2>1. Step(r)
    <3>1. ASSUME NEW q \in Requests, NEW ask \in Asks, Request(q, ask) PROVE FALSE
      BY <2>T, <3>1 DEF TypeOK, Request, Goto
    <3>2. ASSUME NEW q \in Requests, Step(q) PROVE q = r
      BY <2>T, <3>2 DEF TypeOK, Step, Hit, HitExpired, Sweep, Miss, Find, FindFails,
           Insert, SkipInsert, Respond, Goto, Finish
    <3>3. ~ Tick /\ ~ UNCHANGED vars
      BY DEF Tick, vars, requestVars
    <3>4. ASSUME NEW p \in Paths, Deploy(p) PROVE FALSE
      BY <3>4 DEF Deploy, requestVars
    <3>5. QED
      BY <3>1, <3>2, <3>3, <3>4 DEF Next
  <2>2. CASE Hit(r)
    <3> DEFINE k == KeyOf(r)
    <3>1. req[r] \in Asks
      BY <2>T, <2>2 DEF TypeOK, Hit
    <3>2. k \in Keys /\ k.path = req[r].path
      BY <3>1 DEF KeyOf, CacheKey, Keys, Asks
    <3>3. Present(k) /\ cache[k].age <= ExpireAfter /\ result'[r] = cache[k].resource
      BY <2>2, <2>T DEF Hit, Finish, TypeOK
    <3>4. gone[k.path][cache[k].resource.content] <= cache[k].age + MaxFill
          /\ cache[k].resource.content \in Versions
      BY <3>2, <3>3 DEF IInv, EntryInv
    <3>5. cache[k] \in CacheEntries /\ k.path \in Paths
      BY <2>T, <3>2 DEF TypeOK, Keys
    <3>6. cache[k].age \in Nat
      BY <3>5, EntryType, ResourceAssumption DEF ExpiredAge
    <3>7. gone[k.path][cache[k].resource.content] \in Nat
      BY <2>T, <3>4, <3>5, ResourceAssumption DEF TypeOK, GoneCap
    <3>8. QED
      BY <3>2, <3>3, <3>4, <3>6, <3>7, ResourceAssumption
  <2>3. CASE Insert(r) \/ SkipInsert(r)
    <3>1. pc[r] = "insert" /\ result'[r] = found[r]
      BY <2>3, <2>T DEF Insert, SkipInsert, Finish, TypeOK
    <3>2. gone[req[r].path][found[r].content] <= openAge[r]
      BY <3>1 DEF IInv, FoundInv
    <3>3. found[r].content \in Versions /\ req[r].path \in Paths
          /\ openAge[r] \in 0 .. MaxFill
      BY <2>T, <3>1 DEF TypeOK, Asks
    <3>4. gone[req[r].path][found[r].content] \in Nat
      BY <2>T, <3>3, ResourceAssumption DEF TypeOK, GoneCap
    <3>5. QED
      BY <3>1, <3>2, <3>3, <3>4, ResourceAssumption
  <2>4. CASE FindFails(r)
    BY <2>4, <2>T DEF FindFails, Finish, TypeOK
  <2>5. CASE HitExpired(r) \/ Sweep(r) \/ Miss(r) \/ Find(r) \/ Respond(r)
    BY <2>5, <2>T DEF HitExpired, Sweep, Miss, Find, Respond, Goto, TypeOK
  <2>6. QED
    BY <2>1, <2>2, <2>3, <2>4, <2>5 DEF Step
<1>2. IInv /\ [Next]_vars => [Stale]_vars
  BY <1>1
<1>3. QED
  BY <1>2, Invariance, PTL DEF Spec, BoundedStaleness

\* Cleaning up never costs a fresh entry.
THEOREM Sparing == Spec => CleanupSparesFresh
<1>. DEFINE Spared == \A k \in Keys :
         Present(k) /\ ~ Present(k)' =>
            \/ cache[k].age >= ExpireAfter
            \/ \E r \in Requests : pc[r] = "insert" /\ pc'[r] = "done"
<1>1. IInv /\ [Next]_vars => Spared
  <2> SUFFICES ASSUME IInv, [Next]_vars, NEW k \in Keys, Present(k), ~ Present(k)'
               PROVE  \/ cache[k].age >= ExpireAfter
                      \/ \E r \in Requests : pc[r] = "insert" /\ pc'[r] = "done"
    OBVIOUS
  <2>T. TypeOK
    BY DEF IInv
  <2>a. cache[k] \in CacheEntries
    BY <2>T DEF TypeOK
  <2>1. ASSUME NEW r \in Requests, Step(r)
        PROVE  \/ cache[k].age >= ExpireAfter
               \/ pc[r] = "insert" /\ pc'[r] = "done"
    <3>1. CASE Sweep(r)
      <4>1. ~ (cache[k].age < ExpireAfter)
        BY <3>1 DEF Sweep, Present
      <4>2. cache[k].age \in Nat
        BY <2>a, EntryType, ResourceAssumption DEF ExpiredAge
      <4>3. QED
        BY <4>1, <4>2, ResourceAssumption
    <3>2. CASE Insert(r)
      BY <3>2, <2>T DEF Insert, Finish, TypeOK
    <3>3. CASE UNCHANGED cache
      BY <3>3 DEF Present
    <3>4. QED
      BY <2>1, <3>1, <3>2, <3>3 DEF Step, Hit, HitExpired, Miss, Find, FindFails,
           SkipInsert, Respond
  <2>2. ASSUME Tick PROVE FALSE
    <3>1. cache'[k] = [cache[k] EXCEPT !.age = Older(@, ExpiredAge)]
      BY <2>2 DEF Tick
    <3>2. QED
      BY <3>1, <2>a DEF Present, CacheEntries
  <2>3. ASSUME UNCHANGED cache PROVE FALSE
    BY <2>3 DEF Present
  <2>4. QED
    BY <2>1, <2>2, <2>3 DEF Next, Request, Deploy, vars
<1>2. IInv /\ [Next]_vars => [Spared]_vars
  BY <1>1
<1>3. QED
  BY <1>2, Invariance, PTL DEF Spec, CleanupSparesFresh
=============================================================================
