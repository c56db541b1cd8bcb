-------------------------- MODULE BrotliCacheProofs --------------------------
(***************************************************************************)
(* Proofs about BrotliCache for every set of paths and callers, every size *)
(* limit and capacity, and any number of versions.                         *)
(*                                                                         *)
(* FreshContent is not inductive: that a hit returns fresh bytes depends   *)
(* on what earlier calls inserted.  IInv adds the reason.  As long as a    *)
(* path is never rolled back its versions only grow, so the second open of *)
(* a compression reads a version at least as new as the info of the first  *)
(* one (SourceInv), an entry is never older than its key (EntryInv), and a *)
(* call that saw some version sees every later one (SeenInv).              *)
(***************************************************************************)
EXTENDS BrotliCache, TLAPS

\* A path that was never rolled back holds its newest version or nothing.
NewestInv ==
    \A p \in Paths \ rolledBack : tree[p] \in {Absent, released[p]}

\* An entry's bytes are at least as new as the version that keys it.
EntryInv ==
    \A p \in Paths \ rolledBack, v \in Versions :
        LET w == cache[FileInfo(p, v)] IN
        w # Absent => v <= w /\ w <= released[p]

\* A running call has seen what its path holds, and with a version every later
\* one.
SeenInv ==
    \A c \in Calls : Running(c) =>
        /\ path[c] \in Paths
        /\ tree[path[c]] \in seen[c]
        /\ path[c] \notin rolledBack =>
             /\ \A u \in seen[c] : u <= released[path[c]]
             /\ \A u \in seen[c] \ {Absent} :
                  \A w \in Versions :
                    u <= w /\ w <= released[path[c]] => w \in seen[c]

\* The info of a call belongs to a version it has seen.
InfoInv ==
    \A c \in Calls : pc[c] \in {"lookup", "compress", "copy"} =>
        \E v \in Versions : info[c] = FileInfo(path[c], v) /\ v \in seen[c]

\* What is being compressed was seen, and is no older than the info.
SourceInv ==
    \A c \in Calls : pc[c] = "copy" =>
        /\ src[c] \in Versions
        /\ src[c] \in seen[c]
        /\ path[c] \notin rolledBack =>
             \A v \in Versions : info[c] = FileInfo(path[c], v) => v <= src[c]

IInv ==
    /\ TypeOK
    /\ NewestInv
    /\ EntryInv
    /\ SeenInv
    /\ InfoInv
    /\ SourceInv
    /\ FreshContent
    /\ ErrorsAreHonest

-----------------------------------------------------------------------------
(* Type correctness *)

LEMMA FileInfoType ==
    ASSUME NEW p \in Paths, NEW v \in Versions
    PROVE  FileInfo(p, v) \in FileInfos
  BY DEF FileInfos

\* FileInfo identifies the path and, by InfoAssumption, the version.
LEMMA FileInfoInjective ==
    ASSUME NEW p, NEW q, NEW v \in Versions, NEW w \in Versions,
           FileInfo(p, v) = FileInfo(q, w)
    PROVE  p = q /\ v = w
  BY InfoAssumption DEF FileInfo

LEMMA OpenStatusType ==
    \A p : OpenStatus(p) \in {"ok", "not_found", "is_directory"}
  BY DEF OpenStatus

LEMMA OpenErrorsType ==
    \A p : OpenErrors(p) \subseteq {"not_found", "is_directory", "io_error"}
  BY OpenStatusType DEF OpenErrors

LEMMA ResultsType ==
    /\ \A v \in Contents : Ok("br", v) \in Results /\ Ok("identity", v) \in Results
    /\ \A s \in {"not_found", "is_directory", "io_error", "compression_error"} :
         Err(s) \in Results
  BY TreeAssumption DEF Ok, Err, Results, Contents, Absent

LEMMA InitType == Init => TypeOK
<1> SUFFICES ASSUME Init PROVE TypeOK
  OBVIOUS
<1> USE TreeAssumption DEF Init, Contents, Versions, Absent
<1>1. TreeTypeOK
  BY DEF TreeInit, TreeTypeOK
<1>2. NoResult \in Results
  BY DEF NoResult, Results
<1>3. QED
  BY <1>1, <1>2 DEF TypeOK, Running

\* A return with a well-typed result preserves the types.
LEMMA FinishType ==
    ASSUME TypeOK, NEW c \in Calls, NEW r \in Results, Finish(c, r),
           cache' \in [FileInfos -> Contents]
    PROVE  TypeOK'
  BY TreeAssumption DEF TypeOK, Running, Finish, treeVars, TreeTypeOK, Contents, Absent

LEMMA StepType ==
    ASSUME TypeOK, NEW c \in Calls, Step(c)
    PROVE  TypeOK'
<1> USE TreeAssumption, OpenErrorsType, ResultsType
<1>0. cache \in [FileInfos -> Contents]
  BY DEF TypeOK
<1>1. CASE Stat(c)
  <2>1. path[c] \in Paths
    BY <1>1 DEF Stat, Running, TypeOK
  <2>2. tree[path[c]] \in Contents /\ tree[path[c]] # Absent
    BY <1>1, <2>1 DEF Stat, OpenStatus, TypeOK, TreeTypeOK
  <2>3. FileInfo(path[c], tree[path[c]]) \in FileInfos
    BY <2>1, <2>2, FileInfoType DEF Contents, Versions, Absent
  <2>4. QED
    BY <1>1, <2>1, <2>3
    DEF Running, Stat, TypeOK, Goto, treeVars, TreeTypeOK, Versions
<1>2. CASE StatFails(c)
  BY <1>0, <1>2, FinishType DEF Running, StatFails
<1>3. CASE Hit(c)
  BY <1>0, <1>3, FinishType DEF Running, Hit, TypeOK
<1>4. CASE Miss(c)
  BY <1>4 DEF Running, Miss, TypeOK, Goto, treeVars, TreeTypeOK
<1>5. CASE OpenSource(c)
  BY <1>5 DEF Running, OpenSource, TypeOK, Goto, treeVars, TreeTypeOK, OpenStatus
<1>6. CASE SourceGone(c)
  BY <1>0, <1>6, FinishType DEF Running, SourceGone
<1>7. CASE CompressFails(c)
  BY <1>0, <1>7, FinishType DEF Running, CompressFails
<1>8. CASE MetadataFails(c)
  BY <1>0, <1>8, FinishType DEF Running, MetadataFails
<1>9. CASE Insert(c)
  BY <1>0, <1>9, FinishType DEF Running, Insert, TypeOK, Contents, Absent
<1>10. CASE DiskFull(c)
  BY <1>10 DEF Running, DiskFull, TypeOK, treeVars, TreeTypeOK, Contents, Absent
<1>11. CASE Snapshot(c)
  BY <1>11 DEF Running, Snapshot, TypeOK, Goto, treeVars, TreeTypeOK, Entries
<1>12. CASE Retain(c)
  BY <1>0, <1>12 DEF Running, Retain, TypeOK, Goto, treeVars, TreeTypeOK, Contents, Absent
<1>13. CASE Wrap(c)
  BY <1>0, <1>13, FinishType DEF Running, Wrap, TypeOK, TreeTypeOK, OpenStatus
<1> QED
  BY <1>1, <1>2, <1>3, <1>4, <1>5, <1>6, <1>7, <1>8, <1>9, <1>10, <1>11, <1>12,
     <1>13 DEF Step

LEMMA DeployType ==
    ASSUME TypeOK, NEW p \in Paths, Deploy(p)
    PROVE  TypeOK'
<1> USE TreeAssumption DEF TypeOK, TreeTypeOK, Contents, Absent
<1>1. TreeTypeOK'
  <2>1. CASE Release(p)
    BY <2>1 DEF Release
  <2>2. CASE Remove(p)
    BY <2>2 DEF Remove
  <2>3. CASE Rollback(p)
    BY <2>3 DEF Rollback
  <2>4. QED
    BY <2>1, <2>2, <2>3 DEF Deploy
<1>2. tree'[p] \in Contents
  BY <1>1
<1>3. QED
  BY <1>1, <1>2 DEF Deploy, Running

LEMMA NextType == TypeOK /\ [Next]_vars => TypeOK'
<1> SUFFICES ASSUME TypeOK, [Next]_vars PROVE TypeOK'
  OBVIOUS
<1>1. ASSUME NEW c \in Calls, NEW p \in Paths, Call(c, p) PROVE TypeOK'
  BY <1>1 DEF Call, Goto, Running, TypeOK, TreeTypeOK, treeVars
<1>2. ASSUME NEW c \in Calls, Step(c) PROVE TypeOK'
  BY <1>2, StepType
<1>3. ASSUME NEW c \in Calls, Return(c) PROVE TypeOK'
  <2>1. NoResult \in Results
    BY TreeAssumption DEF NoResult, Results, Contents, Absent
  <2>2. QED
    BY <1>3, <2>1 DEF Return, Goto, Running, TypeOK, TreeTypeOK, treeVars
<1>4. ASSUME NEW p \in Paths, Deploy(p) PROVE TypeOK'
  BY <1>4, DeployType
<1>5. CASE UNCHANGED vars
  BY <1>5 DEF vars, callVars, treeVars, TypeOK, TreeTypeOK, Running
<1>6. QED
  BY <1>1, <1>2, <1>3, <1>4, <1>5 DEF Next

\* Every state the cache reaches is well typed, and a call has its locals set
\* wherever brotli_cache.rs uses them.
THEOREM TypeCorrect == Spec => []TypeOK
  BY InitType, NextType, PTL DEF Spec

-----------------------------------------------------------------------------
(* Freshness *)

LEMMA InitIInv == Init => IInv
<1> SUFFICES ASSUME Init PROVE IInv
  OBVIOUS
<1>1. NewestInv /\ EntryInv
  BY FileInfoType
  DEF Init, TreeInit, NewestInv, EntryInv, Contents, Versions, Absent
<1>2. SeenInv /\ InfoInv /\ SourceInv /\ FreshContent /\ ErrorsAreHonest
  BY DEF Init, SeenInv, InfoInv, SourceInv, FreshContent, ErrorsAreHonest, Running
<1>3. QED
  BY <1>1, <1>2, InitType DEF IInv

\* A return keeps the invariant if its result is fresh and honest and the new
\* cache has no entry older than its key.
LEMMA FinishInv ==
    ASSUME IInv, TypeOK', EntryInv', NEW c \in Calls, NEW r \in Results,
           Finish(c, r),
           r.status = "ok" /\ path[c] \notin rolledBack => r.content \in seen[c],
           r.status = "not_found" => Absent \in seen[c] /\ path[c] \notin Dirs,
           r.status = "is_directory" => path[c] \in Dirs
    PROVE  IInv'
<1> USE DEF Finish, treeVars
<1>1. NewestInv'
  BY DEF IInv, NewestInv
<1>2. SeenInv'
  BY DEF IInv, SeenInv, Running, TypeOK
<1>3. InfoInv'
  BY DEF IInv, InfoInv, TypeOK
<1>4. SourceInv'
  BY DEF IInv, SourceInv, TypeOK
<1>5. FreshContent'
  BY DEF IInv, FreshContent, TypeOK
<1>6. ErrorsAreHonest'
  BY DEF IInv, ErrorsAreHonest, TypeOK
<1>7. QED
  BY <1>1, <1>2, <1>3, <1>4, <1>5, <1>6 DEF IInv

\* While a call runs, its path explains the status of an open.
LEMMA OpenHonest ==
    ASSUME IInv, NEW c \in Calls, Running(c)
    PROVE  /\ path[c] \in Paths
           /\ OpenStatus(path[c]) = "ok" =>
                tree[path[c]] \in Versions /\ tree[path[c]] \in seen[c]
           /\ OpenStatus(path[c]) = "not_found" =>
                Absent \in seen[c] /\ path[c] \notin Dirs
           /\ OpenStatus(path[c]) = "is_directory" => path[c] \in Dirs
<1>1. path[c] \in Paths /\ tree[path[c]] \in seen[c]
  BY DEF IInv, SeenInv
<1>2. tree[path[c]] \in Contents
  BY <1>1 DEF IInv, TypeOK, TreeTypeOK
<1>3. QED
  BY <1>1, <1>2, TreeAssumption DEF OpenStatus, Contents, Versions, Absent

LEMMA ErrorHonest ==
    ASSUME IInv, NEW c \in Calls, Running(c), NEW e \in OpenErrors(path[c])
    PROVE  /\ Err(e) \in Results /\ Err(e).status # "ok"
           /\ Err(e).status = "not_found" => Absent \in seen[c] /\ path[c] \notin Dirs
           /\ Err(e).status = "is_directory" => path[c] \in Dirs
<1>1. e \in {"not_found", "is_directory", "io_error"} /\ Err(e).status = e
  BY OpenErrorsType DEF Err
<1>2. e \in {"not_found", "is_directory"} => e = OpenStatus(path[c])
  BY DEF OpenErrors
<1>3. QED
  BY <1>1, <1>2, OpenHonest, ResultsType

LEMMA StepInv ==
    ASSUME IInv, NEW c \in Calls, Step(c)
    PROVE  IInv'
<1> USE ResultsType
<1>T. TypeOK /\ TypeOK'
  BY StepType DEF IInv
<1>E. ASSUME cache' = cache, UNCHANGED <<treeVars, rolledBack>> PROVE EntryInv'
  BY <1>E DEF IInv, EntryInv, treeVars
<1>1. CASE Stat(c)
  <2> USE <1>1, <1>T DEF Stat, Goto, treeVars
  <2>1. Running(c)
    BY DEF Running
  <2>2. tree[path[c]] \in Versions /\ tree[path[c]] \in seen[c]
    BY <2>1, OpenHonest
  <2>3. NewestInv' /\ SeenInv'
    BY DEF IInv, NewestInv, SeenInv, Running, TypeOK
  <2>4. InfoInv'
    BY <2>2 DEF IInv, InfoInv, TypeOK
  <2>5. SourceInv' /\ FreshContent' /\ ErrorsAreHonest'
    BY DEF IInv, SourceInv, FreshContent, ErrorsAreHonest, TypeOK
  <2>6. QED
    BY <1>E, <2>3, <2>4, <2>5 DEF IInv
<1>2. CASE StatFails(c)
  <2>1. Running(c)
    BY <1>2 DEF StatFails, Running
  <2>2. PICK e \in OpenErrors(path[c]) : Finish(c, Err(e))
    BY <1>2 DEF StatFails
  <2>3. EntryInv'
    BY <1>2, <1>E DEF StatFails, Finish
  <2>4. QED
    BY <1>T, <2>1, <2>2, <2>3, ErrorHonest, FinishInv
<1>3. CASE Hit(c)
  <2> DEFINE w == cache[info[c]]
  <2>1. PICK v \in Versions : info[c] = FileInfo(path[c], v) /\ v \in seen[c]
    BY <1>3 DEF Hit, IInv, InfoInv
  <2>2. path[c] \in Paths /\ w \in Contents /\ w # Absent
    BY <1>3, <1>T DEF Hit, TypeOK, Running
  <2>3. path[c] \notin rolledBack => v <= w /\ w <= released[path[c]]
    BY <2>1, <2>2 DEF IInv, EntryInv
  <2>4. path[c] \notin rolledBack => w \in seen[c]
    BY <1>3, <2>1, <2>2, <2>3
    DEF Hit, IInv, SeenInv, Running, Contents, Versions, Absent
  <2>5. Ok("br", w).status = "ok" /\ Ok("br", w).content = w
    BY DEF Ok
  <2>6. EntryInv'
    BY <1>3, <1>E DEF Hit, Finish
  <2>7. QED
    BY <1>3, <1>T, <2>2, <2>4, <2>5, <2>6, FinishInv DEF Hit
<1>4. CASE Miss(c)
  <2> USE <1>4, <1>T DEF Miss, Goto, treeVars
  <2>1. NewestInv' /\ SeenInv'
    BY DEF IInv, NewestInv, SeenInv, Running, TypeOK
  <2>2. InfoInv'
    BY DEF IInv, InfoInv, TypeOK
  <2>3. SourceInv' /\ FreshContent' /\ ErrorsAreHonest'
    BY DEF IInv, SourceInv, FreshContent, ErrorsAreHonest, TypeOK
  <2>4. QED
    BY <1>E, <2>1, <2>2, <2>3 DEF IInv
<1>5. CASE OpenSource(c)
  <2> USE <1>5, <1>T DEF OpenSource, Goto, treeVars
  <2>1. path[c] \in Paths /\ tree[path[c]] \in Versions /\ tree[path[c]] \in seen[c]
    BY OpenHonest DEF Running
  <2>2. PICK v \in Versions : info[c] = FileInfo(path[c], v) /\ v \in seen[c]
    BY DEF IInv, InfoInv
  <2>3. path[c] \notin rolledBack => v <= tree[path[c]]
    <3>1. path[c] \notin rolledBack => v <= released[path[c]]
      BY <2>2 DEF IInv, SeenInv, Running
    <3>2. path[c] \notin rolledBack => tree[path[c]] = released[path[c]]
      BY <2>1 DEF IInv, NewestInv, Versions, Absent
    <3>3. QED
      BY <3>1, <3>2
  <2>4. ASSUME NEW u \in Versions, info[c] = FileInfo(path[c], u) PROVE u = v
    BY <2>2, <2>4, InfoAssumption DEF FileInfo
  <2>5. NewestInv' /\ SeenInv'
    BY DEF IInv, NewestInv, SeenInv, Running, TypeOK
  <2>6. InfoInv'
    BY DEF IInv, InfoInv, TypeOK
  <2>7. SourceInv'
    BY <2>1, <2>3, <2>4 DEF IInv, SourceInv, TypeOK
  <2>8. FreshContent' /\ ErrorsAreHonest'
    BY DEF IInv, FreshContent, ErrorsAreHonest, TypeOK
  <2>9. QED
    BY <1>E, <2>5, <2>6, <2>7, <2>8 DEF IInv
<1>6. CASE SourceGone(c)
  <2>1. EntryInv'
    BY <1>6, <1>E DEF SourceGone, Finish
  <2>2. QED
    BY <1>6, <1>T, <2>1, FinishInv DEF SourceGone, Err
<1>7. CASE CompressFails(c)
  <2>1. EntryInv'
    BY <1>7, <1>E DEF CompressFails, Finish
  <2>2. QED
    BY <1>7, <1>T, <2>1, FinishInv DEF CompressFails, Err
<1>8. CASE MetadataFails(c)
  <2>1. EntryInv'
    BY <1>8, <1>E DEF MetadataFails, Finish
  <2>2. QED
    BY <1>8, <1>T, <2>1, FinishInv DEF MetadataFails, Err
<1>9. CASE Insert(c)
  <2>1. path[c] \in Paths /\ src[c] \in Versions /\ src[c] \in seen[c]
    BY <1>9, <1>T DEF Insert, IInv, SourceInv, TypeOK, Running
  <2>2. ASSUME NEW p \in Paths, p \notin rolledBack, NEW v \in Versions,
               info[c] = FileInfo(p, v)
        PROVE  v <= src[c] /\ src[c] <= released[p]
    <3>1. p = path[c]
      <4>1. PICK u \in Versions : info[c] = FileInfo(path[c], u)
        BY <1>9 DEF Insert, IInv, InfoInv
      <4>2. QED
        BY <2>2, <4>1, FileInfoInjective
    <3>2. QED
      BY <1>9, <2>1, <2>2, <3>1 DEF Insert, IInv, SourceInv, SeenInv, Running
  <2>3. EntryInv'
    <3>1. SUFFICES ASSUME NEW p \in Paths, p \notin rolledBack, NEW v \in Versions,
                          cache'[FileInfo(p, v)] # Absent
                   PROVE  /\ v <= cache'[FileInfo(p, v)]
                          /\ cache'[FileInfo(p, v)] <= released[p]
      BY <1>9 DEF EntryInv, Insert, Finish, treeVars
    <3>2. FileInfo(p, v) \in FileInfos
      BY FileInfoType
    <3>3. cache'[FileInfo(p, v)] =
            IF FileInfo(p, v) = info[c] THEN src[c] ELSE cache[FileInfo(p, v)]
      BY <1>9, <3>1, <3>2 DEF Insert
    <3>4. CASE FileInfo(p, v) = info[c]
      BY <2>2, <3>1, <3>3, <3>4
    <3>5. CASE FileInfo(p, v) # info[c]
      BY <3>1, <3>3, <3>5 DEF IInv, EntryInv
    <3>6. QED
      BY <3>4, <3>5
  <2>4. src[c] \in Contents
    BY <1>T DEF TypeOK
  <2>5. QED
    BY <1>9, <1>T, <2>1, <2>3, <2>4, FinishInv DEF Insert, Ok
<1>10. CASE DiskFull(c)
  <2> USE <1>10, <1>T DEF DiskFull, treeVars
  <2>1. NewestInv' /\ SeenInv'
    BY DEF IInv, NewestInv, SeenInv, Running, TypeOK
  <2>2. InfoInv' /\ SourceInv' /\ FreshContent' /\ ErrorsAreHonest'
    BY DEF IInv, InfoInv, SourceInv, FreshContent, ErrorsAreHonest, TypeOK
  <2>3. QED
    BY <1>E, <2>1, <2>2 DEF IInv
<1>11. CASE Snapshot(c)
  <2> USE <1>11, <1>T DEF Snapshot, Goto, treeVars
  <2>1. NewestInv' /\ SeenInv'
    BY DEF IInv, NewestInv, SeenInv, Running, TypeOK
  <2>2. InfoInv' /\ SourceInv' /\ FreshContent' /\ ErrorsAreHonest'
    BY DEF IInv, InfoInv, SourceInv, FreshContent, ErrorsAreHonest, TypeOK
  <2>3. QED
    BY <1>E, <2>1, <2>2 DEF IInv
<1>12. CASE Retain(c)
  <2> USE <1>12, <1>T DEF Retain, Goto, treeVars
  <2>1. NewestInv' /\ SeenInv'
    BY DEF IInv, NewestInv, SeenInv, Running, TypeOK
  <2>2. InfoInv' /\ SourceInv' /\ FreshContent' /\ ErrorsAreHonest'
    BY DEF IInv, InfoInv, SourceInv, FreshContent, ErrorsAreHonest, TypeOK
  <2>3. EntryInv'
    BY FileInfoType DEF IInv, EntryInv
  <2>4. QED
    BY <2>1, <2>2, <2>3 DEF IInv
<1>13. CASE Wrap(c)
  <2>1. Running(c)
    BY <1>13 DEF Wrap, Running
  <2>2. EntryInv'
    BY <1>13, <1>E DEF Wrap, Finish
  <2>3. CASE OpenStatus(path[c]) = "ok" /\ Finish(c, Ok("identity", tree[path[c]]))
    <3>1. tree[path[c]] \in Versions /\ tree[path[c]] \in seen[c]
      BY <2>1, <2>3, OpenHonest
    <3>2. tree[path[c]] \in Contents
      BY <3>1 DEF Contents, Versions
    <3>3. QED
      BY <1>T, <2>2, <2>3, <3>1, <3>2, FinishInv DEF Ok
  <2>4. ASSUME NEW e \in OpenErrors(path[c]), Finish(c, Err(e)) PROVE IInv'
    BY <1>T, <2>1, <2>2, <2>4, ErrorHonest, FinishInv
  <2>5. QED
    BY <1>13, <2>3, <2>4 DEF Wrap
<1> QED
  BY <1>1, <1>2, <1>3, <1>4, <1>5, <1>6, <1>7, <1>8, <1>9, <1>10, <1>11, <1>12,
     <1>13 DEF Step

\* A release, a removal or a rollback keeps the invariant: the versions of a
\* path that was not rolled back only grow.
LEMMA DeployInv ==
    ASSUME IInv, NEW p \in Paths, Deploy(p)
    PROVE  IInv'
<1>1. TypeOK /\ TypeOK'
  BY DeployType DEF IInv
<1>2. tree \in [Paths -> Contents] /\ released \in [Paths -> Contents]
  BY <1>1 DEF TypeOK, TreeTypeOK
<1>3. /\ rolledBack \subseteq rolledBack'
      /\ \A q \in Paths : released'[q] \in Contents /\ released[q] <= released'[q]
      /\ \A q \in Paths \ {p} : tree'[q] = tree[q] /\ released'[q] = released[q]
      /\ p \notin rolledBack' =>
           \/ tree'[p] = Absent /\ released'[p] = released[p]
           \/ tree'[p] = released[p] + 1 /\ released'[p] = released[p] + 1
  <2>1. CASE Release(p) /\ UNCHANGED rolledBack
    BY <1>2, <2>1, TreeAssumption DEF Release, Contents
  <2>2. CASE Remove(p) /\ UNCHANGED rolledBack
    BY <1>2, <2>2, TreeAssumption DEF Remove, Contents, Absent
  <2>3. CASE Rollback(p) /\ rolledBack' = rolledBack \cup {p}
    BY <1>2, <2>3, TreeAssumption DEF Rollback, Contents
  <2>4. QED
    BY <2>1, <2>2, <2>3 DEF Deploy
<1>4. /\ UNCHANGED <<cache, pc, path, info, src, keep, result>>
      /\ \A c \in Calls : seen'[c] =
           IF Running(c) /\ path[c] = p THEN seen[c] \cup {tree'[p]} ELSE seen[c]
  BY DEF Deploy
<1>5. NewestInv'
  BY <1>2, <1>3 DEF IInv, NewestInv
<1>6. EntryInv'
  <2>1. SUFFICES ASSUME NEW q \in Paths, q \notin rolledBack', NEW v \in Versions,
                        cache[FileInfo(q, v)] # Absent
                 PROVE  /\ v <= cache[FileInfo(q, v)]
                        /\ cache[FileInfo(q, v)] <= released'[q]
    BY <1>4 DEF EntryInv
  <2>2. cache[FileInfo(q, v)] \in Contents /\ released[q] \in Contents
    BY <1>1, <1>2, FileInfoType DEF TypeOK
  <2>3. QED
    BY <1>3, <2>1, <2>2 DEF IInv, EntryInv, Contents, Versions
<1>7. SeenInv'
  <2>1. SUFFICES ASSUME NEW c \in Calls, Running(c)
                 PROVE  /\ path[c] \in Paths
                        /\ tree'[path[c]] \in seen'[c]
                        /\ path[c] \notin rolledBack' =>
                             /\ \A u \in seen'[c] : u <= released'[path[c]]
                             /\ \A u \in seen'[c] \ {Absent}, w \in Versions :
                                  u <= w /\ w <= released'[path[c]] => w \in seen'[c]
    BY <1>4 DEF SeenInv, Running
  <2>2. /\ path[c] \in Paths
        /\ seen[c] \subseteq Contents
        /\ released[path[c]] \in Contents
    BY <1>1, <1>2, <2>1 DEF TypeOK
  <2>3. CASE path[c] # p
    BY <1>3, <1>4, <2>1, <2>2, <2>3 DEF IInv, SeenInv
  <2>4. CASE path[c] = p
    <3>1. tree'[p] \in seen'[c] /\ seen'[c] = seen[c] \cup {tree'[p]}
      BY <1>4, <2>1, <2>4
    <3>2. ASSUME p \notin rolledBack'
          PROVE  /\ \A u \in seen'[c] : u <= released'[p]
                 /\ \A u \in seen'[c] \ {Absent}, w \in Versions :
                      u <= w /\ w <= released'[p] => w \in seen'[c]
      <4>1. /\ \A u \in seen[c] : u <= released[p]
            /\ \A u \in seen[c] \ {Absent}, w \in Versions :
                 u <= w /\ w <= released[p] => w \in seen[c]
        BY <1>3, <2>1, <2>4, <3>2 DEF IInv, SeenInv
      <4>2. CASE tree'[p] = Absent /\ released'[p] = released[p]
        BY <2>2, <2>4, <3>1, <4>1, <4>2 DEF Contents, Absent
      <4>3. CASE tree'[p] = released[p] + 1 /\ released'[p] = released[p] + 1
        BY <2>2, <2>4, <3>1, <4>1, <4>3 DEF Contents, Versions, Absent
      <4>4. QED
        BY <1>3, <3>2, <4>2, <4>3
    <3>3. QED
      BY <2>2, <2>4, <3>1, <3>2
  <2>5. QED
    BY <2>3, <2>4
<1>8. InfoInv'
  BY <1>4 DEF IInv, InfoInv
<1>9. SourceInv'
  BY <1>3, <1>4 DEF IInv, SourceInv
<1>10. FreshContent'
  BY <1>3, <1>4 DEF IInv, FreshContent, Running
<1>11. ErrorsAreHonest'
  BY <1>4 DEF IInv, ErrorsAreHonest, Running
<1>12. QED
  BY <1>1, <1>5, <1>6, <1>7, <1>8, <1>9, <1>10, <1>11 DEF IInv

LEMMA CallInv ==
    ASSUME IInv, NEW c \in Calls, NEW p \in Paths, Call(c, p), TypeOK'
    PROVE  IInv'
<1> USE DEF Call, Goto, treeVars
<1>1. tree[p] \in Contents /\ released[p] \in Contents
  BY DEF IInv, TypeOK, TreeTypeOK
<1>2. p \notin rolledBack => tree[p] \in {Absent, released[p]}
  BY DEF IInv, NewestInv
<1>3. SeenInv'
  BY <1>1, <1>2 DEF IInv, SeenInv, Running, TypeOK, Contents, Versions, Absent
<1>4. NewestInv' /\ EntryInv'
  BY DEF IInv, NewestInv, EntryInv
<1>5. InfoInv' /\ SourceInv' /\ FreshContent' /\ ErrorsAreHonest'
  BY DEF IInv, InfoInv, SourceInv, FreshContent, ErrorsAreHonest, TypeOK
<1>6. QED
  BY <1>3, <1>4, <1>5 DEF IInv

LEMMA NextIInv == IInv /\ [Next]_vars => IInv'
<1> SUFFICES ASSUME IInv, [Next]_vars PROVE IInv'
  OBVIOUS
<1>T. TypeOK /\ TypeOK'
  BY NextType DEF IInv
<1>1. ASSUME NEW c \in Calls, NEW p \in Paths, Call(c, p) PROVE IInv'
  BY <1>T, <1>1, CallInv
<1>2. ASSUME NEW c \in Calls, Step(c) PROVE IInv'
  BY <1>2, StepInv
<1>3. ASSUME NEW c \in Calls, Return(c) PROVE IInv'
  <2> USE <1>3, <1>T DEF Return, Goto, treeVars
  <2>1. NewestInv' /\ EntryInv'
    BY DEF IInv, NewestInv, EntryInv
  <2>2. SeenInv'
    BY DEF IInv, SeenInv, Running, TypeOK
  <2>3. InfoInv' /\ SourceInv' /\ FreshContent' /\ ErrorsAreHonest'
    BY DEF IInv, InfoInv, SourceInv, FreshContent, ErrorsAreHonest, TypeOK
  <2>4. QED
    BY <2>1, <2>2, <2>3 DEF IInv
<1>4. ASSUME NEW p \in Paths, Deploy(p) PROVE IInv'
  BY <1>4, DeployInv
<1>5. CASE UNCHANGED vars
  <2> USE <1>5 DEF vars, callVars, treeVars
  <2>1. NewestInv' /\ EntryInv' /\ SeenInv'
    BY DEF IInv, NewestInv, EntryInv, SeenInv, Running
  <2>2. InfoInv' /\ SourceInv' /\ FreshContent' /\ ErrorsAreHonest'
    BY DEF IInv, InfoInv, SourceInv, FreshContent, ErrorsAreHonest
  <2>3. QED
    BY <1>T, <2>1, <2>2 DEF IInv
<1>6. QED
  BY <1>1, <1>2, <1>3, <1>4, <1>5 DEF Next

\* The inductive invariant the two theorems below follow from.
THEOREM Invariance == Spec => []IInv
  BY InitIInv, NextIInv, PTL DEF Spec

\* Whatever the interleaving of calls, evictions, pruning and deployments, get
\* returns bytes its path held during the call, on paths never rolled back.
THEOREM Freshness == Spec => []FreshContent
<1>1. IInv => FreshContent
  BY DEF IInv
<1>2. QED
  BY <1>1, Invariance, PTL

\* NotFound and IsDirectory are never reported of a file that was there all the
\* time.
THEOREM Honesty == Spec => []ErrorsAreHonest
<1>1. IInv => ErrorsAreHonest
  BY DEF IInv
<1>2. QED
  BY <1>1, Invariance, PTL

-----------------------------------------------------------------------------
(* The size limit *)

WithinLimit(c) == \E v \in seen[c] : v # Absent /\ LenOf[v] <= MaxFileSize

\* A call goes on to the cache only after its path held a file within the limit.
SizedInv == \A c \in Calls : pc[c] \in {"lookup", "compress", "copy"} => WithinLimit(c)

LimitInv == IInv /\ SizedInv /\ SizeLimitHolds

\* A return keeps LimitInv if its bytes are compressed only within the limit.
LEMMA FinishLimit ==
    ASSUME TypeOK, SizedInv, SizeLimitHolds, NEW c \in Calls, NEW r, Finish(c, r),
           r.encoding = "br" => WithinLimit(c)
    PROVE  SizedInv' /\ SizeLimitHolds'
<1> USE DEF Finish, TypeOK, WithinLimit
<1>1. SizedInv'
  BY DEF SizedInv
<1>2. SizeLimitHolds'
  BY DEF SizeLimitHolds
<1>3. QED
  BY <1>1, <1>2

LEMMA StepLimit ==
    ASSUME IInv, SizedInv, SizeLimitHolds, NEW c \in Calls, Step(c)
    PROVE  SizedInv' /\ SizeLimitHolds'
<1>T. TypeOK
  BY DEF IInv
<1>1. CASE Stat(c)
  <2> DEFINE v == tree[path[c]]
  <2>1. v \in Versions /\ v \in seen[c]
    BY <1>1, OpenHonest DEF Stat, Running
  <2>2. FileInfo(path[c], v).len = LenOf[v]
    BY DEF FileInfo
  <2>3. LenOf[v] \in Nat /\ MaxFileSize \in Nat /\ v # Absent
    BY <2>1, TreeAssumption, CacheAssumption DEF Versions, Absent
  <2>4. pc'[c] = "lookup" => WithinLimit(c)
    BY <1>1, <1>T, <2>1, <2>2, <2>3 DEF Stat, Goto, TypeOK, WithinLimit
  <2>5. pc'[c] \in {"wrap", "lookup"} /\ \A d \in Calls \ {c} : pc'[d] = pc[d]
    BY <1>1, <1>T DEF Stat, Goto, TypeOK
  <2>6. UNCHANGED <<seen, result>>
    BY <1>1 DEF Stat
  <2>7. QED
    BY <2>4, <2>5, <2>6 DEF SizedInv, SizeLimitHolds, WithinLimit
<1>2. ASSUME pc[c] \in {"lookup", "compress", "copy"} PROVE WithinLimit(c)
  BY <1>2 DEF SizedInv
<1>3. CASE Hit(c)
  BY <1>T, <1>2, <1>3, FinishLimit DEF Hit
<1>4. CASE Insert(c)
  BY <1>T, <1>2, <1>4, FinishLimit DEF Insert
<1>5. CASE StatFails(c) \/ SourceGone(c) \/ CompressFails(c) \/ MetadataFails(c)
  <2>1. PICK s : Finish(c, Err(s))
    BY <1>5 DEF StatFails, SourceGone, CompressFails, MetadataFails
  <2>2. Err(s).encoding # "br"
    BY DEF Err
  <2>3. QED
    BY <1>T, <2>1, <2>2, FinishLimit
<1>6. CASE Wrap(c)
  <2>1. /\ \A v : Ok("identity", v).encoding # "br"
        /\ \A s : Err(s).encoding # "br"
    BY DEF Ok, Err
  <2>2. CASE Finish(c, Ok("identity", tree[path[c]]))
    BY <1>T, <2>1, <2>2, FinishLimit
  <2>3. ASSUME NEW e, Finish(c, Err(e)) PROVE SizedInv' /\ SizeLimitHolds'
    BY <1>T, <2>1, <2>3, FinishLimit
  <2>4. QED
    BY <1>6, <2>2, <2>3 DEF Wrap
<1>7. CASE Miss(c) \/ OpenSource(c)
  BY <1>T, <1>2, <1>7
  DEF Miss, OpenSource, Goto, TypeOK, SizedInv, SizeLimitHolds, WithinLimit
<1>8. CASE DiskFull(c) \/ Snapshot(c) \/ Retain(c)
  BY <1>T, <1>8
  DEF DiskFull, Snapshot, Retain, Goto, TypeOK, SizedInv, SizeLimitHolds, WithinLimit
<1>9. QED
  BY <1>1, <1>3, <1>4, <1>5, <1>6, <1>7, <1>8 DEF Step

LEMMA NextLimit == LimitInv /\ [Next]_vars => LimitInv'
<1> SUFFICES ASSUME LimitInv, [Next]_vars PROVE SizedInv' /\ SizeLimitHolds'
  BY NextIInv DEF LimitInv
<1>T. TypeOK
  BY DEF LimitInv, IInv
<1> USE DEF LimitInv, SizedInv, SizeLimitHolds, WithinLimit
<1>1. ASSUME NEW c \in Calls, NEW p \in Paths, Call(c, p)
      PROVE  SizedInv' /\ SizeLimitHolds'
  BY <1>T, <1>1 DEF Call, Goto, TypeOK
<1>2. ASSUME NEW c \in Calls, Step(c) PROVE SizedInv' /\ SizeLimitHolds'
  BY <1>2, StepLimit
<1>3. ASSUME NEW c \in Calls, Return(c) PROVE SizedInv' /\ SizeLimitHolds'
  BY <1>T, <1>3 DEF Return, Goto, TypeOK
<1>4. ASSUME NEW p \in Paths, Deploy(p) PROVE SizedInv' /\ SizeLimitHolds'
  <2>1. \A c \in Calls : seen[c] \subseteq seen'[c]
    BY <1>4 DEF Deploy
  <2>2. UNCHANGED <<pc, result>>
    BY <1>4 DEF Deploy
  <2>3. QED
    BY <2>1, <2>2
<1>5. CASE UNCHANGED vars
  BY <1>5 DEF vars, callVars
<1>6. QED
  BY <1>1, <1>2, <1>3, <1>4, <1>5 DEF Next

\* max_file_size holds for what is served, not only for what is compressed: bytes
\* come out of the cache only for calls whose path held a file within the limit.
THEOREM SizeLimit == Spec => []SizeLimitHolds
<1>1. Init => LimitInv
  BY InitIInv DEF Init, LimitInv, SizedInv, SizeLimitHolds
<1>2. LimitInv => SizeLimitHolds
  BY DEF LimitInv
<1>3. QED
  BY <1>1, <1>2, NextLimit, PTL DEF Spec

-----------------------------------------------------------------------------
(* The contract.  The status of a call hides where in get it is; every return *)
(* of it is a Reply, and every other step of get is none of the contract's.   *)

\* Only paths with a supported extension get past the first test of get.
SupportedInv ==
    \A c \in Calls : pc[c] \in {"stat", "lookup", "compress", "copy"} => path[c] \in Supported

\* No bytes are newer than the newest version of their path, rolled back or not.
HeldInv ==
    /\ \A p \in Paths : tree[p] <= released[p]
    /\ \A p \in Paths, v \in Versions : cache[FileInfo(p, v)] <= released[p]
    /\ \A c \in Calls : pc[c] = "copy" => src[c] <= released[path[c]]

ContractInv == LimitInv /\ SupportedInv /\ HeldInv

LEMMA InitContract == Init => ContractInv
<1> SUFFICES ASSUME Init PROVE ContractInv
  OBVIOUS
<1>1. LimitInv
  BY InitIInv DEF Init, LimitInv, SizedInv, SizeLimitHolds
<1>2. SupportedInv
  BY DEF Init, SupportedInv
<1>3. tree \in [Paths -> Contents] /\ released = tree
  BY DEF Init, TreeInit, Contents
<1>4. HeldInv
  BY <1>3, FileInfoType, TreeAssumption DEF Init, HeldInv, Contents, Absent
<1> QED BY <1>1, <1>2, <1>4 DEF ContractInv

\* A step that changes neither the tree nor a source keeps HeldInv, if what it puts
\* into the cache is not too new.
LEMMA HeldStays ==
    ASSUME TypeOK, HeldInv, UNCHANGED treeVars,
           \A p \in Paths, v \in Versions :
             cache'[FileInfo(p, v)] \in {Absent, cache[FileInfo(p, v)]}
               \/ cache'[FileInfo(p, v)] <= released[p],
           \A c \in Calls : pc'[c] = "copy" => src'[c] <= released'[path'[c]]
    PROVE  HeldInv'
<1>1. \A p \in Paths : released[p] \in Nat
  BY TreeAssumption DEF TypeOK, TreeTypeOK, Contents
<1> QED BY <1>1 DEF HeldInv, treeVars, Absent

LEMMA StepContract ==
    ASSUME ContractInv, NEW c \in Calls, Step(c)
    PROVE  SupportedInv' /\ HeldInv'
<1>T. TypeOK
  BY DEF ContractInv, LimitInv, IInv
<1> DEFINE CacheKept == \A p \in Paths, v \in Versions : cache'[FileInfo(p, v)] \in {Absent, cache[FileInfo(p, v)]}
<1>1. ASSUME NEW r, Finish(c, r) PROVE SupportedInv' /\ \A d \in Calls : pc'[d] = "copy" => pc[d] = "copy" /\ src'[d] = src[d] /\ path'[d] = path[d]
  BY <1>1, <1>T DEF Finish, TypeOK, SupportedInv, ContractInv
<1>2. ASSUME NEW r, Finish(c, r), CacheKept PROVE SupportedInv' /\ HeldInv'
  <2>1. UNCHANGED treeVars
    BY <1>2 DEF Finish
  <2>2. \A d \in Calls : pc'[d] = "copy" => src'[d] <= released'[path'[d]]
    BY <1>1, <1>2, <2>1 DEF ContractInv, HeldInv, treeVars
  <2>3. HeldInv'
    BY <1>2, <1>T, <2>1, <2>2, HeldStays DEF ContractInv
  <2> QED BY <1>1, <1>2, <2>3
<1>3. CASE StatFails(c) \/ Hit(c) \/ SourceGone(c) \/ CompressFails(c) \/ MetadataFails(c) \/ Wrap(c)
  <2>1. \E r : Finish(c, r)
    BY <1>3 DEF StatFails, Hit, SourceGone, CompressFails, MetadataFails, Wrap
  <2>2. CacheKept
    BY <1>3 DEF StatFails, Hit, SourceGone, CompressFails, MetadataFails, Wrap
  <2> QED BY <1>2, <2>1, <2>2
<1>4. CASE Insert(c)
  <2>1. Finish(c, Ok("br", src[c])) /\ UNCHANGED treeVars
    BY <1>4 DEF Insert, Finish
  <2>2. PICK u \in Versions : info[c] = FileInfo(path[c], u)
    BY <1>4 DEF Insert, ContractInv, LimitInv, IInv, InfoInv
  <2>3. \A p \in Paths, v \in Versions :
          \/ cache'[FileInfo(p, v)] \in {Absent, cache[FileInfo(p, v)]}
          \/ cache'[FileInfo(p, v)] <= released[p]
    <3> TAKE p \in Paths, v \in Versions
    <3>1. FileInfo(p, v) \in FileInfos
      BY FileInfoType
    <3>2. cache'[FileInfo(p, v)] \in {Absent, cache[FileInfo(p, v)]}
            \/ (FileInfo(p, v) = info[c] /\ cache'[FileInfo(p, v)] = src[c])
      BY <1>4, <3>1 DEF Insert
    <3>3. FileInfo(p, v) = info[c] => p = path[c]
      BY <2>2, FileInfoInjective
    <3> QED BY <1>4, <3>2, <3>3 DEF Insert, ContractInv, HeldInv
  <2>4. \A d \in Calls : pc'[d] = "copy" => src'[d] <= released'[path'[d]]
    BY <1>1, <2>1 DEF ContractInv, HeldInv, treeVars
  <2>5. HeldInv'
    BY <1>T, <2>1, <2>3, <2>4, HeldStays DEF ContractInv
  <2> QED BY <1>1, <2>1, <2>5
<1>5. CASE Stat(c) \/ Miss(c) \/ Snapshot(c)
  <2>1. /\ UNCHANGED <<treeVars, cache, path, src>>
        /\ \E to \in {"wrap", "lookup", "compress", "retain"} : pc' = [pc EXCEPT ![c] = to]
        /\ pc[c] = "snapshot" => pc' = [pc EXCEPT ![c] = "retain"]
    BY <1>5 DEF Stat, Miss, Snapshot, Goto
  <2>2. SupportedInv'
    BY <1>5, <1>T, <2>1 DEF ContractInv, SupportedInv, TypeOK, Stat, Miss, Snapshot, Goto
  <2>3. HeldInv'
    BY <1>T, <2>1 DEF ContractInv, HeldInv, TypeOK, treeVars
  <2> QED BY <2>2, <2>3
<1>6. CASE OpenSource(c)
  <2>1. path[c] \in Paths
    BY <1>6, <1>T DEF OpenSource, Goto, TypeOK, Running
  <2>2. SupportedInv'
    BY <1>6, <1>T DEF OpenSource, Goto, ContractInv, SupportedInv, TypeOK
  <2>3. HeldInv'
    BY <1>6, <1>T, <2>1 DEF OpenSource, Goto, ContractInv, HeldInv, TypeOK, treeVars
  <2> QED BY <2>2, <2>3
<1>7. CASE DiskFull(c)
  BY <1>7, <1>T DEF DiskFull, ContractInv, SupportedInv, HeldInv, TypeOK, treeVars
<1>8. CASE Retain(c)
  <2>1. CacheKept /\ UNCHANGED treeVars
    BY <1>8, FileInfoType DEF Retain
  <2>2. SupportedInv' /\ \A d \in Calls : pc'[d] = "copy" => src'[d] <= released'[path'[d]]
    BY <1>8, <1>T DEF Retain, Goto, ContractInv, SupportedInv, HeldInv, TypeOK, treeVars
  <2>3. HeldInv'
    BY <1>T, <2>1, <2>2, HeldStays DEF ContractInv
  <2> QED BY <2>2, <2>3
<1> QED
  BY <1>3, <1>4, <1>5, <1>6, <1>7, <1>8 DEF Step

LEMMA DeployContract ==
    ASSUME ContractInv, NEW p \in Paths, Deploy(p)
    PROVE  SupportedInv' /\ HeldInv'
<1>T. TypeOK
  BY DEF ContractInv, LimitInv, IInv
<1>1. /\ tree \in [Paths -> Nat] /\ released \in [Paths -> Nat]
      /\ \A q \in Paths : tree[q] <= released[q]
  BY <1>T, TreeAssumption DEF TypeOK, TreeTypeOK, Contents, ContractInv, HeldInv
<1>2. /\ released' \in [Paths -> Nat]
      /\ \A q \in Paths : released[q] <= released'[q] /\ tree'[q] <= released'[q]
  <2>1. CASE Release(p)
    BY <1>1, <2>1 DEF Release
  <2>2. CASE Remove(p)
    BY <1>1, <2>2 DEF Remove, Absent
  <2>3. CASE Rollback(p)
    <3>1. PICK v \in 1 .. released[p] : tree' = [tree EXCEPT ![p] = v] /\ UNCHANGED released
      BY <2>3 DEF Rollback
    <3>2. v \in Nat /\ v <= released[p]
      BY <1>1, <3>1
    <3> QED BY <1>1, <3>1, <3>2
  <2> QED BY <2>1, <2>2, <2>3 DEF Deploy
<1>3. UNCHANGED <<cache, pc, path, src>>
  BY DEF Deploy
<1>4. \A q \in Paths, v \in Versions : cache'[FileInfo(q, v)] <= released'[q]
  <2> TAKE q \in Paths, v \in Versions
  <2>1. cache[FileInfo(q, v)] \in Nat
    BY <1>T, FileInfoType, TreeAssumption DEF TypeOK, Contents
  <2>2. cache[FileInfo(q, v)] <= released[q]
    BY DEF ContractInv, HeldInv
  <2>3. released[q] \in Nat /\ released'[q] \in Nat /\ released[q] <= released'[q]
    BY <1>1, <1>2
  <2> QED BY <1>3, <2>1, <2>2, <2>3
<1>5. \A c \in Calls : pc'[c] = "copy" => src'[c] <= released'[path'[c]]
  <2> SUFFICES ASSUME NEW c \in Calls, pc[c] = "copy" PROVE src[c] <= released'[path[c]]
    BY <1>3
  <2>1. path[c] \in Paths /\ src[c] \in Nat
    BY <1>T, TreeAssumption DEF TypeOK, Running, Contents
  <2>2. src[c] <= released[path[c]]
    BY DEF ContractInv, HeldInv
  <2>3. released[path[c]] \in Nat /\ released'[path[c]] \in Nat
        /\ released[path[c]] <= released'[path[c]]
    BY <1>1, <1>2, <2>1
  <2> QED BY <2>1, <2>2, <2>3
<1> QED BY <1>2, <1>3, <1>4, <1>5 DEF ContractInv, SupportedInv, HeldInv

LEMMA NextContract == ContractInv /\ [Next]_vars => ContractInv'
<1> SUFFICES ASSUME ContractInv, [Next]_vars PROVE SupportedInv' /\ HeldInv'
  BY NextLimit DEF ContractInv
<1>T. TypeOK
  BY DEF ContractInv, LimitInv, IInv
<1>1. ASSUME NEW c \in Calls, NEW p \in Paths, Call(c, p) PROVE SupportedInv' /\ HeldInv'
  BY <1>T, <1>1 DEF Call, Goto, TypeOK, treeVars, ContractInv, SupportedInv, HeldInv
<1>2. ASSUME NEW c \in Calls, Step(c) PROVE SupportedInv' /\ HeldInv'
  BY <1>2, StepContract
<1>3. ASSUME NEW c \in Calls, Return(c) PROVE SupportedInv' /\ HeldInv'
  BY <1>T, <1>3 DEF Return, Goto, TypeOK, treeVars, ContractInv, SupportedInv, HeldInv
<1>4. ASSUME NEW p \in Paths, Deploy(p) PROVE SupportedInv' /\ HeldInv'
  BY <1>4, DeployContract
<1>5. CASE UNCHANGED vars
  BY <1>5 DEF vars, callVars, treeVars, ContractInv, SupportedInv, HeldInv
<1>6. QED
  BY <1>1, <1>2, <1>3, <1>4, <1>5 DEF Next

Status == [c \in Calls |-> IF Running(c) THEN "running" ELSE pc[c]]

\* The contract speaks of the same versions, results and files.
LEMMA ContractNames ==
    /\ Contract!Absent = Absent /\ Contract!NoPath = NoPath /\ Contract!NoResult = NoResult
    /\ \A e, v : Contract!Ok(e, v) = Ok(e, v) /\ Contract!Err(e) = Err(e)
BY DEF Contract!Absent, Contract!NoPath, Contract!NoResult, Contract!Ok, Contract!Err,
   Absent, NoPath, NoResult, Ok, Err

\* Where get looks at the cache or at the compressor, the file may be compressed.
LEMMA SizedMeansCompressible ==
    ASSUME ContractInv, NEW c \in Calls, pc[c] \in {"lookup", "compress", "copy"}
    PROVE  Contract!Compressible(c)
BY DEF ContractInv, LimitInv, SizedInv, SupportedInv, WithinLimit, Contract!Compressible,
   Contract!Absent, Absent

\* A return with an answer of the contract is a Reply.
LEMMA FinishIsReply ==
    ASSUME TypeOK, NEW c \in Calls, Running(c), NEW r \in Contract!Answers(c), Finish(c, r)
    PROVE  Contract!Reply(c)
<1>1. Status' = [Status EXCEPT ![c] = "done"]
  BY DEF Status, Finish, Running, TypeOK
<1>2. Status[c] = "running"
  BY DEF Status
<1>3. Contract!Goto(c, "running", "done")
  BY <1>1, <1>2 DEF Contract!Goto, Status
<1> QED BY <1>3 DEF Finish, Contract!Reply, Contract!treeVars, treeVars

LEMMA AnswersOf ==
    ASSUME NEW c \in Calls
    PROVE  /\ \A v \in seen[c] \ {Absent} : Ok("identity", v) \in Contract!Answers(c)
           /\ Contract!Compressible(c) =>
                /\ \A v \in Contract!Cached(c) : Ok("br", v) \in Contract!Answers(c)
                /\ Err("compression_error") \in Contract!Answers(c)
           /\ Err("io_error") \in Contract!Answers(c)
           /\ Absent \in seen[c] /\ path[c] \notin Dirs => Err("not_found") \in Contract!Answers(c)
           /\ path[c] \in Dirs => Err("is_directory") \in Contract!Answers(c)
BY ContractNames DEF Contract!Answers

\* An open that fails has an answer in the contract.
LEMMA OpenFailsInContract ==
    ASSUME ContractInv, NEW c \in Calls, Running(c), NEW e \in OpenErrors(path[c])
    PROVE  Err(e) \in Contract!Answers(c)
<1>1. e = "io_error" \/ (e = OpenStatus(path[c]) /\ e \in {"not_found", "is_directory"})
  BY OpenErrorsType DEF OpenErrors
<1>2. QED
  BY <1>1, OpenHonest, AnswersOf DEF ContractInv, LimitInv

LEMMA StepRefines ==
    ASSUME ContractInv, NEW c \in Calls, Step(c)
    PROVE  Contract!Reply(c) \/ UNCHANGED Contract!vars
<1>T. TypeOK
  BY DEF ContractInv, LimitInv, IInv
<1>1. ASSUME Running(c), NEW to, pc' = [pc EXCEPT ![c] = to], to \notin {"idle", "done"},
             UNCHANGED <<treeVars, rolledBack, path, result, seen>>
      PROVE  UNCHANGED Contract!vars
  <2>1. Status' = Status
    BY <1>1, <1>T DEF Status, Running, TypeOK
  <2> QED BY <1>1, <2>1 DEF Status, Contract!vars, Contract!treeVars, treeVars
<1>2. CASE Stat(c) \/ Miss(c) \/ OpenSource(c) \/ DiskFull(c) \/ Snapshot(c) \/ Retain(c)
  <2>1. /\ Running(c)
        /\ UNCHANGED <<treeVars, rolledBack, path, result, seen>>
        /\ \E to \in {"wrap", "lookup", "compress", "copy", "snapshot", "retain"} :
             pc' = [pc EXCEPT ![c] = to]
    BY <1>2 DEF Stat, Miss, OpenSource, DiskFull, Snapshot, Retain, Goto, Running
  <2> QED BY <1>1, <2>1
<1>3. CASE StatFails(c)
  BY <1>3, <1>T, OpenFailsInContract, FinishIsReply DEF StatFails, Running
<1>4. CASE SourceGone(c) \/ CompressFails(c) \/ MetadataFails(c)
  <2>1. \E r \in {Err("compression_error"), Err("io_error")} : Finish(c, r)
    BY <1>4 DEF SourceGone, CompressFails, MetadataFails
  <2>2. pc[c] \in {"lookup", "compress", "copy"} /\ Running(c)
    BY <1>4 DEF SourceGone, CompressFails, MetadataFails, Running
  <2> QED BY <1>T, <2>1, <2>2, SizedMeansCompressible, AnswersOf, FinishIsReply
<1>5. ASSUME pc[c] \in {"lookup", "copy"}, NEW w \in Versions, w <= released[path[c]],
             path[c] \notin rolledBack => w \in seen[c], Finish(c, Ok("br", w))
      PROVE  Contract!Reply(c)
  <2>1. w \in Contract!Cached(c)
    BY <1>5, ContractNames DEF Contract!Cached, Versions, Absent
  <2>2. Running(c)
    BY <1>5 DEF Running
  <2> QED BY <1>5, <1>T, <2>1, <2>2, SizedMeansCompressible, AnswersOf, FinishIsReply
<1>6. CASE Hit(c)
  <2> DEFINE w == cache[info[c]]
  <2>1. PICK v \in Versions : info[c] = FileInfo(path[c], v) /\ v \in seen[c]
    BY <1>6 DEF Hit, ContractInv, LimitInv, IInv, InfoInv
  <2>2. path[c] \in Paths /\ Running(c)
    BY <1>6, <1>T DEF Hit, TypeOK, Running
  <2>3. w \in Versions
    BY <1>6, <1>T, <2>1, <2>2, FileInfoType, TreeAssumption DEF Hit, TypeOK, Contents, Versions, Absent
  <2>4. w <= released[path[c]]
    BY <2>1, <2>2 DEF ContractInv, HeldInv
  <2>5. path[c] \notin rolledBack => w \in seen[c]
    <3>1. path[c] \notin rolledBack => v <= w
      BY <2>1, <2>2, <2>3 DEF ContractInv, LimitInv, IInv, EntryInv, Versions, Absent
    <3>2. v # Absent
      BY DEF Versions, Absent
    <3> QED BY <2>1, <2>2, <2>3, <2>4, <3>1, <3>2 DEF ContractInv, LimitInv, IInv, SeenInv
  <2> QED BY <1>5, <1>6, <2>3, <2>4, <2>5 DEF Hit
<1>7. CASE Insert(c)
  <2>1. src[c] \in Versions /\ src[c] \in seen[c] /\ src[c] <= released[path[c]]
    BY <1>7 DEF Insert, ContractInv, LimitInv, IInv, SourceInv, HeldInv
  <2> QED BY <1>5, <1>7, <2>1 DEF Insert
<1>8. CASE Wrap(c)
  <2>1. Running(c)
    BY <1>8 DEF Wrap, Running
  <2>2. CASE OpenStatus(path[c]) = "ok" /\ Finish(c, Ok("identity", tree[path[c]]))
    <3>1. tree[path[c]] \in seen[c] \ {Absent}
      BY <2>1, <2>2, OpenHonest DEF ContractInv, LimitInv, Versions, Absent
    <3> QED BY <1>T, <2>1, <2>2, <3>1, AnswersOf, FinishIsReply
  <2>3. ASSUME NEW e \in OpenErrors(path[c]), Finish(c, Err(e)) PROVE Contract!Reply(c)
    BY <1>T, <2>1, <2>3, OpenFailsInContract, FinishIsReply
  <2> QED BY <1>8, <2>2, <2>3 DEF Wrap
<1> QED
  BY <1>2, <1>3, <1>4, <1>6, <1>7, <1>8 DEF Step

\* BrotliCache implements GetContract: whatever the cache holds, evicts and prunes, every
\* call is answered once, by one of the answers that its path's content allows.
THEOREM Implementation == Spec => ImplementsContract
<1>1. Init => Contract!Init
  <2> SUFFICES ASSUME Init PROVE Contract!Init
    OBVIOUS
  <2>1. Status = [c \in Calls |-> "idle"]
    BY DEF Init, Status, Running
  <2>2. Contract!TreeInit
    BY DEF Init, TreeInit, Contract!TreeInit, Contents, Contract!Contents, Absent, Contract!Absent
  <2> QED BY <2>1, <2>2, ContractNames DEF Init, Status, Contract!Init
<1>2. ContractInv /\ [Next]_vars => [Contract!Next]_Contract!vars
  <2> SUFFICES ASSUME ContractInv, [Next]_vars PROVE [Contract!Next]_Contract!vars
    OBVIOUS
  <2>T. TypeOK
    BY DEF ContractInv, LimitInv, IInv
  <2>1. ASSUME NEW c \in Calls, NEW p \in Paths, Call(c, p) PROVE Contract!Call(c, p)
    <3>1. Status' = [Status EXCEPT ![c] = "running"] /\ Status[c] = "idle"
      BY <2>1, <2>T DEF Call, Goto, Status, Running, TypeOK
    <3>2. Contract!Goto(c, "idle", "running")
      BY <3>1 DEF Contract!Goto, Status
    <3> QED BY <2>1, <3>2 DEF Call, Contract!Call, Contract!treeVars, treeVars
  <2>2. ASSUME NEW c \in Calls, Step(c) PROVE Contract!Reply(c) \/ UNCHANGED Contract!vars
    BY <2>2, StepRefines
  <2>3. ASSUME NEW c \in Calls, Return(c) PROVE Contract!Return(c)
    <3>1. Status' = [Status EXCEPT ![c] = "idle"] /\ Status[c] = "done"
      BY <2>3, <2>T DEF Return, Goto, Status, Running, TypeOK
    <3>2. Contract!Goto(c, "done", "idle")
      BY <3>1 DEF Contract!Goto, Status
    <3> QED BY <2>3, <3>2, ContractNames DEF Return, Contract!Return, Contract!treeVars, treeVars
  <2>4. ASSUME NEW p \in Paths, Deploy(p) PROVE Contract!Deploy(p)
    <3>1. Status' = Status
      BY <2>4 DEF Deploy, Status, Running
    <3>2. \A c \in Calls : Status[c] = "running" <=> Running(c)
      BY DEF Status, Running
    <3>3. \/ (Contract!Release(p) \/ Contract!Remove(p)) /\ UNCHANGED rolledBack
          \/ Contract!Rollback(p) /\ rolledBack' = rolledBack \cup {p}
      BY <2>4, ContractNames
      DEF Deploy, Release, Remove, Rollback, Contract!Release, Contract!Remove, Contract!Rollback
    <3>4. seen' = [c \in Calls |->
                     IF Status[c] = "running" /\ path[c] = p THEN seen[c] \cup {tree'[p]}
                     ELSE seen[c]]
      BY <2>4, <3>2 DEF Deploy
    <3> QED BY <2>4, <3>1, <3>3, <3>4 DEF Deploy, Contract!Deploy, Status
  <2>5. CASE UNCHANGED vars
    BY <2>5 DEF vars, callVars, treeVars, Contract!vars, Contract!treeVars, Running
  <2> QED
    BY <2>1, <2>2, <2>3, <2>4, <2>5 DEF Next, Contract!Next
<1>3. Spec => []ContractInv
  BY InitContract, NextContract, PTL DEF Spec
<1> QED
  BY <1>1, <1>2, <1>3, PTL DEF Spec, ImplementsContract, Contract!Spec
-----------------------------------------------------------------------------
(* The course of a get *)

\* What the first open of get found was no directory.
OpenedInv ==
    \A c \in Calls :
        /\ pc[c] \in {"stat", "lookup", "compress", "copy", "snapshot", "retain"} =>
             path[c] \in Supported
        /\ pc[c] \in {"lookup", "compress", "copy", "snapshot", "retain"} => path[c] \notin Dirs
        /\ pc[c] = "wrap" /\ path[c] \in Supported => path[c] \notin Dirs

LEMMA StepDegrades ==
    ASSUME TypeOK, OpenedInv, NEW c \in Calls, Step(c)
    PROVE  OpenedInv' /\ Degrades(c)
<1>1. ASSUME NEW to, pc' = [pc EXCEPT ![c] = to], UNCHANGED path,
             to \in {"snapshot", "retain"} => pc[c] \in {"lookup", "compress", "copy", "snapshot", "retain"},
             to \in {"lookup", "compress", "copy"} =>
               path[c] \notin Dirs /\ path[c] \in Supported,
             to = "wrap" => path[c] \notin Dirs,
             to # "stat"
      PROVE  OpenedInv'
  BY <1>1 DEF OpenedInv, TypeOK
<1>2. ASSUME NEW d \in Calls, OpenStatus(path[d]) = "ok" PROVE path[d] \notin Dirs
  BY <1>2 DEF OpenStatus
<1>3. CASE Stat(c)
  <2>1. path[c] \in Supported /\ path[c] \notin Dirs /\ UNCHANGED path
    BY <1>2, <1>3 DEF Stat, OpenedInv
  <2>2. PICK to \in {"wrap", "lookup"} : pc' = [pc EXCEPT ![c] = to] /\ pc[c] = "stat"
    BY <1>3 DEF Stat, Goto
  <2>3. OpenedInv'
    BY <1>1, <2>1, <2>2
  <2>4. Degrades(c)
    BY <2>2 DEF Degrades, StepsLeft, TypeOK
  <2> QED BY <2>3, <2>4
<1>4. CASE Miss(c) \/ OpenSource(c) \/ DiskFull(c) \/ Snapshot(c) \/ Retain(c)
  <2>1. PICK to \in {"compress", "copy", "snapshot", "retain", "wrap"} :
          /\ pc' = [pc EXCEPT ![c] = to]
          /\ pc[c] \in {"lookup", "compress", "copy", "snapshot", "retain"}
          /\ StepsLeft(to) < StepsLeft(pc[c])
          /\ pc[c] \in {"snapshot", "retain"} => to \in {"retain", "wrap"}
    BY <1>4 DEF Miss, OpenSource, DiskFull, Snapshot, Retain, Goto, StepsLeft
  <2>2. UNCHANGED path /\ path[c] \in Supported /\ path[c] \notin Dirs
    BY <1>4, <2>1 DEF Miss, OpenSource, DiskFull, Snapshot, Retain, OpenedInv
  <2>3. OpenedInv'
    BY <1>1, <2>1, <2>2
  <2>4. Degrades(c)
    BY <2>1, <2>2 DEF Degrades, TypeOK
  <2> QED BY <2>3, <2>4
<1>5. ASSUME NEW r, Finish(c, r), Running(c), pc[c] \notin {"snapshot", "retain"},
             pc[c] = "wrap" /\ path[c] \in Supported =>
               r.encoding = "identity" /\ r.status \in {"ok", "not_found", "io_error"}
      PROVE  OpenedInv' /\ Degrades(c)
  <2>1. pc' = [pc EXCEPT ![c] = "done"] /\ UNCHANGED path /\ result'[c] = r
    BY <1>5 DEF Finish, TypeOK
  <2>2. OpenedInv'
    BY <1>1, <2>1
  <2>3. StepsLeft("done") < StepsLeft(pc[c])
    BY <1>5 DEF StepsLeft, Running, TypeOK
  <2> QED BY <1>5, <2>1, <2>2, <2>3 DEF Degrades, TypeOK
<1>6. CASE StatFails(c) \/ Hit(c) \/ SourceGone(c) \/ CompressFails(c) \/ MetadataFails(c) \/ Insert(c)
  <2>1. \E r : Finish(c, r)
    BY <1>6 DEF StatFails, Hit, SourceGone, CompressFails, MetadataFails, Insert
  <2>2. pc[c] \in {"stat", "lookup", "compress", "copy"} /\ Running(c)
    BY <1>6 DEF StatFails, Hit, SourceGone, CompressFails, MetadataFails, Insert, Running
  <2> QED BY <1>5, <2>1, <2>2
<1>7. CASE Wrap(c)
  <2>1. pc[c] = "wrap" /\ Running(c)
    BY <1>7 DEF Wrap, Running
  <2>2. path[c] \in Supported =>
          {OpenStatus(path[c])} \cup OpenErrors(path[c]) \subseteq {"ok", "not_found", "io_error"}
    BY <2>1 DEF OpenedInv, OpenStatus, OpenErrors
  <2>3. CASE Finish(c, Ok("identity", tree[path[c]]))
    <3>1. /\ Ok("identity", tree[path[c]]).encoding = "identity"
          /\ Ok("identity", tree[path[c]]).status = "ok"
      BY DEF Ok
    <3> QED BY <1>5, <2>1, <2>3, <3>1
  <2>4. ASSUME NEW e \in OpenErrors(path[c]), Finish(c, Err(e))
        PROVE  OpenedInv' /\ Degrades(c)
    <3>1. Err(e).encoding = "identity" /\ Err(e).status = e
      BY DEF Err
    <3> QED BY <1>5, <2>1, <2>2, <2>4, <3>1
  <2> QED BY <1>7, <2>3, <2>4 DEF Wrap
<1> QED
  BY <1>3, <1>4, <1>6, <1>7 DEF Step

LEMMA NextDegrades ==
    ASSUME TypeOK, OpenedInv, [Next]_vars
    PROVE  OpenedInv' /\ \A c \in Calls : Degrades(c)
<1>1. ASSUME NEW c \in Calls, (UNCHANGED <<pc, path>>) \/ (pc'[c] = pc[c] /\ path'[c] = path[c])
      PROVE  Degrades(c)
  BY <1>1 DEF Degrades, OpenedInv
<1>2. ASSUME NEW c \in Calls, Step(c) PROVE OpenedInv' /\ \A d \in Calls : Degrades(d)
  <2>1. ASSUME NEW d \in Calls, d # c PROVE pc'[d] = pc[d] /\ path'[d] = path[d]
    BY <1>2, <2>1 DEF TypeOK, Step, Stat, StatFails, Hit, Miss, OpenSource, SourceGone, CompressFails,
       MetadataFails, Insert, DiskFull, Snapshot, Retain, Wrap, Finish, Goto
  <2> QED BY <1>1, <1>2, <2>1, StepDegrades
<1>3. ASSUME NEW c \in Calls, NEW p \in Paths, Call(c, p)
      PROVE  OpenedInv' /\ \A d \in Calls : Degrades(d)
  BY <1>1, <1>3 DEF Call, Goto, TypeOK, OpenedInv, Degrades, Running
<1>4. ASSUME NEW c \in Calls, Return(c) PROVE OpenedInv' /\ \A d \in Calls : Degrades(d)
  BY <1>1, <1>4 DEF Return, Goto, TypeOK, OpenedInv, Degrades, Running
<1>5. CASE UNCHANGED <<pc, path>>
  BY <1>1, <1>5 DEF OpenedInv
<1>6. QED
  BY <1>2, <1>3, <1>4, <1>5 DEF Next, Deploy, vars, callVars

\* A get takes a bounded number of steps, and a full disk leads it to the original file or
\* to the error of opening that one.
THEOREM Degradation == Spec => FullDiskDegrades
<1>1. Init => TypeOK /\ OpenedInv
  BY InitType DEF Init, OpenedInv
<1>2. TypeOK /\ OpenedInv /\ [Next]_vars => TypeOK' /\ OpenedInv'
  BY NextType, NextDegrades
<1>3. TypeOK /\ OpenedInv /\ [Next]_vars => [\A c \in Calls : Degrades(c)]_vars
  BY NextDegrades
<1>4. QED
  BY <1>1, <1>2, <1>3, PTL DEF Spec, FullDiskDegrades
=============================================================================
