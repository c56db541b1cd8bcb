----------------------------- MODULE BrotliCache -----------------------------
(***************************************************************************)
(* The runtime Brotli cache (src/src/brotli_cache.rs): concurrent calls of *)
(* BrotliCache::get, each a sequence of steps between which other calls    *)
(* run and the served tree changes.                                        *)
(*                                                                         *)
(*   get:  idle -> stat -> lookup -> compress -> copy -> done              *)
(*                   \                  \          \                       *)
(*                    `-> wrap <- retain <- snapshot      (disk full)      *)
(*                                                                         *)
(* A compressed tempfile is represented by the version whose bytes were    *)
(* compressed into it.                                                     *)
(***************************************************************************)
EXTENDS FileTree, FiniteSets

CONSTANTS
    Calls,        \* concurrent callers of get
    Supported,    \* paths whose extension is in supported_extensions
    MaxFileSize,  \* max_file_size
    Capacity,     \* number of entries the sieve cache holds
    CompressedLen \* CompressedLen[v]: bytes of version v once compressed

ASSUME CacheAssumption ==
    /\ Supported \subseteq Paths
    /\ MaxFileSize \in Nat
    /\ Capacity \in Nat \ {0}
    /\ CompressedLen \in [Versions -> Nat]

VARIABLES
    cache,   \* cache[i]: version held by the entry for FileInfo i, or Absent
    pc,      \* where each call is
    path,    \* the argument of each call
    info,    \* file_info, once the call has read it
    src,     \* version that compress_internal opened, or Absent
    keep,    \* keep_keys of a running prune_cache
    result,  \* what the call returns
    seen,    \* history: what the path held at some time during the call
    rolledBack \* history: the paths that went back to an older version

callVars == <<pc, path, info, src, keep, result, seen>>
vars == <<treeVars, rolledBack, cache, callVars>>

NoPath   == "none"
NoInfo   == [path |-> NoPath, len |-> 0, mtime |-> 0]
NoResult == [status |-> "none", encoding |-> "identity", content |-> Absent]

Ok(encoding, v) == [status |-> "ok", encoding |-> encoding, content |-> v]
Err(status)     == [status |-> status, encoding |-> "identity", content |-> Absent]

Results ==
    [status : {"none", "ok", "not_found", "is_directory", "io_error",
               "compression_error"},
     encoding : {"identity", "br"},
     content : Contents]

Entries == {i \in FileInfos : cache[i] # Absent}

Running(c) == pc[c] \notin {"idle", "done"}

Init ==
    /\ TreeInit
    /\ cache  = [i \in FileInfos |-> Absent]
    /\ pc     = [c \in Calls |-> "idle"]
    /\ path   = [c \in Calls |-> NoPath]
    /\ info   = [c \in Calls |-> NoInfo]
    /\ src    = [c \in Calls |-> Absent]
    /\ keep   = [c \in Calls |-> {}]
    /\ result = [c \in Calls |-> NoResult]
    /\ seen   = [c \in Calls |-> {}]
    /\ rolledBack = {}

-----------------------------------------------------------------------------
(* Steps of get.  Finish is any return: the locals go out of scope.        *)

Goto(c, from, to) == pc[c] = from /\ pc' = [pc EXCEPT ![c] = to]

Finish(c, r) ==
    /\ pc'     = [pc EXCEPT ![c] = "done"]
    /\ result' = [result EXCEPT ![c] = r]
    /\ info'   = [info EXCEPT ![c] = NoInfo]
    /\ src'    = [src EXCEPT ![c] = Absent]
    /\ keep'   = [keep EXCEPT ![c] = {}]
    /\ UNCHANGED <<treeVars, rolledBack, path, seen>>

\* get(p) is called.  A path with another extension is not compressed.
Call(c, p) ==
    /\ Goto(c, "idle", IF p \in Supported THEN "stat" ELSE "wrap")
    /\ path' = [path EXCEPT ![c] = p]
    /\ seen' = [seen EXCEPT ![c] = {tree[p]}]
    /\ UNCHANGED <<treeVars, rolledBack, cache, info, src, keep, result>>

\* Mutant of Stat: the cache is asked before the size.
StatUnlimited(c) ==
    /\ Goto(c, "stat", "lookup")
    /\ OpenStatus(path[c]) = "ok"
    /\ info' = [info EXCEPT ![c] = FileInfo(path[c], tree[path[c]])]
    /\ UNCHANGED <<treeVars, rolledBack, cache, path, src, keep, result, seen>>

\* FileInfo::for_path(path)? : the handle is dropped, only the info is kept.
Stat(c) ==
    /\ pc[c] = "stat"
    /\ OpenStatus(path[c]) = "ok"
    /\ LET i == FileInfo(path[c], tree[path[c]]) IN
         /\ Goto(c, "stat", IF i.len > MaxFileSize THEN "wrap" ELSE "lookup")
         /\ info' = [info EXCEPT ![c] = i]
    /\ UNCHANGED <<treeVars, rolledBack, cache, path, src, keep, result, seen>>

StatFails(c) ==
    /\ pc[c] = "stat"
    /\ \E e \in OpenErrors(path[c]) : Finish(c, Err(e))
    /\ UNCHANGED cache

Hit(c) ==
    /\ pc[c] = "lookup"
    /\ cache[info[c]] # Absent
    /\ Finish(c, Ok("br", cache[info[c]]))
    /\ UNCHANGED cache

\* Mutant of Miss: the task is spawned and nothing awaits it.
MissNotAwaited(c) ==
    /\ Goto(c, "lookup", "spawned")
    /\ cache[info[c]] = Absent
    /\ UNCHANGED <<treeVars, rolledBack, cache, path, info, src, keep, result, seen>>

\* The compression is handed to a blocking thread and awaited.
Miss(c) ==
    /\ Goto(c, "lookup", "compress")
    /\ cache[info[c]] = Absent
    /\ UNCHANGED <<treeVars, rolledBack, cache, path, info, src, keep, result, seen>>

\* compress_internal makes its tempfile and opens the path a second time.
OpenSource(c) ==
    /\ Goto(c, "compress", "copy")
    /\ OpenStatus(path[c]) = "ok"
    /\ src' = [src EXCEPT ![c] = tree[path[c]]]
    /\ UNCHANGED <<treeVars, rolledBack, cache, path, info, keep, result, seen>>

\* The source does not open: one more error of the blocking task.
SourceGone(c) ==
    /\ pc[c] = "compress"
    /\ OpenStatus(path[c]) # "ok"
    /\ Finish(c, Err("compression_error"))
    /\ UNCHANGED cache

\* Mutant of CompressFails: the error goes through From<IOError>, so a missing
\* tempdir looks like a missing file.
CompressFailsAsNotFound(c) ==
    /\ pc[c] \in {"compress", "copy"}
    /\ Finish(c, Err("not_found"))
    /\ UNCHANGED cache

\* Any other failure of the blocking task: a failed tempfile, open or copy, a panic.
CompressFails(c) ==
    /\ pc[c] \in {"compress", "copy"}
    /\ Finish(c, Err("compression_error"))
    /\ UNCHANGED cache

\* The metadata of the finished tempfile cannot be read.
MetadataFails(c) ==
    /\ pc[c] = "copy"
    /\ Finish(c, Err("io_error"))
    /\ UNCHANGED cache

\* cache.insert under the info read by Stat.  What the sieve cache evicts to
\* stay within its limits is its own choice; it may refuse the new entry.
Insert(c) ==
    /\ pc[c] = "copy"
    /\ \E evicted \in SUBSET (Entries \cup {info[c]}) :
         /\ cache' = [i \in FileInfos |->
                        IF i \in evicted THEN Absent
                        ELSE IF i = info[c] THEN src[c] ELSE cache[i]]
         /\ Cardinality((Entries \cup {info[c]}) \ evicted) <= Capacity
    /\ Finish(c, Ok("br", src[c]))

\* The disk is full, when the tempfile is made or while it is written.
DiskFull(c) ==
    /\ pc[c] \in {"compress", "copy"}
    /\ pc' = [pc EXCEPT ![c] = "snapshot"]
    /\ src' = [src EXCEPT ![c] = Absent]
    /\ UNCHANGED <<treeVars, rolledBack, cache, path, info, keep, result, seen>>

\* prune_cache: list the entries and choose the smaller half of them...
Snapshot(c) ==
    /\ Goto(c, "snapshot", "retain")
    /\ \E kept \in SUBSET Entries :
         /\ Cardinality(kept) = Cardinality(Entries) \div 2
         /\ \A i \in kept, j \in Entries \ kept :
                CompressedLen[cache[i]] <= CompressedLen[cache[j]]
         /\ keep' = [keep EXCEPT ![c] = kept]
    /\ UNCHANGED <<treeVars, rolledBack, cache, path, info, src, result, seen>>

\* Mutant of Retain: after pruning, compress again.
RetainThenRetry(c) ==
    /\ Goto(c, "retain", "compress")
    /\ cache' = [i \in FileInfos |-> IF i \in keep[c] THEN cache[i] ELSE Absent]
    /\ keep' = [keep EXCEPT ![c] = {}]
    /\ UNCHANGED <<treeVars, rolledBack, path, info, src, result, seen>>

\* ... then drop every entry not chosen, whatever was inserted meanwhile.
Retain(c) ==
    /\ Goto(c, "retain", "wrap")
    /\ cache' = [i \in FileInfos |-> IF i \in keep[c] THEN cache[i] ELSE Absent]
    /\ keep' = [keep EXCEPT ![c] = {}]
    /\ UNCHANGED <<treeVars, rolledBack, path, info, src, result, seen>>

\* Mutant of Wrap: every failure of get is reported as one of the compression.
WrapAsCompression(c) ==
    /\ pc[c] = "wrap"
    /\ \/ OpenStatus(path[c]) = "ok" /\ Finish(c, Ok("identity", tree[path[c]]))
       \/ Finish(c, Err("compression_error"))
    /\ UNCHANGED cache

\* wrap_orig opens the path once more and returns the file as it is, or the error
\* of that open.
Wrap(c) ==
    /\ pc[c] = "wrap"
    /\ \/ OpenStatus(path[c]) = "ok" /\ Finish(c, Ok("identity", tree[path[c]]))
       \/ \E e \in OpenErrors(path[c]) : Finish(c, Err(e))
    /\ UNCHANGED cache

\* The caller takes the result.
Return(c) ==
    /\ Goto(c, "done", "idle")
    /\ path'   = [path EXCEPT ![c] = NoPath]
    /\ result' = [result EXCEPT ![c] = NoResult]
    /\ seen'   = [seen EXCEPT ![c] = {}]
    /\ UNCHANGED <<treeVars, rolledBack, cache, info, src, keep>>

Step(c) ==
    \/ Stat(c) \/ StatFails(c) \/ Hit(c) \/ Miss(c)
    \/ OpenSource(c) \/ SourceGone(c) \/ CompressFails(c) \/ MetadataFails(c)
    \/ Insert(c) \/ DiskFull(c) \/ Snapshot(c) \/ Retain(c) \/ Wrap(c)

\* The tree changes under the running calls.
Deploy(p) ==
    /\ \/ (Release(p) \/ Remove(p)) /\ UNCHANGED rolledBack
       \/ Rollback(p) /\ rolledBack' = rolledBack \cup {p}
    /\ seen' = [c \in Calls |->
                  IF Running(c) /\ path[c] = p THEN seen[c] \cup {tree'[p]}
                  ELSE seen[c]]
    /\ UNCHANGED <<cache, pc, path, info, src, keep, result>>

Next ==
    \/ \E c \in Calls, p \in Paths : Call(c, p)
    \/ \E c \in Calls : Step(c) \/ Return(c)
    \/ \E p \in Paths : Deploy(p)

Spec == Init /\ [][Next]_vars

-----------------------------------------------------------------------------
(* Properties *)

\* The types of the state, and of the locals where get uses them.
TypeOK ==
    /\ TreeTypeOK
    /\ rolledBack \subseteq Paths
    /\ cache \in [FileInfos -> Contents]
    /\ pc \in [Calls -> {"idle", "stat", "lookup", "compress", "copy",
                          "snapshot", "retain", "wrap", "done"}]
    /\ path \in [Calls -> Paths \cup {NoPath}]
    /\ info \in [Calls -> FileInfos \cup {NoInfo}]
    /\ src \in [Calls -> Contents]
    /\ keep \in [Calls -> SUBSET FileInfos]
    /\ result \in [Calls -> Results]
    /\ seen \in [Calls -> SUBSET Contents]
    /\ \A c \in Calls :
         /\ Running(c) => path[c] \in Paths
         /\ pc[c] \in {"lookup", "compress", "copy"} => info[c] \in FileInfos

\* A successful get returns bytes the path held at some moment of that call,
\* compressed or not: although the info that keys the cache and the bytes that
\* are compressed come from two separate opens, and hits, slow compressions,
\* pruning and deployments interleave at will.  It holds for the paths that
\* were never rolled back.
FreshContent ==
    \A c \in Calls :
        (pc[c] = "done" /\ result[c].status = "ok" /\ path[c] \notin rolledBack)
            => result[c].content \in seen[c]

\* served_dir.rs:121-128 calls updates by moving paths and switching symlinks
\* safe without exception: then a get returns bytes the path held during the
\* call after a rollback as well.  It does not.
AlwaysFresh ==
    \A c \in Calls :
        (pc[c] = "done" /\ result[c].status = "ok")
            => result[c].content \in seen[c]

\* NotFound is returned only if the file was missing at some moment of the
\* call, and IsDirectory only for a directory: no failure of the cache, the
\* disk or the compressor turns into a 404.
ErrorsAreHonest ==
    \A c \in Calls : pc[c] = "done" =>
        /\ result[c].status = "not_found" => Absent \in seen[c] /\ path[c] \notin Dirs
        /\ result[c].status = "is_directory" => path[c] \in Dirs

\* max_file_size (compression.rs:232-233): a get answers with compressed bytes only
\* if the path held a file within the limit during the call.  One that was over it
\* all the time is served as it is, even if it was once compressed: by a call that
\* looked at the size of a smaller version before this one was moved in.
SizeLimitHolds ==
    \A c \in Calls : pc[c] = "done" /\ result[c].encoding = "br" =>
        \E v \in seen[c] : v # Absent /\ LenOf[v] <= MaxFileSize

\* get keeps its contract: whatever the cache holds, evicts and prunes and however calls
\* and deployments interleave, each call is answered once, by one of the answers that
\* what the path held during the call allows. It covers what no other property does:
\* a file that cannot be compressed never meets an error of the compressor, and bytes
\* that a rollback made stale are still of a version the path once held.
Contract == INSTANCE GetContract
    WITH status <- [c \in Calls |-> IF Running(c) THEN "running" ELSE pc[c]]

ImplementsContract == Contract!Spec

\* How many steps of get are left at most.
StepsLeft(at) ==
    CASE at = "stat" -> 7 [] at = "lookup" -> 6 [] at = "compress" -> 5 [] at = "copy" -> 4
      [] at = "snapshot" -> 3 [] at = "retain" -> 2 [] at = "wrap" -> 1 [] OTHER -> 0

Degrades(c) ==
    /\ Running(c) /\ pc'[c] # pc[c] => StepsLeft(pc'[c]) < StepsLeft(pc[c])
    /\ pc[c] \in {"snapshot", "retain"} =>
         /\ pc'[c] \in {"snapshot", "retain", "wrap"}
         /\ path'[c] = path[c] /\ path[c] \in Supported
    /\ pc[c] = "wrap" /\ pc'[c] # "wrap" /\ path[c] \in Supported =>
         /\ pc'[c] = "done" /\ result'[c].encoding = "identity"
         /\ result'[c].status \in {"ok", "not_found", "io_error"}

\* A get never goes back, to try again or otherwise: it ends after at most seven steps
\* of its own, whatever the others do.  A full disk by itself fails no request
\* (brotli_cache.rs:142-147, 207-220): a get that met one goes on to wrap_orig and to
\* nowhere else, and ends with the original file or with what keeps that one from being
\* opened (it is gone, or the system refuses): with no error of the compression, no
\* compressed bytes, and never finding a directory.
FullDiskDegrades == [][\A c \in Calls : Degrades(c)]_vars
=============================================================================
