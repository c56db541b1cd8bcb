----------------------------- MODULE GetContract -----------------------------
(***************************************************************************)
(* What find_file may rely on when it calls BrotliCache::get: one answer   *)
(* per call, out of those the path's content during the call allows.       *)
(* There is no cache here, no compression and no second open.              *)
(***************************************************************************)
EXTENDS FileTree

CONSTANTS Calls, Supported, MaxFileSize

VARIABLES
    rolledBack,  \* the paths that went back to an older version
    status,      \* status[c]: "idle", "running" or "done"
    path,        \* the argument of each call
    result,      \* what the call returns
    seen         \* what the path held at some time during the call

vars == <<treeVars, rolledBack, status, path, result, seen>>

NoPath   == "none"
NoResult == [status |-> "none", encoding |-> "identity", content |-> Absent]

Ok(encoding, v) == [status |-> "ok", encoding |-> encoding, content |-> v]
Err(error)      == [status |-> error, encoding |-> "identity", content |-> Absent]

\* The path has a supported extension and held a file within the size limit.
Compressible(c) ==
    /\ path[c] \in Supported
    /\ \E v \in seen[c] \ {Absent} : LenOf[v] <= MaxFileSize

\* After a rollback the compressed bytes may be of any version the path ever held.
Cached(c) ==
    IF path[c] \in rolledBack THEN 1 .. released[path[c]] ELSE seen[c] \ {Absent}

\* A missing file is NotFound, a directory IsDirectory; the system may refuse any
\* open, and the compressor is blamed only for what may be compressed.
Answers(c) ==
    {Ok("identity", v) : v \in seen[c] \ {Absent}}
    \cup {r \in {Ok("br", v) : v \in Cached(c)} : Compressible(c)}
    \cup {r \in {Err("compression_error")} : Compressible(c)}
    \cup {Err("io_error")}
    \cup {r \in {Err("not_found")} : Absent \in seen[c] /\ path[c] \notin Dirs}
    \cup {r \in {Err("is_directory")} : path[c] \in Dirs}

Init ==
    /\ TreeInit
    /\ rolledBack = {}
    /\ status = [c \in Calls |-> "idle"]
    /\ path   = [c \in Calls |-> NoPath]
    /\ result = [c \in Calls |-> NoResult]
    /\ seen   = [c \in Calls |-> {}]

Goto(c, from, to) == status[c] = from /\ status' = [status EXCEPT ![c] = to]

Call(c, p) ==
    /\ Goto(c, "idle", "running")
    /\ path' = [path EXCEPT ![c] = p]
    /\ seen' = [seen EXCEPT ![c] = {tree[p]}]
    /\ UNCHANGED <<treeVars, rolledBack, result>>

Reply(c) ==
    /\ Goto(c, "running", "done")
    /\ \E r \in Answers(c) : result' = [result EXCEPT ![c] = r]
    /\ UNCHANGED <<treeVars, rolledBack, path, seen>>

Return(c) ==
    /\ Goto(c, "done", "idle")
    /\ path'   = [path EXCEPT ![c] = NoPath]
    /\ result' = [result EXCEPT ![c] = NoResult]
    /\ seen'   = [seen EXCEPT ![c] = {}]
    /\ UNCHANGED <<treeVars, rolledBack>>

Deploy(p) ==
    /\ \/ (Release(p) \/ Remove(p)) /\ UNCHANGED rolledBack
       \/ Rollback(p) /\ rolledBack' = rolledBack \cup {p}
    /\ seen' = [c \in Calls |->
                  IF status[c] = "running" /\ path[c] = p THEN seen[c] \cup {tree'[p]}
                  ELSE seen[c]]
    /\ UNCHANGED <<status, path, result>>

Next ==
    \/ \E c \in Calls : Reply(c) \/ Return(c) \/ \E p \in Paths : Call(c, p)
    \/ \E p \in Paths : Deploy(p)

Spec == Init /\ [][Next]_vars
=============================================================================
