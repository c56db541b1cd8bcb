------------------------------ MODULE ServedDir ------------------------------
(***************************************************************************)
(* ServedDir::get (src/src/served_dir.rs): from the path and the headers   *)
(* of a request to a resource or an error.                                 *)
(*                                                                         *)
(*   idle -> lookup -> search -> create -> got                             *)
(*                                                                         *)
(* Each open of find_file is a step, so that other requests and deployments*)
(* come between the siblings of a file, the directory and its index.html,  *)
(* a missing file and the page for missing files.  FileTree and Serving    *)
(* model versions; here a path holds a file or not.                        *)
(***************************************************************************)
EXTENDS Negotiation

CONSTANTS
    Requests,     \* concurrent requests
    Urls,         \* the URL paths they ask for
    Headers,      \* the Accept-Encoding headers they have
    Settings,     \* configurations of the ServedDir
    MayHold,      \* MayHold[p]: what the path p may hold
    ExtensionOf,  \* ExtensionOf[n]: the extension of the name n
    KnownTypes,   \* known_extensions: content types by extension
    DefaultType,  \* default_content_type
    MaxChanges    \* bound on the number of changes to the tree

\* A full path is a sequence of names below the served directory; a form of it
\* is the file with the extension of a coding appended, or the file itself.
Forms == DOMAIN MayHold
Plain(path) == <<path, "identity">>

NoPage == <<>>                \* not_found_path is not set
Holdings == {"file", "directory", "absent", "unreadable"}

\* What a URL path is split into by Path::components; "/" is the root and NUL a
\* name with a NUL byte.  Prefixed: it starts with the prefix to strip.
Unsafe == {"..", "/", "NUL"}

ASSUME ServedDirAssumption ==
    /\ Urls \subseteq [prefixed : BOOLEAN, components : Seq(STRING)]
    /\ Headers \subseteq Seq([coding : Named \cup {"other"}, weight : Weights])
    /\ Forms \subseteq Seq(STRING) \X Codings
    /\ MayHold \in [Forms -> SUBSET Holdings]
    /\ \A p \in Forms : MayHold[p] # {}
    /\ MaxChanges \in Nat
    /\ \A s \in Settings :
         /\ s.strategy \in Strategies
         /\ {s.appendIndex, s.caching, s.handler, s.layered} \subseteq BOOLEAN
         /\ s.page \in Seq(STRING)
         /\ s.hashErrors \subseteq {"io", "not_found"}  \* what file_hasher may fail with

VARIABLES
    settings,  \* the configuration, fixed when the directory is built
    tree,      \* tree[p]: what p holds
    changes,   \* how often the tree has changed
    cache,     \* cache[k]: the resource under key k, or NoResource
    pc,        \* where each request is
    req,       \* its URL path and header
    goal,      \* which find_file resolve is in: target, index or page
    todo,      \* the candidates that find_file has still to try
    found,     \* the file that was found
    result,    \* what get returns
    lacked     \* history: the forms that were no file at some time since the request began

treeVars   == <<settings, tree, changes>>
searchVars == <<goal, todo, found>>
dirVars    == <<treeVars, cache, pc, req, searchVars, result, lacked>>

OneOf(path) == {p \in Forms : p[1] = path}

\* A resource: the form of a file.  Fallback is what an error handler returns, made by
\* itself or out of the page that came with the error.
NoResource == [path |-> <<"/nothing">>, coding |-> "identity"]
Fallback   == [path |-> <<"/fallback">>, coding |-> "identity"]
Resources  == [path : {p[1] : p \in Forms}, coding : Codings]

\* No name in a path holds a slash.
ASSUME NamesAssumption ==
    \A path \in {NoResource.path, Fallback.path} :
        /\ \A p \in Forms : p[1] # path
        /\ \A s \in Settings : s.page # path

\* Result<Resource, SerdirError>; NotFound carries a resource or NoResource.
Ok(res)       == [error |-> "none", resource |-> res]
Err(kind)     == [error |-> kind, resource |-> NoResource]
NotFound(res) == [error |-> "not_found", resource |-> res]
Pending       == Ok(NoResource)

\* "io" stands for IOError and CompressionError, which nothing tells apart.
ErrorKinds == {"none", "not_found", "is_directory", "invalid_path", "io"}
Results == [error : ErrorKinds, resource : Resources \cup {NoResource, Fallback}]

-----------------------------------------------------------------------------
(* Paths, and what opening them yields *)

IndexOf(path) == Append(path, "index.html")

Invalid(url) == ~ url.prefixed \/ \E i \in DOMAIN url.components : url.components[i] \in Unsafe

\* strip_prefix and validate_path: "." segments are dropped.
Target(url) ==
    LET named(c) == c # "."  IN  SelectSeq(url.components, named)

Holding(held, p) ==
    IF p \in Forms THEN held[p] ELSE IF p = Plain(<<>>) THEN "directory" ELSE "absent"

\* try_path of a form: how File::open and FileInfo::open_file end.  The first
\* segment that is no directory decides: the system says ENOENT if it is missing
\* and ENOTDIR or EACCES otherwise, which SerdirError keeps as an I/O error.
StatusIn(held, p) ==
    LET above   == {n \in 1 .. Len(p[1]) - 1 :
                      Holding(held, Plain(SubSeq(p[1], 1, n))) # "directory"}
        first   == CHOOSE n \in above : \A m \in above : n <= m
        blocker == IF above = {} THEN Holding(held, p)
                   ELSE Holding(held, Plain(SubSeq(p[1], 1, first)))
    IN  CASE blocker = "absent"                    -> "not_found"
          [] blocker = "file" /\ above = {}       -> "ok"
          [] blocker = "directory" /\ above = {}  -> "is_directory"
          [] OTHER                                 -> "io"

Status(p) == StatusIn(tree, p)

\* The form a candidate opens.
FormOf(path, candidate) ==
    IF candidate = "runtime" THEN Plain(path) ELSE <<path, candidate>>

\* The key of the resource cache: the path as it was asked for.
KeyOf(r) == <<req[r].url, Detect(req[r].header)>>
Keys == {url \in Urls : ~ Invalid(url)} \X {Detect(h) : h \in Headers}

NoRequest == [url |-> [prefixed |-> FALSE, components |-> <<>>], header |-> <<>>]

\* What the history of a request speaks about.
Relevant(url) == OneOf(Target(url)) \cup OneOf(IndexOf(Target(url))) \cup OneOf(settings.page)
Lacking(url)  == {p \in Relevant(url) : Status(p) # "ok"}

DirInit ==
    /\ settings \in Settings
    /\ tree \in {t \in [Forms -> Holdings] : \A p \in Forms : t[p] \in MayHold[p]}
    /\ settings.page # NoPage => Status(Plain(settings.page)) = "ok"
    /\ changes = 0
    /\ cache   = [k \in Keys |-> NoResource]
    /\ pc      = [r \in Requests |-> "idle"]
    /\ req     = [r \in Requests |-> NoRequest]
    /\ goal    = [r \in Requests |-> "target"]
    /\ todo    = [r \in Requests |-> <<>>]
    /\ found   = [r \in Requests |-> NoResource]
    /\ result  = [r \in Requests |-> Pending]
    /\ lacked  = [r \in Requests |-> {}]

-----------------------------------------------------------------------------
(* The content type of a resource *)

TypeFor(extension) ==
    IF extension \in DOMAIN KnownTypes THEN KnownTypes[extension] ELSE DefaultType

\* What find_file appends to a path for a coding.
SiblingExtension == [br |-> "br", zstd |-> "zstd", gzip |-> "gz"]

\* MatchedFile::extension: try_path takes it from the path it opened, that of the
\* sibling if it is one; BrotliCache from the path that was asked for.
Extension(res) ==
    IF settings.strategy.kind = "static" /\ res.coding \in Compressed
    THEN SiblingExtension[res.coding]
    ELSE ExtensionOf[res.path[Len(res.path)]]

\* create_entity.
ContentType(res) == TypeFor(Extension(res))

-----------------------------------------------------------------------------
(* ServedDir::get *)

PathOf(r) ==
    CASE goal[r] = "target" -> Target(req[r].url)
      [] goal[r] = "index"  -> IndexOf(Target(req[r].url))
      [] goal[r] = "page"   -> settings.page

\* What get may make of resolve's answer: the error handler sees every error, that
\* with the page too, and returns a resource, the same error or another one.
Handled(res) ==
    IF res.error # "none" /\ settings.handler
    THEN {res, Ok(Fallback), NotFound(Fallback)} \cup {Err(kind) : kind \in ErrorKinds \ {"none"}}
    ELSE {res}

\* resolve returns res, and get hands it to the handler or to its caller.
Return(r, res) ==
    /\ pc' = [pc EXCEPT ![r] = "got"]
    /\ \E handled \in Handled(res) : result' = [result EXCEPT ![r] = handled]
    /\ goal'   = [goal EXCEPT ![r] = "target"]
    /\ todo'   = [todo EXCEPT ![r] = <<>>]
    /\ found'  = [found EXCEPT ![r] = NoResource]
    /\ UNCHANGED <<treeVars, req, lacked>>

\* find_file starts, in the directory, its index.html or the not-found page.
Search(r, which, header) ==
    /\ pc'   = [pc EXCEPT ![r] = "search"]
    /\ goal' = [goal EXCEPT ![r] = which]
    /\ todo' = [todo EXCEPT ![r] = Candidates(settings.strategy, Detect(header))]

\* get is called: resolve strips the prefix and validates the path.
Begin(r, url, header) ==
    /\ pc[r] = "idle"
    /\ req'    = [req EXCEPT ![r] = [url |-> url, header |-> header]]
    /\ IF Invalid(url)
       THEN /\ pc' = [pc EXCEPT ![r] = "got"]
            /\ \E handled \in Handled(Err("invalid_path")) :
                 result' = [result EXCEPT ![r] = handled]
            /\ UNCHANGED <<searchVars, lacked>>
       ELSE /\ lacked' = [lacked EXCEPT ![r] = Lacking(url)]
            /\ IF settings.caching
               THEN pc' = [pc EXCEPT ![r] = "lookup"] /\ UNCHANGED <<goal, todo>>
               ELSE Search(r, "target", header)
            /\ UNCHANGED <<found, result>>
    /\ UNCHANGED <<treeVars, cache>>

Hit(r) ==
    /\ pc[r] = "lookup"
    /\ cache[KeyOf(r)] # NoResource
    /\ Return(r, Ok(cache[KeyOf(r)]))
    /\ UNCHANGED cache

Miss(r) ==
    /\ pc[r] = "lookup"
    /\ cache[KeyOf(r)] = NoResource
    /\ Search(r, "target", req[r].header)
    /\ UNCHANGED <<treeVars, cache, req, found, result, lacked>>

\* The form under trial opens.  BrotliCache may decide against compression.
Open(r) ==
    LET candidate == Head(todo[r]) IN
    /\ pc[r] = "search"
    /\ Status(FormOf(PathOf(r), candidate)) = "ok"
    /\ pc' = [pc EXCEPT ![r] = "create"]
    /\ \E coding \in IF candidate = "runtime" THEN {"br", "identity"} ELSE {candidate} :
         found' = [found EXCEPT ![r] = [path |-> PathOf(r), coding |-> coding]]
    /\ UNCHANGED <<treeVars, cache, req, goal, todo, result, lacked>>

\* Mutant of SkipSibling: the plain file is passed over like a sibling.
SkipAnything(r) ==
    /\ pc[r] = "search"
    /\ Status(FormOf(PathOf(r), Head(todo[r]))) \in {"not_found", "is_directory"}
    /\ todo' = [todo EXCEPT ![r] = Tail(@)]
    /\ UNCHANGED <<treeVars, cache, pc, req, goal, found, result, lacked>>

\* BrotliCache::get ends with a CompressionError: no tempfile, a failed copy, or the
\* file gone after its first open.  No fallback is for that.
CompressionFails(r) ==
    /\ pc[r] = "search" /\ Head(todo[r]) = "runtime"
    /\ Status(FormOf(PathOf(r), "runtime")) = "ok"
    /\ Return(r, Err("io"))
    /\ UNCHANGED cache

\* A sibling that is missing, or is a directory, is passed over.
SkipSibling(r) ==
    /\ pc[r] = "search"
    /\ Head(todo[r]) \in Compressed
    /\ Status(FormOf(PathOf(r), Head(todo[r]))) \in {"not_found", "is_directory"}
    /\ todo' = [todo EXCEPT ![r] = Tail(@)]
    /\ UNCHANGED <<treeVars, cache, pc, req, goal, found, result, lacked>>

\* find_file ends with this error.
Failing(r) ==
    IF pc[r] # "search" THEN "none"
    ELSE LET status == Status(FormOf(PathOf(r), Head(todo[r]))) IN
         IF status = "ok" \/ (Head(todo[r]) \in Compressed /\ status # "io") THEN "none" ELSE status

\* The path is a directory: go on with its index.html.
TryIndex(r) ==
    /\ Failing(r) = "is_directory" /\ goal[r] = "target" /\ settings.appendIndex
    /\ Search(r, "index", req[r].header)
    /\ UNCHANGED <<treeVars, cache, req, found, result, lacked>>

\* Mutant of TryPage: it does not matter what was missing.
TryPageAgain(r) ==
    /\ Failing(r) = "not_found" /\ settings.page # NoPage
    /\ Search(r, "page", req[r].header)
    /\ UNCHANGED <<treeVars, cache, req, found, result, lacked>>

\* The file is missing: go on with the page for missing files.
TryPage(r) ==
    /\ Failing(r) = "not_found" /\ goal[r] = "target" /\ settings.page # NoPage
    /\ Search(r, "page", req[r].header)
    /\ UNCHANGED <<treeVars, cache, req, found, result, lacked>>

\* Any other error ends resolve, those of the second find_file too.
SearchFails(r) ==
    /\ Failing(r) # "none"
    /\ goal[r] = "target" =>
         /\ Failing(r) = "is_directory" => ~ settings.appendIndex
         /\ Failing(r) = "not_found" => settings.page = NoPage
    /\ Return(r, Err(Failing(r)))
    /\ UNCHANGED cache

\* create_entity for a file that was asked for, and its insertion in the cache.
Create(r) ==
    /\ pc[r] = "create" /\ goal[r] # "page"
    /\ cache' = IF settings.caching THEN [cache EXCEPT ![KeyOf(r)] = found[r]] ELSE cache
    /\ Return(r, Ok(found[r]))

\* Mutant of CreatePage: the page is cached as what the URL stands for.
CreatePageCached(r) ==
    /\ pc[r] = "create" /\ goal[r] = "page"
    /\ cache' = IF settings.caching THEN [cache EXCEPT ![KeyOf(r)] = found[r]] ELSE cache
    /\ Return(r, NotFound(found[r]))

\* create_entity for the not-found page, which is an error and is not cached.
CreatePage(r) ==
    /\ pc[r] = "create" /\ goal[r] = "page"
    /\ Return(r, NotFound(found[r]))
    /\ UNCHANGED cache

\* create_entity fails as file_hasher does.  Its error becomes a SerdirError like that
\* of an open: whatever the hasher could not find, the file counts as missing.
CreateFails(r) ==
    /\ pc[r] = "create"
    /\ \E kind \in settings.hashErrors : Return(r, Err(kind))
    /\ UNCHANGED cache

GetStep(r) ==
    \/ Hit(r) \/ Miss(r) \/ Open(r) \/ SkipSibling(r) \/ TryIndex(r) \/ TryPage(r)
    \/ CompressionFails(r) \/ SearchFails(r) \/ Create(r) \/ CreatePage(r) \/ CreateFails(r)

-----------------------------------------------------------------------------
(* The environment *)

\* Something is moved to p, or away from it.
Change(p) ==
    /\ changes < MaxChanges
    /\ changes' = changes + 1
    /\ \E h \in MayHold[p] \ {tree[p]} : tree' = [tree EXCEPT ![p] = h]
    /\ UNCHANGED <<settings, cache, pc, req, searchVars, result>>
    /\ lacked' = [r \in Requests |->
                   IF pc[r] = "idle" \/ Invalid(req[r].url) THEN {}
                   ELSE lacked[r] \cup Lacking(req[r].url)']

\* An entry is evicted or expires.
Evict(k) ==
    /\ cache[k] # NoResource
    /\ cache' = [cache EXCEPT ![k] = NoResource]
    /\ UNCHANGED <<treeVars, pc, req, searchVars, result, lacked>>
=============================================================================
