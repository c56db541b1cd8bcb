# serdir in TLA+

serdir is a Rust library that serves a directory of static files over HTTP:
range and conditional requests, ETags, static and runtime compression, an
in-memory resource cache, Tower and Hyper services. This directory holds a
formal model of it: TLA+ modules translated from the source, TLC runs that
check them on small instances, and TLAPS proofs of their main properties for
all values of the constants. Paths below such as `served_dir.rs` are files of
the crate's source directory; `PROJECT.json` names the lines every definition
stands for.

## 1. The system

### Components

| Component | State | Operations | Interacts with |
|---|---|---|---|
| File tree (`served_dir.rs:121-128`, `lib.rs` `FileInfo`) | files on disk; a `FileInfo` is (path hash, length, mtime) | open, stat; changed from outside | everything below reads it |
| `BrotliCache` (`brotli_cache.rs`) | weighted sieve cache FileInfo -> compressed tempfile | `get` (async, compresses on a blocking thread), `prune_cache` on a full disk | called by `find_file`; concurrent with itself |
| `ResourceCache` (`resource_cache.rs`) | weighted sieve cache (path, accepted encodings) -> resource in memory + insert time | `get` (with expiry sweep), `insert` | called by `ServedDir::resolve` |
| `ServedDir` (`served_dir.rs`) | configuration, `EtagCache`, both caches | `get`, `resolve`, `get_response`, `create_entity`, `calculate_etag`, `validate_path` | called by services and middleware |
| `EtagCache`, tag comparison (`etag.rs`) | sieve cache FileInfo -> Option<ETag> | `any_match`, `none_match`, `weak_eq`, `strong_eq` | `calculate_etag`, `serve` |
| `serve` (`serving.rs`), `parse` (`range.rs`) | none | conditional and range requests to a response | `Resource`, `Body` |
| `Body` (`body.rs`) | one of three streams, a completion hook | `poll_frame`, `size_hint`, `is_end_stream`, drop | polled by hyper; reads `Resource` |
| `Resource` (`resource.rs`), platform reads (`platform.rs`) | an open file or bytes, len, mtime, headers, etag | `get_range`, `read_bytes`, `with_bytes_storage` | read by `Body`, `ResourceCache` |
| Compression negotiation (`compression.rs`) | none | `detect`, `find_file` over sibling files | `BrotliCache` |
| Services and middleware (`integration.rs`) | a `ServedDir`, the inner service | `call` with fall-through | Tower, Hyper |
| Builder, settings, errors | configuration | setters | `ServedDir` |

### What is hard about it

* **The tree changes under the server.** A request stats a path, looks a cache
  up, opens the path again, hashes it, reads it. The documentation promises that
  moving and deleting paths is safe at any time.
* **Three caches keyed by what a version looks like**, not by what it is: Brotli
  files and ETags by (path, length, mtime), whole resources by (path, encodings)
  and age. Every hit relates a state read earlier to a tree that has moved on.
* **Concurrency**: gets of one path compress twice, prune while others insert,
  sweep while others replace what was expired.
* **Failure in the middle**: a full disk while compressing, a file that is gone
  between two opens, short reads, files that change length while they are sent.
* **Clients that keep state**: a copy assembled from ranges and revalidated by
  ETag across deployments is right only if ETags, If-Range and preconditions
  work together.
* **Edges of numbers**: 64-bit range arithmetic, a running byte count in
  multipart bodies, empty files, time limits.

### What makes each part correct

* `BrotliCache`: returns bytes the path held during the call; errors mean what
  they say; a full disk degrades to the original file and by itself fails nothing;
  every call ends.
* `ResourceCache`: bounded staleness; no client gets a coding it did not accept;
  the sweep removes only what expired; stale entries die out.
* `Body`: exactly the announced bytes or an error; nothing after the end; the
  hook runs once, whatever ends the body, be it an error or a drop.
* Serving: a client's copy never mixes versions or codings; a 304 confirms only what is current; a current copy is recognised by its ETag; a part of a response
  is what was asked for.
* Cached resources: whatever the cache holds, bytes land in their place, once, and
  every download gets whole in the end.
* `ServedDir`: an error is an error whatever headers the request has; fallbacks
  (index.html, not-found page, error handler) never turn into something else, and a
  search ends.
* Middleware: each request is answered by the directory or by an inner service that
  was ready, whose permits come back.

## 2. Modules

| Module | Models | Extended or used by |
|---|---|---|
| `FileTree` | the served tree, `FileInfo`, what an open yields | `BrotliCache`, `ResourceCache`, `Download`, `Serving` |
| `GetContract` | abstract: what a call of `BrotliCache::get` promises `find_file` | instanced by `BrotliCache` |
| `BrotliCache` | `BrotliCache::get`, `compress_internal`, `prune_cache`, `wrap_orig` | `BrotliCacheProofs`, `MCBrotliCache` |
| `ResourceCache` | `ResourceCache::get`/`insert` inside `ServedDir::resolve` | `ResourceCacheProofs`, `MCResourceCache` |
| `Resource` | `read_range`, `read_bytes`, `with_bytes_storage` as operators | `Download` |
| `Download` | `resolve` with its cache, composed with resources, bodies and clients that resume | `DownloadProofs`, `MCDownload` |
| `BodyContract` | abstract: what a body promises to the server that sends it | instanced by `Body` |
| `Body` | `Body`, `ExactLenStream`, `MultipartStream`, `get_range` | `BodyProofs`, `MCBody` |
| `Ranges` | `range.rs` as operators, and RFC 7233's reading of a header | `Serving` |
| `Serving` | `get_response`, `calculate_etag` with its cache, `serve`, and clients | `ServingProofs`, `MCServing` |
| `Negotiation` | `CompressionSupport::detect`, the candidates of `find_file`, RFC 7231's reading of a header | `ServedDir` |
| `ServedDir` | `ServedDir::get` and `resolve`, `validate_path`, `find_file` open by open, content types | `Services` |
| `Services` | `TowerService`, `HyperService`, `ServedDirMiddleware`, `get_response` | `ServicesProofs`, `SearchProofs`, `ErrorsProofs` (on top of it), `MCServices` |

The `MC*` modules give constants their values for TLC; the `*Proofs` modules hold
the theorems. Definitions whose comment starts with "Mutant of" are variants with
a plausible bug in one place. No specification uses them: each shows that a
property can fail.

### FileTree

`tree[p]` is the version path `p` holds; versions are numbers and stand for whole
immutable contents, because the documented way to update a site never writes into
a file. A handle once open keeps its version. `Release` moves a new version in,
`Remove` deletes, `Rollback` switches the symlink back to an older version.
`FileInfo(p, v)` is the record of path, length and mtime; `InfoAssumption` says that
two versions of a path differ in length or mtime, which every cache of the
crate relies on. `OpenErrors` are the errors an open may end with: that the path is
missing or a directory, and any other the system reports (permissions, no descriptors
left, a file in the place of a directory). The hash of the path is taken to be injective.

### BrotliCache

Each element of `Calls` is a task inside `get`. The steps are the points between
which others can run: `Stat` (`FileInfo::for_path`), `Hit`/`Miss` (`cache.get`),
`OpenSource` (the second open, on the blocking thread), `Insert` (the copy has ended;
`cache.insert` under the *first* info), `DiskFull`, `Snapshot` and `Retain` (the two
halves of `prune_cache`), `Wrap` (`wrap_orig`, a third open). Every early return is
an action ending in `Finish`. A cache value is the version that was compressed.
The sieve cache's eviction is any choice that respects the capacity. `seen` and
`rolledBack` are history variables that the properties use. `GetContract` has the same
calls without cache, compression and second opens: one `Reply` per call, with any
answer that what the path held during the call allows (`Answers`). Both opens of a
path that `get` makes itself, `for_path` at the start and `wrap_orig` at the end, may end with any
of `OpenErrors`; the contract allows an I/O error for every path, and for none of them
takes it for a missing file.

### ResourceCache

Each element of `Requests` is a task inside `ServedDir::resolve`. Lookup and sweep are
separate steps as in the code, where `cache.get` and `retain` lock shards one after
the other. Time is kept as ages that stop one past what they are compared with,
so `Tick` is unbounded though the state space is finite. `MaxFill` bounds the time
between opening a file and inserting it; nothing in the code enforces it, it is
there to state the staleness bound. `Find` is one step, which is exact for the
strategies `None` and `Static` without siblings that lag behind the original; with
`Cached`, the freshness of what it returns is the subject of `BrotliCache`.

### Resource and Download

A resource keeps the length its file had when it was made, next to an open file or
to bytes in memory; nothing ties that length to what a read returns. `ReadRange` is
the set of counts a read may return: of a file at least one byte and maybe fewer
than asked, or none at all if there is none there (`UnexpectedEof`, `platform.rs:70`);
of bytes all or nothing (`resource.rs:63`). `ReadBytes` is one such read, so `insert`
may cache fewer bytes than `len` announces.

`Download` follows clients through this: `Ask`, then `Hit`, or `Miss`, `Open` and `Insert` or
`SkipInsert`; the answer starts where the client's copy ends if its validator still
matches, and `Read` sends chunk after chunk. A response breaks off (`BodyFails`) when no
byte can be read, and by an I/O error or a lost connection, of which `MaxFaults` are
allowed. The client then resumes under If-Range. Entries expire (`Expire`); a file
may be cut in place (`Cut`), which `resource.rs:171-176` warns against but a handle has
to survive. `size` is the length of a version's file now. ResourceCache has the
cache's key, ages and sweep in detail, Body the turns of a body and Serving the
conditional requests: `Download` keeps of each what the composition needs, and
takes them together for the question none of the three can ask. A client that has
all bytes and asks for none is answered here with an empty rest, where `serve` says
416: it is complete either way.

### Body

`Poll` starts a `poll_frame`; each turn of the stream's loop is a step, and the turn
that makes a frame returns it. `cur` is the current `ExactLenStream`, `state` and
`remaining` are the fields of `MultipartStream`, subtraction wraps at `U64`. An inner
stream yields any number of bytes up to a chunk (short reads), fails at any time,
or holds more or fewer bytes than announced. What follows an error is modelled as the
code has it: the branch marked "Fuse" leaves `cur` in place, so that the next turn goes on
with the failed part. `Rest` is the length
`prepare_multipart` computes with checked additions, unrolled from the end; the
assumption on it is its recurrence. `PollsAfterError` says whether the consumer
polls again after an error, which hyper does not: FALSE in the run, free in the proofs of
`Finality` and `Hook`.

### Ranges and Serving

`Ranges` translates `parse` and `parse_range` on headers that are sequences of specs,
with `last + 1` modulo `U64`. `Asked` is the reading of RFC 7233 for comparison, of one
spec, `AskedByAll` of a header. `Refused` in `ServingProofs` names the two kinds of specs that
the code treats as asking for nothing; no property has them as an exception, they say
how far the finding of `serving_ranges` goes.

In `Serving` a request goes through `Ask` (client), `Open` or `OpenNotFoundPage`
(`resolve`: the file is opened in one of the codings, the ETag is looked up),
`HashFile` (`calculate_etag` on a miss, insert with eviction), `Serve` (`serve`: one
operator, `Response`, with the guards in the order of the code) and `Receive`. The
client follows RFC 7232 and 7233: it keeps the bytes it received with their
origin, and the validators of the response; it resumes with If-Range, revalidates
with If-None-Match and If-Modified-Since, fetches parts under If-Match with or without
If-Unmodified-Since, and sends odd headers. Its dates are those it was handed out:
`LastModified` clamps the file's to the time of the response, any of `Times`. A connection may break after any
byte. Tags may come back weakened by a proxy. What a client may ask depends on its copy
alone (`Requests`), and its next copy on the response and the bytes of it that
arrived (`Arrivals`, `Kept`). `HashedAtEnd` are the codings whose
file handle has its cursor at the end when it is hashed: none in the passing run,
`br` in `serving_etag`, which is what `compress_internal` leaves behind. Left out:
the 413 answer (it needs part headers of about 2^64 bytes).

### Negotiation, ServedDir and Services

`Negotiation` takes a header as the sequence of its items with their weights;
`Detect` is the set of codings `detect` switches on and `Candidates` the sequence of
what `find_file` tries. `Suits` reads RFC 7231 independently of it.

`ServedDir` models a request on its way through `resolve`: `Begin` (prefix, path
validation, start), `Hit`/`Miss` of the resource cache, then one step for every open:
`Open` when it succeeds, `SkipSibling` when a sibling is missing or a directory,
`CompressionFails` when the file is there and compressing it at runtime fails,
`TryIndex` and `TryPage` when the error has a fallback, `SearchFails` when it has
none, and `Create`, `CreatePage`, `CreateFails` for `create_entity` and what follows.
`file_hasher` is the user's function: it may fail with the kinds of errors in
`settings.hashErrors`, and one of kind NotFound makes `create_entity` report a missing file,
as the conversion at `lib.rs:257-266` has it. `Return` includes what `get` does with an error:
an error handler is the user's too, and `Handled` is all it may return, which is a
resource (`Fallback`), the same error, or another one. A full path is a
sequence of names; `Status` says how opening it ends, also below a missing directory
(ENOENT) or below a file (ENOTDIR). `settings` is the configuration; one run
covers several. A place of the tree holds a file, one that cannot be read, a directory or nothing here: versions are the subject
of the other modules. With the strategy "cached" the call of `BrotliCache::get` is one
step with a result that `GetContract` allows, which `BrotliCache` implements. `lacked` is a history
variable: what could not be opened at some time during a request. `ContentType` is
what `create_entity` makes of the extension that `try_path` took from the path it
opened, or `BrotliCache` from the path it was asked for.

`Services` adds the front ends. Over a service a result becomes a response
(`GetResponse`). `Straight` says that what a response reports is what the search found:
there is no handler to decide otherwise, and the hasher reports no missing file. The
properties about what was missing suppose it. In the middleware, `PollReady` takes a permit of the inner service,
`CallLayer` moves the ready handle into the request's future and leaves a clone,
`AnswerOwn` and `PassOn` are the arms of the match, `Finish` and `Cancel` end the
future. The inner service is external: it limits its concurrency as Tower's
ConcurrencyLimit does, and its call may fail (`InnerError`). If its `poll_ready` fails, Tower
discards the service, and no call follows.

## 3. Runs

| Run | Properties | What it shows | States, time |
|---|---|---|---|
| `brotli` | `TypeOK`, `FreshContent`, `ErrorsAreHonest`, `SizeLimitHolds`, `ImplementsContract`, `FullDiskDegrades` | two concurrent gets, three versions and a directory | 840k states, 2 min |
| `brotli_rollback` | `AlwaysFresh` violated | see findings | seconds |
| `resource_cache` | `TypeOK`, `EncodingAccepted`, `BoundedStaleness`, `CleanupSparesFresh`, `EventuallyCurrent` | two requests, two versions, two kinds of client, time | 400k states, 1.5 min |
| `download` | `TypeOK`, `BytesInPlace`, `FailuresHaveACause`, `EventuallyWhole` | two clients of a path in two versions, short reads, a fault, a file that is cut | 390k states, 2 min |
| `body` | `TypeOK`, `LengthKept`, `NothingAfterEnd`, `ImplementsContract`, `EventuallyCompletes` | all kinds of body, three parts | 213 states |
| `serving` | `TypeOK`, `NoMixedVersions`, `RevalidatedIsCurrent`, `CurrentIsRecognised`, `RangesAreHonoured` | one client, two versions, two codings, two clock times, a 404 page | 2.7M states, 2 min |
| `services` | `TypeOK`, `CodingSuits`, `SearchIsHonest`, `SuccessIsWhatWasAsked`, `InnerIsReady`, `InnerGetsTheRest`, `PermitsComeBack`, `SearchShrinks` | two requests, two clients, four configurations, a changing tree | 1.7M states, 3 min |
| `serving_etag`, `serving_missing`, `serving_ranges` | `RevalidatedIsCurrent`, `MissingDoesNotSucceed`, `RangesFollowRfc`, violated | see findings | seconds |
| `services_unmatched`, `services_type` | `UnmatchedIsDelegated`, `PageKeepsItsType`, violated | see findings | seconds |

### Bounds, and why they are enough

* Versions: `brotli` has three, because a stale entry needs an old version, a new one
  that goes in under the old key, and the size limit needs one above it. Versions
  1 and 2 have the same length, so that only the mtime tells them apart. Elsewhere
  two versions and `Rollback` give every order of old and new.
* Calls and requests: two. The shared state is the cache; each step of a call
  reads or writes one entry or sweeps it, and the hazards are pairs: a step
  of one between two steps of the other. The proofs cover any number.
* Capacity 2 of `brotli` and 1 of the ETag cache: below the number of entries there
  are, so that eviction happens; it is a free choice otherwise.
* `ExpireAfter = 1`, `MaxFill = 1`: the smallest values where an entry can be fresh,
  at its limit and expired.
* Download: version 1 takes two chunks and version 2 one byte, so that a read can be
  short within a chunk, at its end and at the end of the file; both fit into the
  cache. One fault and one cut: each can hit any step, and the property that a
  download gets whole supposes that they stop. Two clients: one that fills the
  cache and one that hits what it left.
* Body: a part longer than two chunks, an empty part (`bytes=-0` parses to one), a
  short part; streams one byte short and one long; `U64 = 32` above every length.
* Serving: files of 5 and 2 bytes, so that two single-byte parts are shorter than
  the whole in one coding and not in the other; `U64 = 8`, so that 7 is the last
  position that overflows; two versions within one second, and a clock before and
  after it, so that a Last-Modified is clamped or not. The ranges: two parts with one
  that wraps, one beyond the end, a suffix longer than the small file, and one of zero
  bytes. One client: requests share only the ETag cache, whose content depends on the
  key alone.
* Services: one change of the tree during a run, from every tree there may be at the
  start: a search reads each path once or twice, and one change puts an old and a
  new state between any two opens. One connection and one permit, so that a
  lost permit is noticed at once; the services without a permit run two requests side
  by side, with the resource cache between them. One header accepts all three codings,
  and their siblings may be missing, a directory or unreadable, so that each stands in
  for a better one. The two requests are symmetric, which all properties of the run are too.

`brotli`, `resource_cache`, `download`, `serving` and `services` never stop, and
deadlock is checked.
A body that was dropped is never polled again, so `body` runs without it.

### Fairness

* `ResourceCache`: weak fairness of each request's steps and of time.
* `Download`: weak fairness of each client's steps and of each entry's expiry. Clients
  do not give up; `EventuallyWhole` says what the server owes those that do not. It
  is stated for paths that end up holding one version; nothing else is fair, in
  particular nothing makes an insertion succeed.
* `Body`: weak fairness of the loop's turns (reads are blocking and return) and of
  the consumer, which polls on or drops the body.
* `Serving`, `Services` and `BrotliCache` state safety only. That a search ends is an action
  property of `Services`: each of its steps brings it closer to its end (`SearchShrinks`). So is
  it of `BrotliCache` that a call does (`FullDiskDegrades`), and no step of one waits for another
  call: that tokio runs its tasks and blocking threads is all it needs. Unlike a
  liveness property, both can be proved.

## 4. Findings

1. `brotli_rollback`: an entry is keyed by the info of a first open and filled
   from a second one. If a deployment comes in between, the new bytes are cached
   under the old key. Harmless while the path moves forward (`FreshContent`
   is proved for paths never rolled back), but when the symlink is switched back, the
   entry is hit and the newer version is served, contrary to `served_dir.rs:121-128`.
2. `serving_etag`: the ETag of a runtime-compressed file is the hash of no bytes,
   as the hasher reads from the end of the tempfile. All such files have one ETag,
   so an outdated copy is confirmed with 304. It goes no further than that: a copy is
   wrongly confirmed or put together only in codings hashed from their end (theorems
   `Confirmed`, `MixedOnly`).
3. `serving_missing`: with a not-found page, a range request for a missing file is
   answered 206 with a part of that page. Without a Range header a missing file
   never succeeds (`PageSucceeds`).
4. `serving_ranges`: `range.rs:41-42` says that the Range header is parsed as described in RFC
   7233, section 2.1. There a suffix of zero bytes satisfies nothing; it is answered here
   with a part of no bytes (whose Content-Range ends before it starts). A suffix at least
   as long as the file means the whole file; it is answered 416 (`range.rs:87`). And `last + 1`
   wraps for 2^64 - 1 (98-101). It goes no further: a 206 holds what all other specs
   ask for, and a 416 means that those ask for nothing (`Refusals`).
5. `services_unmatched`: for a path below a file (`/a.html/b`) the open fails with
   ENOTDIR, which `try_path` does not count as missing: the middleware answers 500
   instead of passing the request to the inner service, the service 500 instead of 404. As long
   as every file can be read and hashed and no handler decides, there is no 500 but for
   such paths, and under the cached strategy for a compression that failed (`Faults`).
6. `services_type`: `served_dir.rs:634-638` promises the page for 404 errors, with the type of
   its extension for all of them. Under static compression a client that accepts Brotli
   gets `404.html.br` with the content type of the extension br (none is known: the
   default) instead of that of html, and a directory without index.html gets a plain 404
   without the page (`served_dir.rs:239-242`). Only siblings lose the type (`PageType`), and
   as long as neither a handler nor a hasher that reports missing files decides, only
   directories lack the page (`Page`). What holds for the type of the
   page holds for every file with a sibling.

Met while reading, without a run of its own:

* The branch of `MultipartStream` marked "Fuse" (`body.rs:361-366`) leaves `cur` in place: a poll
  after an error may yield bytes or wrap `remaining`. hyper does not poll then. Nothing is
  claimed for a consumer that does, but that the hook still runs once (`Hook`) and that
  nothing follows the end of a body (`Finality`).
* If-Unmodified-Since is evaluated even if If-Match matched (`serving.rs:35-44`), where RFC 7232
  has it ignored. As Last-Modified is clamped to the time of the response (144-147), the
  client of a file dated in the future sends back an earlier date, and is refused with 412
  though its tag is current. `CurrentIsRecognised` is about tags without that date.
* `read_bytes` makes one read, which may be short, though `resource.rs:278` says it returns
  the complete content: responses from such an entry break off until it expires.
* Two docs disagree on the order of codings: `served_dir.rs:181-183` names zstd, br, gz,
  `compression.rs:58-61` and 501-527 have br, zstd, gz. `Better`, by which `SearchIsHonest` ranks,
  says only what both say: either before gzip, and the plain file last.
* `error_handler` is called with the error that carries the not-found page (`served_dir.rs:201-212`)
  and may drop the page, though 508-510 and 640-642 have the page used first and the
  handler for all other errors.
* A `file_hasher` that fails with NotFound makes a file that was opened count as missing, 404
  or passed on (`served_dir.rs:308`, `lib.rs:257-266`), though 498 says its error is propagated.
* `compression.rs:224` says that without `supported_extensions` all extensions are compressed,
  `brotli_cache.rs:66-69` takes a default list.

## 5. Proofs

All theorems hold for every value of the constants that satisfies the named
assumptions (`TreeAssumption`, `InfoAssumption`, `CacheAssumption`, `ResourceAssumption`,
`ChunkAssumption`, `DownloadAssumption`, `BodyAssumption`, `LengthAssumption`, `WidthAssumption`,
`ServingAssumption`, `ServedDirAssumption`, `NamesAssumption`, `ServicesAssumption`), which TLC
evaluates in the runs. Every invariant and action property of a passing run is proved.

* `BrotliCacheProofs`: `TypeCorrect`, `Freshness` (`FreshContent`), `Honesty`
  (`ErrorsAreHonest`). `FreshContent` is not inductive: it has to be known
  where a call's bytes come from before it returns. `IInv` says that the info a
  running call read belongs to a version it has seen; that the version it
  opened for compression was seen too; and, the heart of it, that the entry under
  the info of version v holds v or a later version. With the path never rolled
  back, what was seen and what is cached then meet: a hit on the info of the
  version the path held at `Stat` can only hold that version or one released by
  now, during the call. `SizeLimit` (`SizeLimitHolds`) follows the limit along the same
  way: only a call that saw a version within it gets past `Stat`, to the cache and to
  compression, whatever version the bytes it finds there are of. `Implementation`: every
  return of `get` is a `Reply` of `GetContract`, every other step hides behind the
  status "running". What it adds to the invariant is that only supported paths get
  past the first test (`SupportedInv`), and that no bytes in the cache are newer than the
  newest version of their path, rolled back or not (`HeldInv`): after a rollback a hit may
  hold any version the path ever had, and no other bytes. `Degradation`
  (`FullDiskDegrades`): a call takes at most seven steps of its own, and from a full disk on
  they lead to the original file or to the error of opening that one; it needs to know
  that only a supported path gets as far as compression (`OpenedInv`).
* `ResourceCacheProofs`: `TypeCorrect`, `Negotiated`, `Staleness`, `Sparing`. The
  invariant relates three clocks: an entry's age, a request's `openAge`, and the
  time since the path last held the version in question (`gone`), which is at
  most the age of the entry plus `MaxFill`.
* `DownloadProofs`: `TypeCorrect`, `Placement` (`BytesInPlace`), `Causes` (`FailuresHaveACause`).
  A body starts where its client's copy ends and a read returns no more than the
  rest of its chunk, so position and copy stay equal and within the length (`PlaceInv`).
  That an entry is short is a premise of nothing: it only ends responses. `Progress`
  (`CopiesOnlyGrow`) adds that no step of anyone takes bytes from a client's copy, unless
  it starts again for another version or length.
* `BodyProofs`, for a consumer that stops at an error (`StopsAtError`): `TypeCorrect`,
  `ExactLength`, and `Implementation`: every step of `Body` is a step of
  `BodyContract` or leaves its view alone. The invariant says what `remaining` is in
  every state of the multipart loop: `Rest` of the next part, plus what the current
  one still owes. No subtraction wraps as long as that holds. `Hook`, that the
  completion hook runs exactly once and for good, and `Finality` (`NothingAfterEnd`) need no
  premise about the consumer: the invariant is proved as long as the body is open,
  and from its end on nothing is left to give (`OverInv`), whatever the stream did before.
* `ServingProofs`: `TypeCorrect`; `Ranged` (`RangesAreHonoured`) from lemmas about `ParseRange` for
  every width, length and spec: each part holds exactly the bytes that RFC 7233 has its
  spec ask for; `Refusals`, which specs of a header may be missing from the parts;
  `MixedOnly` and `Confirmed`, which say of any
  codings, hashed as they may be, that a copy is put together or confirmed only from
  what the hash cannot tell apart (`Alike`: the same bytes, or two codings hashed from
  their end). `OneVersion` and `Revalidated` are these under the premise
  `HashedAtEnd = {}`, without which the run `serving_etag` shows the latter false;
  `Recognised` (`CurrentIsRecognised`) needs no premise about hashing or dates. The invariant says that a cached ETag is the hash of
  the version its key stands for (`EtagsRight`; here `InfoAssumption` is used), and that a
  copy's tag is the hash of all its bytes, on through a request that carries that
  tag, to the answer it gets (`Progress`). `PageSucceeds`: a missing file is answered with
  a success only as a part.
* `ServicesProofs`: `Readiness` (`InnerIsReady`), `Backpressure` (`PermitsComeBack`) and `Success`
  (`SuccessIsWhatWasAsked`). A future of the middleware carries a ready handle from its
  call to its end; permits are counted over the finite sets of connections and
  requests. For `Success` the invariant follows a file from where it is found to
  where it is answered: what is found lies at the goal of its search, what
  is cached under a URL or returned for it without an error stands for that URL
  (`AskedInv`). The not-found page has a goal of its own and leaves as an error.
* `SearchProofs`: `TypeCorrect`, `Coding` (`CodingSuits`), `Honest` (`SearchIsHonest`), `Page`
  (`OnlyDirectoriesLackThePage`), `Rest` (`InnerGetsTheRest`), `Shrinks` (`SearchShrinks`). Everything rests on
  one invariant, `SearchInv`, of what a request knows at each point of its search: what
  is missing now is in `lacked`; why a second search was begun; that the
  candidates left are a tail of the list, and that those passed over were lacking;
  the same of what was found and returned, the latter if it is the search that decides
  (`Straight`). As `lacked` only grows while the tree
  changes, what is known stays true (`StaysTrue`), which is the whole argument for
  every step of others and of the environment. `Coding` also needs that the maximum
  in `Weight` is attained, which a well-founded induction of the library gives.
  `DetectIsExact` is the converse too, for headers that parse, list nothing twice and
  speak for identity by its name or not at all: `detect` switches on what suits the
  client and nothing else.
* `ErrorsProofs`, on top of `SearchInv`: `PageType` and `Faults`, how far the findings of
  `services_type` and `services_unmatched` go. Its invariant, `ErrorsInv`, carries the
  cause of an error from where it arises to the response: a missing file has the
  not-found page or nothing to show, and an open that failed otherwise, with
  everything readable and no handler, was one below a file or, under the cached strategy for a client
  that accepts Brotli, a compression.

Only model-checked: the liveness properties `EventuallyCurrent`, `EventuallyWhole` and
`EventuallyCompletes` (fairness is out of the prover's reach; `Staleness`, `Progress` and `Hook` are
the safety beside them), and what the
violation runs show. Not proved: what `Target` makes of a URL beyond what the lemmas
need, as it filters a sequence and none of the provers knows `SelectSeq`.

## 6. Not modelled, and the plan

Not modelled: the text of headers and paths, Brotli compression itself, the sieve
cache's eviction order, the Windows read path, builder setters.

Open, in this order:

1. `ServedDir` over `FileTree`, so that siblings that lag behind the original
   and the ETags of a search's forms come into one model.
2. `parse_qvalue` on the text of a weight: `u16::from_str` takes a sign, which the grammar
   quoted at `compression.rs:263-267` does not.
3. `read_range` on Windows, which reads through other calls, and the flags of `open_file`.
