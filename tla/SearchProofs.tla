---------------------------- MODULE SearchProofs ----------------------------
(***************************************************************************)
(* Proofs about the searches of Services, for any URLs, headers, settings  *)
(* and trees that change at any time: which form of which file a request   *)
(* ends with.                                                              *)
(***************************************************************************)
EXTENDS ServicesProofs, WellFoundedInduction

-----------------------------------------------------------------------------
(* Negotiation *)

LEMMA Least ==
    ASSUME NEW T \in SUBSET Nat, T # {}
    PROVE  \E x \in T : \A y \in T : x <= y
<1> DEFINE R == {ss \in Nat \X Nat : ss[1] < ss[2]}
<1>1. IsWellFoundedOn(R, Nat)
  BY NatLessThanWellFounded DEF OpToRel
<1> HIDE DEF R
<1>2. PICK x \in T : \A y \in T : ~ (<<y, x>> \in R)
  BY <1>1, WFMin
<1>3. \A y \in T : ~ (y < x)
  BY <1>2 DEF R
<1> QED BY <1>3

LEMMA MaxIsMember ==
    ASSUME NEW n \in Nat, NEW T \in SUBSET (1 .. n), T # {}
    PROVE  Sets!Max(T) \in T
<1> DEFINE U == {n - t : t \in T}
<1>1. U \in SUBSET Nat OBVIOUS
<1>2. U # {} OBVIOUS
<1>3. PICK u \in U : \A y \in U : u <= y
  <2> HIDE DEF U
  <2> QED BY <1>1, <1>2, Least
<1>4. PICK x \in T : u = n - x BY <1>3
<1>5. \A y \in T : n - y \in U OBVIOUS
<1>6. \A y \in T : n - x <= n - y BY <1>3, <1>4, <1>5
<1>7. \A y \in T : x >= y BY <1>6
<1> QED BY <1>7 DEF Sets!Max

HeaderSet == Seq([coding : Named \cup {"other"}, weight : Weights])

\* The weight of a coding is that of one of the items that speak for it.
LEMMA WeightIsListed ==
    ASSUME NEW header \in HeaderSet, NEW coding
    PROVE  \/ \E i \in At(header, coding) : Weight(header, coding) = header[i].weight
           \/ /\ At(header, coding) = {}
              /\ \/ \E i \in At(header, "*") : Weight(header, coding) = header[i].weight
                 \/ Weight(header, coding) = 0
<1>1. \A name : At(header, name) \in SUBSET (1 .. Len(header)) /\ Len(header) \in Nat
  BY DEF At, HeaderSet
<1>2. At(header, coding) # {} => Sets!Max(At(header, coding)) \in At(header, coding)
  BY <1>1, MaxIsMember
<1>3. At(header, "*") # {} => Sets!Max(At(header, "*")) \in At(header, "*")
  BY <1>1, MaxIsMember
<1> QED BY <1>2, <1>3 DEF Weight

LEMMA WeightTyped ==
    ASSUME NEW header \in HeaderSet
    PROVE  \A i \in DOMAIN header : header[i].weight \in Int
<1> DEFINE S == [coding : Named \cup {"other"}, weight : Weights]
<1>1. \A e \in S : e.weight \in Weights OBVIOUS
<1>2. header \in Seq(S) BY DEF HeaderSet
<1> HIDE DEF S
<1>3. \A i \in DOMAIN header : header[i] \in S BY <1>2
<1> QED BY <1>1, <1>3 DEF Weights, Garbled

\* The codings that are switched on suit the client.
LEMMA DetectSuits ==
    ASSUME NEW header \in HeaderSet, NEW c \in Detect(header)
    PROVE  Suits(header, c) /\ c \in Compressed
<1>1. c \in Compressed /\ Weight(header, c) > 0
      /\ Weight(header, c) >= Weight(header, "identity")
  BY DEF Detect
<1>2. \A i \in DOMAIN header : header[i].weight \in Int
  BY WeightTyped
<1>3. PICK i \in DOMAIN header :
        /\ Weight(header, c) = header[i].weight
        /\ header[i].coding = c \/ (header[i].coding = "*" /\ ~ Lists(header, c))
  BY <1>1, WeightIsListed DEF At, Lists
<1>4. Offers(header, c)
  BY <1>1, <1>3 DEF Offers
<1>5. ~ PrefersPlain(header, c)
  <2> SUFFICES ASSUME PrefersPlain(header, c) PROVE FALSE OBVIOUS
  <2>1. PICK j \in At(header, "identity") : Weight(header, "identity") = header[j].weight
    BY WeightIsListed DEF PrefersPlain, Lists
  <2>2. header[i].weight < header[j].weight
    BY <1>3, <2>1 DEF PrefersPlain
  <2>3. j \in DOMAIN header BY <2>1 DEF At
  <2> QED BY <1>1, <1>2, <1>3, <2>1, <2>2, <2>3
<1> QED BY <1>1, <1>4, <1>5 DEF Suits

\* A header whose weights all parse, that lists nothing twice, and that speaks for
\* identity by its name or not at all.
Plainly(header) ==
    /\ \A i \in DOMAIN header : header[i].weight # Garbled
    /\ \A i, j \in DOMAIN header :
         header[i].coding = header[j].coding /\ header[i].coding \in Named => i = j
    /\ Lists(header, "identity") \/ ~ Lists(header, "*")

\* For such a header detect switches on every coding that suits the client as RFC 7231
\* has it, and no other: it neither sends what was not asked for nor sends a plain
\* file to a client that prefers it compressed.
THEOREM DetectIsExact ==
    ASSUME NEW header \in HeaderSet, Plainly(header)
    PROVE  Detect(header) = {c \in Compressed : Suits(header, c)}
<1>1. ASSUME NEW c \in Compressed, Suits(header, c)
      PROVE  c \in Detect(header)
  <2>1. Offers(header, c) /\ ~ PrefersPlain(header, c)
    BY <1>1 DEF Suits, Compressed
  <2>2. PICK i \in DOMAIN header :
          /\ header[i].coding = c \/ (header[i].coding = "*" /\ ~ Lists(header, c))
          /\ header[i].weight > 0
    BY <2>1 DEF Offers
  <2>3. \A j \in DOMAIN header :
          header[j].coding = c \/ (header[j].coding = "*" /\ ~ Lists(header, c)) => j = i
    BY <2>2 DEF Plainly, Lists, At, Named, Codings
  <2>4. Weight(header, c) = header[i].weight
    <3>1. CASE Lists(header, c)
      <4>1. PICK j \in At(header, c) : Weight(header, c) = header[j].weight
        BY <3>1, WeightIsListed DEF Lists
      <4> QED BY <2>3, <4>1 DEF At
    <3>2. CASE ~ Lists(header, c)
      <4>1. i \in At(header, "*") BY <2>2, <3>2 DEF Lists, At
      <4>2. \A j \in At(header, "*") : j = i BY <2>3, <3>2 DEF At
      <4>3. At(header, "*") = {i} BY <4>1, <4>2
      <4>4. i \in Nat /\ Sets!Max({i}) = i
        BY DEF HeaderSet, Sets!Max
      <4> QED BY <3>2, <4>3, <4>4 DEF Weight, Lists
    <3> QED BY <3>1, <3>2
  <2>5. Weight(header, c) >= Weight(header, "identity")
    <3>1. CASE Lists(header, "identity")
      <4>1. PICK j \in At(header, "identity") : Weight(header, "identity") = header[j].weight
        BY <3>1, WeightIsListed DEF Lists
      <4>2. \A k \in At(header, "identity") : k = j
        BY <4>1 DEF Plainly, At, Named, Codings
      <4>3. ~ (header[i].weight < header[j].weight)
        BY <2>1, <2>3, <3>1, <4>2 DEF PrefersPlain
      <4>4. header[i].weight \in Int /\ header[j].weight \in Int
        BY <4>1, WeightTyped DEF At
      <4> QED BY <2>4, <4>1, <4>3, <4>4
    <3>2. CASE ~ Lists(header, "identity")
      <4>1. Weight(header, "identity") = 0
        BY <3>2 DEF Plainly, Lists, Weight
      <4>2. header[i].weight \in Int BY WeightTyped
      <4> QED BY <2>2, <2>4, <4>1, <4>2
    <3> QED BY <3>1, <3>2
  <2> QED BY <2>2, <2>4, <2>5 DEF Detect, Plainly
<1> QED BY <1>1, DetectSuits DEF Detect

-----------------------------------------------------------------------------
(* Candidates *)

Names == Codings \cup {"runtime"}

\* What is left to try: only the last candidate is no sibling, and each suits.
Shape(t, accepted) ==
    /\ t \in Seq(Names) /\ Len(t) \in 1 .. 4
    /\ t[Len(t)] \notin Compressed
    /\ \A i \in 1 .. Len(t) :
         /\ t[i] \in accepted \cup {"identity", "runtime"}
         /\ t[i] = "runtime" => "br" \in accepted

Beats(c, d) == <<c, d>> \in Better

\* The best comes first.
Ordered(t) ==
    \A i \in 1 .. Len(t) :
        t[i] # "runtime" /\ \A j \in 1 .. Len(t) : i < j => ~ Beats(t[j], t[i])

\* These codings are all left.
Covers(t, wanted) == \A c \in wanted : \E i \in 1 .. Len(t) : t[i] = c

LEMMA CandidatesShape ==
    ASSUME NEW strategy \in Strategies, NEW accepted \in SUBSET Compressed
    PROVE  /\ Shape(Candidates(strategy, accepted), accepted)
           /\ strategy.kind # "cached" => Ordered(Candidates(strategy, accepted))
           /\ strategy.kind = "static" =>
                Covers(Candidates(strategy, accepted), accepted \cap strategy.codings)
<1> DEFINE wanted == accepted \cap strategy.codings
<1>1. CASE strategy.kind = "none"
  <2>1. Candidates(strategy, accepted) = <<"identity">> BY <1>1 DEF Candidates
  <2>2. Ordered(<<"identity">>) BY DEF Ordered
  <2> QED BY <1>1, <2>1, <2>2 DEF Shape, Names, Codings, Compressed
<1>2. CASE strategy.kind = "cached"
  <2>1. Candidates(strategy, accepted) =
          IF "br" \in accepted THEN <<"runtime">> ELSE <<"identity">>
    BY <1>2 DEF Candidates
  <2>2. CASE "br" \in accepted
    <3>1. Candidates(strategy, accepted) = <<"runtime">> BY <2>1, <2>2
    <3> QED BY <1>2, <2>2, <3>1 DEF Shape, Names, Codings, Compressed
  <2>3. CASE "br" \notin accepted
    <3>1. Candidates(strategy, accepted) = <<"identity">> BY <2>1, <2>3
    <3> QED BY <1>2, <3>1 DEF Shape, Names, Codings, Compressed
  <2> QED BY <2>2, <2>3
<1>3. CASE strategy.kind = "static"
  <2> DEFINE t == Candidates(strategy, accepted)
  <2>1. t = (IF "br" \in wanted THEN <<"br">> ELSE << >>)
              \o (IF "zstd" \in wanted THEN <<"zstd">> ELSE << >>)
              \o (IF "gzip" \in wanted THEN <<"gzip">> ELSE << >>) \o <<"identity">>
    BY <1>3 DEF Candidates, SiblingOrder
  <2>2. wanted \subseteq accepted /\ wanted \subseteq {"br", "zstd", "gzip"}
    BY DEF Compressed
  <2>3. /\ ~ Beats("zstd", "br") /\ ~ Beats("gzip", "br") /\ ~ Beats("identity", "br")
        /\ ~ Beats("gzip", "zstd") /\ ~ Beats("identity", "zstd")
        /\ ~ Beats("identity", "gzip")
    BY DEF Beats, Better, Compressed
  <2> HIDE DEF wanted, t
  <2>4. CASE "br" \in wanted /\ "zstd" \in wanted /\ "gzip" \in wanted
    <3>1. t = <<"br">> \o <<"zstd">> \o <<"gzip">> \o <<"identity">> BY <2>1, <2>4
    <3>2. t \in Seq(Names) /\ Len(t) = 4 /\ t[1] = "br" /\ t[2] = "zstd" /\ t[3] = "gzip" /\ t[4] = "identity"
      BY <3>1 DEF Names, Codings, Compressed
    <3>3. Shape(t, accepted)
      BY <2>2, <2>4, <3>2 DEF Shape, Compressed
    <3>4. Ordered(t)
      BY <2>3, <3>2 DEF Ordered
    <3>5. Covers(t, wanted)
      BY <2>2, <2>4, <3>2 DEF Covers
    <3> QED BY <3>3, <3>4, <3>5 DEF t, wanted
  <2>5. CASE "br" \in wanted /\ "zstd" \in wanted /\ "gzip" \notin wanted
    <3>1. t = <<"br">> \o <<"zstd">> \o << >> \o <<"identity">> BY <2>1, <2>5
    <3>2. t \in Seq(Names) /\ Len(t) = 3 /\ t[1] = "br" /\ t[2] = "zstd" /\ t[3] = "identity"
      BY <3>1 DEF Names, Codings, Compressed
    <3>3. Shape(t, accepted)
      BY <2>2, <2>5, <3>2 DEF Shape, Compressed
    <3>4. Ordered(t)
      BY <2>3, <3>2 DEF Ordered
    <3>5. Covers(t, wanted)
      BY <2>2, <2>5, <3>2 DEF Covers
    <3> QED BY <3>3, <3>4, <3>5 DEF t, wanted
  <2>6. CASE "br" \in wanted /\ "zstd" \notin wanted /\ "gzip" \in wanted
    <3>1. t = <<"br">> \o << >> \o <<"gzip">> \o <<"identity">> BY <2>1, <2>6
    <3>2. t \in Seq(Names) /\ Len(t) = 3 /\ t[1] = "br" /\ t[2] = "gzip" /\ t[3] = "identity"
      BY <3>1 DEF Names, Codings, Compressed
    <3>3. Shape(t, accepted)
      BY <2>2, <2>6, <3>2 DEF Shape, Compressed
    <3>4. Ordered(t)
      BY <2>3, <3>2 DEF Ordered
    <3>5. Covers(t, wanted)
      BY <2>2, <2>6, <3>2 DEF Covers
    <3> QED BY <3>3, <3>4, <3>5 DEF t, wanted
  <2>7. CASE "br" \in wanted /\ "zstd" \notin wanted /\ "gzip" \notin wanted
    <3>1. t = <<"br">> \o << >> \o << >> \o <<"identity">> BY <2>1, <2>7
    <3>2. t \in Seq(Names) /\ Len(t) = 2 /\ t[1] = "br" /\ t[2] = "identity"
      BY <3>1 DEF Names, Codings, Compressed
    <3>3. Shape(t, accepted)
      BY <2>2, <2>7, <3>2 DEF Shape, Compressed
    <3>4. Ordered(t)
      BY <2>3, <3>2 DEF Ordered
    <3>5. Covers(t, wanted)
      BY <2>2, <2>7, <3>2 DEF Covers
    <3> QED BY <3>3, <3>4, <3>5 DEF t, wanted
  <2>8. CASE "br" \notin wanted /\ "zstd" \in wanted /\ "gzip" \in wanted
    <3>1. t = << >> \o <<"zstd">> \o <<"gzip">> \o <<"identity">> BY <2>1, <2>8
    <3>2. t \in Seq(Names) /\ Len(t) = 3 /\ t[1] = "zstd" /\ t[2] = "gzip" /\ t[3] = "identity"
      BY <3>1 DEF Names, Codings, Compressed
    <3>3. Shape(t, accepted)
      BY <2>2, <2>8, <3>2 DEF Shape, Compressed
    <3>4. Ordered(t)
      BY <2>3, <3>2 DEF Ordered
    <3>5. Covers(t, wanted)
      BY <2>2, <2>8, <3>2 DEF Covers
    <3> QED BY <3>3, <3>4, <3>5 DEF t, wanted
  <2>9. CASE "br" \notin wanted /\ "zstd" \in wanted /\ "gzip" \notin wanted
    <3>1. t = << >> \o <<"zstd">> \o << >> \o <<"identity">> BY <2>1, <2>9
    <3>2. t \in Seq(Names) /\ Len(t) = 2 /\ t[1] = "zstd" /\ t[2] = "identity"
      BY <3>1 DEF Names, Codings, Compressed
    <3>3. Shape(t, accepted)
      BY <2>2, <2>9, <3>2 DEF Shape, Compressed
    <3>4. Ordered(t)
      BY <2>3, <3>2 DEF Ordered
    <3>5. Covers(t, wanted)
      BY <2>2, <2>9, <3>2 DEF Covers
    <3> QED BY <3>3, <3>4, <3>5 DEF t, wanted
  <2>10. CASE "br" \notin wanted /\ "zstd" \notin wanted /\ "gzip" \in wanted
    <3>1. t = << >> \o << >> \o <<"gzip">> \o <<"identity">> BY <2>1, <2>10
    <3>2. t \in Seq(Names) /\ Len(t) = 2 /\ t[1] = "gzip" /\ t[2] = "identity"
      BY <3>1 DEF Names, Codings, Compressed
    <3>3. Shape(t, accepted)
      BY <2>2, <2>10, <3>2 DEF Shape, Compressed
    <3>4. Ordered(t)
      BY <2>3, <3>2 DEF Ordered
    <3>5. Covers(t, wanted)
      BY <2>2, <2>10, <3>2 DEF Covers
    <3> QED BY <3>3, <3>4, <3>5 DEF t, wanted
  <2>11. CASE "br" \notin wanted /\ "zstd" \notin wanted /\ "gzip" \notin wanted
    <3>1. t = << >> \o << >> \o << >> \o <<"identity">> BY <2>1, <2>11
    <3>2. t \in Seq(Names) /\ Len(t) = 1 /\ t[1] = "identity"
      BY <3>1 DEF Names, Codings, Compressed
    <3>3. Shape(t, accepted)
      BY <2>2, <2>11, <3>2 DEF Shape, Compressed
    <3>4. Ordered(t)
      BY <2>3, <3>2 DEF Ordered
    <3>5. Covers(t, wanted)
      BY <2>2, <2>11, <3>2 DEF Covers
    <3> QED BY <3>3, <3>4, <3>5 DEF t, wanted
  <2> QED BY <2>4, <2>5, <2>6, <2>7, <2>8, <2>9, <2>10, <2>11
<1> QED BY <1>1, <1>2, <1>3 DEF Strategies

\* After a sibling that was passed over, as much is left as before but one.
LEMMA TailShape ==
    ASSUME NEW accepted \in SUBSET Compressed, NEW t, Shape(t, accepted), Head(t) \in Compressed
    PROVE  /\ Shape(Tail(t), accepted) /\ Len(Tail(t)) = Len(t) - 1
           /\ Ordered(t) => Ordered(Tail(t))
           /\ \A wanted : Covers(t, wanted) => Covers(Tail(t), wanted \ {Head(t)})
<1>1. t \in Seq(Names) /\ Len(t) \in 1 .. 4 /\ t # << >> BY DEF Shape
<1>2. Len(t) # 1 BY <1>1 DEF Shape
<1>3. Tail(t) \in Seq(Names) /\ Len(Tail(t)) = Len(t) - 1 /\ Head(t) = t[1]
  BY <1>1
<1>4. \A i \in 1 .. Len(t) - 1 : Tail(t)[i] = t[i + 1]
  BY <1>1
<1>5. Shape(Tail(t), accepted)
  BY <1>1, <1>2, <1>3, <1>4 DEF Shape
<1>6. Ordered(t) => Ordered(Tail(t))
  BY <1>1, <1>3, <1>4 DEF Ordered
<1>7. ASSUME NEW i \in 1 .. Len(t), t[i] # Head(t)
      PROVE  \E j \in 1 .. Len(Tail(t)) : Tail(t)[j] = t[i]
  <2>1. i # 1 /\ i \in 1 .. Len(t) /\ Len(t) \in Nat BY <1>1, <1>3, <1>7
  <2>2. i - 1 \in 1 .. Len(t) - 1 /\ (i - 1) + 1 = i BY <2>1
  <2>3. Tail(t)[i - 1] = t[i] BY <1>4, <2>2
  <2> QED BY <1>3, <2>2, <2>3
<1> QED BY <1>3, <1>5, <1>6, <1>7 DEF Covers

-----------------------------------------------------------------------------
(* The invariant *)

Asks        == [url : Urls, header : Headers]
Accepted(r) == Detect(req[r].header)
Wanted(r)   == Accepted(r) \cap settings.strategy.codings
Asked(r)    == Plain(Target(req[r].url))
IsStatic    == settings.strategy.kind = "static"
IsCached    == settings.strategy.kind = "cached"
Paged       == settings.page # NoPage
Directories == {Plain(<< >>)} \cup {p \in Forms : "directory" \in MayHold[p]}

\* The types, and what is cached suits the codings of its key.
Types ==
    /\ settings \in Settings
    /\ tree \in [Forms -> Holdings] /\ \A p \in Forms : tree[p] \in MayHold[p]
    /\ changes \in 0 .. MaxChanges
    /\ cache \in [Keys -> Resources \cup {NoResource}]
    /\ \A k \in Keys : cache[k].coding \in k[2] \cup {"identity"}
    /\ pc \in [Requests -> PcValues]
    /\ req \in [Requests -> Asks \cup {NoRequest}]
    /\ goal \in [Requests -> {"target", "index", "page"}]
    /\ IsMap(todo)
    /\ found \in [Requests -> Resources \cup {NoResource}]
    /\ result \in [Requests -> Results]
    /\ lacked \in [Requests -> SUBSET Forms]
    /\ IsMap(answer)

\* A second search has its reason.
Purpose(r) ==
    goal[r] # "target" =>
        /\ Lacked(r, Asked(r))
        /\ goal[r] = "index" => Asked(r) \in Directories

\* The siblings that were there all the time are still to be tried.
Present(r) == {c \in Wanted(r) : ~ Lacked(r, <<PathOf(r), c>>)}
Trying(r) ==
    /\ Shape(todo[r], Accepted(r))
    /\ ~ IsCached => Ordered(todo[r])
    /\ IsStatic => Covers(todo[r], Present(r))

\* No better sibling than this one was there all the time.
BestOf(r, res) ==
    \A c \in Wanted(r) : Beats(c, res.coding) => Lacked(r, <<res.path, c>>)

Opened(r) ==
    /\ found[r] \in Resources
    /\ found[r].path = PathOf(r)
    /\ found[r].coding \in Accepted(r) \cup {"identity"}
    /\ IsStatic => BestOf(r, found[r])

\* A 404 without the page has its reason.
Pageless(r) == Lacked(r, Plain(settings.page)) \/ Asked(r) \in Directories

Right(r, res) ==
    /\ res.resource.coding \in Accepted(r) \cup {"identity"}
    /\ ~ settings.caching /\ res.resource \in Resources =>
         /\ IsStatic => BestOf(r, res.resource)
         /\ res.resource.path # Target(req[r].url) => Lacked(r, Asked(r))
    /\ Straight /\ res.error \in {"not_found", "is_directory"} =>
         /\ Lacked(r, Asked(r))
         /\ Paged /\ (res.error = "is_directory" \/ res.resource = NoResource) => Pageless(r)
    /\ Straight /\ res.error = "invalid_path" => Invalid(req[r].url)

\* The history of a request has the forms that were missing while it was under way.
History(r) ==
    /\ pc[r] # "idle" => req[r] \in Asks
    /\ pc[r] = "idle" \/ Invalid(req[r].url) => lacked[r] = {}
    /\ pc[r] # "idle" /\ ~ Invalid(req[r].url) => Lacking(req[r].url) \subseteq lacked[r]

Progress(r) ==
    /\ History(r)
    /\ pc[r] = "lookup" => settings.caching
    /\ pc[r] \in {"search", "create"} => Purpose(r)
    /\ pc[r] = "search" => Trying(r)
    /\ pc[r] = "create" => Opened(r)
    /\ pc[r] = "got" => Right(r, result[r])
    /\ Straight /\ pc[r] = "inner" => Invalid(req[r].url) \/ Lacked(r, Asked(r))
    /\ answer[r].status = 404 =>
         /\ pc[r] = "answered"
         /\ Straight /\ Paged /\ answer[r].resource = NoResource => Pageless(r)

SearchInv == AskedInv /\ Types /\ \A r \in Requests : Progress(r)

-----------------------------------------------------------------------------
(* The tree *)

LEMMA StatusFacts ==
    ASSUME Types, NEW p
    PROVE  /\ Status(p) \in {"not_found", "ok", "is_directory", "io"}
           /\ Status(p) = "ok" => p \in Forms
           /\ Status(p) = "is_directory" => p \in Directories
<1>1. Status(p) \in {"not_found", "ok", "is_directory", "io"}
  BY DEF Status, StatusIn
<1>2. Status(p) = "ok" => Holding(tree, p) = "file"
  BY DEF Status, StatusIn
<1>3. Status(p) = "is_directory" => Holding(tree, p) = "directory"
  BY DEF Status, StatusIn
<1> QED BY <1>1, <1>2, <1>3 DEF Holding, Types, Directories

LEMMA LackingUnchanged ==
    ASSUME tree' = tree, settings' = settings, NEW url
    PROVE  Lacking(url)' = Lacking(url)
BY DEF Lacking, Relevant, Status

\* What could not be opened is in the history.
LEMMA NotOkIsLacked ==
    ASSUME NEW r \in Requests, SearchInv, pc[r] = "search", NEW c,
           Status(<<PathOf(r), c>>) # "ok"
    PROVE  Lacked(r, <<PathOf(r), c>>)
<1> DEFINE p == <<PathOf(r), c>>
<1>1. CASE p \notin Forms BY <1>1 DEF Lacked
<1>2. CASE p \in Forms
  <2>1. ~ Invalid(req[r].url) /\ goal[r] \in {"target", "index", "page"}
    BY DEF SearchInv, AskedInv, ShapeInv
  <2>2. p \in OneOf(PathOf(r)) BY <1>2 DEF OneOf
  <2>3. PathOf(r) \in {Target(req[r].url), IndexOf(Target(req[r].url)), settings.page}
    BY <2>1 DEF PathOf
  <2>4. p \in Lacking(req[r].url) BY <2>2, <2>3 DEF Lacking, Relevant
  <2>5. Lacking(req[r].url) \subseteq lacked[r] BY <2>1 DEF SearchInv, Progress, History
  <2> QED BY <2>4, <2>5 DEF Lacked
<1> QED BY <1>1, <1>2

LEMMA DetectCodings ==
    ASSUME NEW header PROVE Detect(header) \in SUBSET Compressed
BY DEF Detect

LEMMA NotResources == NoResource \notin Resources /\ Fallback \notin Resources
BY NamesAssumption DEF Resources

-----------------------------------------------------------------------------
(* What a step does not touch *)

Same(q) == UNCHANGED <<pc[q], req[q], goal[q], todo[q], found[q], result[q], answer[q]>>

\* What is known of a request stays true while its history grows.
LEMMA StaysTrue ==
    ASSUME NEW q \in Requests, Progress(q), settings' = settings, Same(q),
           lacked[q] \subseteq lacked'[q],
           pc[q] = "idle" \/ Invalid(req[q].url) => lacked'[q] = {},
           pc[q] # "idle" /\ ~ Invalid(req[q].url) => Lacking(req[q].url)' \subseteq lacked'[q]
    PROVE  Progress(q)'
<1>1. /\ pc'[q] = pc[q] /\ req'[q] = req[q] /\ goal'[q] = goal[q] /\ todo'[q] = todo[q]
      /\ found'[q] = found[q] /\ result'[q] = result[q] /\ answer'[q] = answer[q]
  BY DEF Same
<1>2. \A p : Lacked(q, p) => Lacked(q, p)' BY DEF Lacked
<1>3. /\ Accepted(q)' = Accepted(q) /\ Wanted(q)' = Wanted(q) /\ Asked(q)' = Asked(q)
      /\ PathOf(q)' = PathOf(q) /\ IsStatic' = IsStatic /\ IsCached' = IsCached /\ Paged' = Paged
      /\ Straight' = Straight
  BY <1>1 DEF Accepted, Wanted, Asked, PathOf, IsStatic, IsCached, Paged, Straight
<1>4. History(q)'
  BY <1>1 DEF Progress, History
<1>5. Purpose(q) => Purpose(q)'
  BY <1>1, <1>2, <1>3 DEF Purpose
<1>6. Trying(q) => Trying(q)'
  <2>1. Present(q)' \subseteq Present(q) BY <1>2, <1>3 DEF Present
  <2> QED BY <1>1, <1>3, <2>1 DEF Trying, Covers
<1>7. \A res : BestOf(q, res) => BestOf(q, res)'
  BY <1>2, <1>3 DEF BestOf
<1>8. Opened(q) => Opened(q)'
  BY <1>1, <1>3, <1>7 DEF Opened
<1>9. Pageless(q) => Pageless(q)'
  BY <1>2, <1>3 DEF Pageless
<1>10. Right(q, result[q]) => Right(q, result[q])'
  BY <1>1, <1>2, <1>3, <1>7, <1>9 DEF Right
<1> QED
  BY <1>1, <1>2, <1>3, <1>4, <1>5, <1>6, <1>8, <1>9, <1>10 DEF Progress

\* A step of one request.
Alone(r) ==
    /\ tree' = tree /\ settings' = settings
    /\ \A q \in Requests \ {r} : Same(q) /\ lacked'[q] = lacked[q]

LEMMA OthersStay ==
    ASSUME NEW r \in Requests, NEW q \in Requests, q # r, SearchInv, Alone(r)
    PROVE  Progress(q)'
<1>1. Same(q) /\ lacked'[q] = lacked[q] /\ tree' = tree /\ settings' = settings
  BY DEF Alone
<1>2. Progress(q) /\ History(q) BY DEF SearchInv, Progress
<1>3. Lacking(req[q].url)' = Lacking(req[q].url)
  BY <1>1, LackingUnchanged DEF Same, Lacking, Relevant, Status
<1> QED BY <1>1, <1>2, <1>3, StaysTrue DEF History

-----------------------------------------------------------------------------
(* ServedDir::get *)

OnItsWay == {"lookup", "search", "create"}

LEMMA RequestFacts ==
    ASSUME NEW r \in Requests, SearchInv, pc[r] \in OnItsWay
    PROVE  /\ req[r] \in Asks /\ ~ Invalid(req[r].url)
           /\ settings \in Settings /\ settings.strategy \in Strategies
           /\ Accepted(r) \in SUBSET Compressed
           /\ KeyOf(r) \in Keys /\ KeyOf(r)[2] = Accepted(r)
           /\ Progress(r) /\ History(r) /\ answer[r].status # 404
<1>1. req[r] \in Asks /\ ~ Invalid(req[r].url)
  BY DEF SearchInv, AskedInv, ShapeInv, Asks, OnItsWay
<1>2. settings \in Settings /\ settings.strategy \in Strategies
  BY ServedDirAssumption DEF SearchInv, Types
<1>3. KeyOf(r) \in Keys /\ KeyOf(r)[2] = Accepted(r)
  BY <1>1 DEF KeyOf, Keys, Asks, Accepted
<1>4. Progress(r) /\ History(r) /\ answer[r].status # 404
  BY DEF SearchInv, Progress, OnItsWay
<1> QED BY <1>1, <1>2, <1>3, <1>4, DetectCodings DEF Accepted

LEMMA HistoryStays ==
    ASSUME NEW r \in Requests, SearchInv, pc[r] # "idle", pc'[r] # "idle",
           req'[r] = req[r], lacked'[r] = lacked[r], tree' = tree, settings' = settings
    PROVE  History(r)'
<1>1. Lacking(req[r].url)' = Lacking(req[r].url)
  BY LackingUnchanged DEF Lacking, Relevant, Status
<1>2. History(r) BY DEF SearchInv, Progress
<1> QED BY <1>1, <1>2 DEF History

LEMMA HandledTyped ==
    ASSUME NEW res \in Results, NEW h \in Handled(res) PROVE h \in Results
<1>1. \A kind \in ErrorKinds : Err(kind) \in Results
  BY DEF Err, Results
<1>2. Ok(Fallback) \in Results /\ NotFound(Fallback) \in Results
  BY DEF Ok, NotFound, Results, ErrorKinds
<1> QED BY <1>1, <1>2 DEF Handled

\* resolve returns a result that is right.
LEMMA ReturnIsRight ==
    ASSUME NEW r \in Requests, NEW res \in Results, SearchInv, AskedInv', Return(r, res),
           pc[r] \in OnItsWay, UNCHANGED answer, Right(r, res),
           cache' \in [Keys -> Resources \cup {NoResource}],
           \A k \in Keys : cache'[k].coding \in k[2] \cup {"identity"}
    PROVE  SearchInv'
<1>0. PICK h \in Handled(res) : result' = [result EXCEPT ![r] = h]
  BY DEF Return
<1>1. /\ pc' = [pc EXCEPT ![r] = "got"] /\ result' = [result EXCEPT ![r] = h]
      /\ goal' = [goal EXCEPT ![r] = "target"] /\ todo' = [todo EXCEPT ![r] = << >>]
      /\ found' = [found EXCEPT ![r] = NoResource]
      /\ req' = req /\ lacked' = lacked /\ settings' = settings /\ tree' = tree
      /\ changes' = changes /\ answer' = answer
  BY <1>0 DEF Return, treeVars
<1>2. h \in Results /\ Right(r, h)
  <2>1. CASE h = res BY <2>1
  <2>2. CASE h # res
    <3>1. settings.handler /\ h.resource \in {NoResource, Fallback}
      BY <1>0, <2>2, HandledIs DEF Results
    <3>2. h.resource.coding = "identity"
      BY <3>1 DEF Fallback, NoResource
    <3> QED BY <1>0, <3>1, <3>2, HandledTyped, NotResources DEF Right, Straight
  <2> QED BY <2>1, <2>2
<1>3. Types'
  <2>1. Types BY DEF SearchInv
  <2> QED BY <1>1, <1>2, <2>1 DEF Types, PcValues, IsMap
<1>4. Alone(r)
  BY <1>1 DEF Alone, Same, SearchInv, Types, IsMap
<1>5. Progress(r)'
  <2>1. /\ pc'[r] = "got" /\ result'[r] = h /\ req'[r] = req[r] /\ lacked'[r] = lacked[r]
        /\ answer'[r] = answer[r]
    BY <1>1 DEF SearchInv, Types, IsMap
  <2>2. History(r)' BY <1>1, <2>1, HistoryStays DEF OnItsWay
  <2>3. Right(r, result[r])'
    <3>1. Right(r, result'[r]) BY <1>2, <2>1
    <3>2. /\ Accepted(r)' = Accepted(r) /\ Wanted(r)' = Wanted(r) /\ Asked(r)' = Asked(r)
          /\ IsStatic' = IsStatic /\ Paged' = Paged /\ Pageless(r)' = Pageless(r)
          /\ Straight' = Straight
      BY <1>1 DEF Accepted, Wanted, Asked, IsStatic, Paged, Pageless, Lacked, Straight
    <3>3. BestOf(r, result'[r].resource) => BestOf(r, result[r].resource)'
      BY <1>1, <3>2 DEF BestOf, Lacked
    <3>4. Lacked(r, Asked(r)) => Lacked(r, Asked(r))'
      BY <1>1, <3>2 DEF Lacked
    <3> QED BY <1>1, <3>1, <3>2, <3>3, <3>4 DEF Right
  <2> QED BY <2>1, <2>2, <2>3, RequestFacts DEF Progress
<1>6. \A q \in Requests : Progress(q)'
  BY <1>4, <1>5, OthersStay
<1> QED BY <1>3, <1>6 DEF SearchInv

\* A search starts, the second one for a reason.
LEMMA SearchStarts ==
    ASSUME NEW r \in Requests, NEW which \in {"target", "index", "page"}, SearchInv, AskedInv',
           Search(r, which, req[r].header), pc[r] \in OnItsWay,
           UNCHANGED <<treeVars, cache, req, found, result, lacked, answer>>,
           which # "target" => Lacked(r, Asked(r)),
           which = "index" => Asked(r) \in Directories
    PROVE  SearchInv'
<1> DEFINE t == Candidates(settings.strategy, Accepted(r))
<1>1. /\ pc' = [pc EXCEPT ![r] = "search"] /\ goal' = [goal EXCEPT ![r] = which]
      /\ todo' = [todo EXCEPT ![r] = t]
      /\ found' = found /\ result' = result /\ cache' = cache
      /\ req' = req /\ lacked' = lacked /\ settings' = settings /\ tree' = tree
      /\ changes' = changes /\ answer' = answer
  BY DEF Search, treeVars, Accepted
<1>2. Shape(t, Accepted(r)) /\ (~ IsCached => Ordered(t)) /\ (IsStatic => Covers(t, Wanted(r)))
  <2>1. settings.strategy \in Strategies /\ Accepted(r) \in SUBSET Compressed
    BY RequestFacts
  <2> HIDE DEF t
  <2>2. t = Candidates(settings.strategy, Accepted(r)) BY DEF t
  <2> QED BY <2>1, <2>2, CandidatesShape DEF IsStatic, IsCached, Wanted
<1> HIDE DEF t
<1>3. Types'
  <2>1. Types BY DEF SearchInv
  <2> QED BY <1>1, <2>1 DEF Types, PcValues, IsMap
<1>4. Alone(r)
  BY <1>1 DEF Alone, Same, SearchInv, Types, IsMap
<1>5. Progress(r)'
  <2>1. /\ pc'[r] = "search" /\ goal'[r] = which /\ todo'[r] = t /\ req'[r] = req[r]
        /\ lacked'[r] = lacked[r] /\ answer'[r] = answer[r]
    BY <1>1 DEF SearchInv, Types, IsMap
  <2>2. History(r)' BY <1>1, <2>1, HistoryStays DEF OnItsWay
  <2>3. Purpose(r)' BY <1>1, <2>1 DEF Purpose, Asked, Lacked
  <2>4. Trying(r)'
    <3>1. /\ Accepted(r)' = Accepted(r) /\ Wanted(r)' = Wanted(r)
          /\ IsStatic' = IsStatic /\ IsCached' = IsCached
      BY <1>1 DEF Accepted, Wanted, IsStatic, IsCached
    <3>2. Present(r)' \subseteq Wanted(r) BY <3>1 DEF Present
    <3> QED BY <1>2, <2>1, <3>1, <3>2 DEF Trying, Covers
  <2> QED BY <2>1, <2>2, <2>3, <2>4, RequestFacts DEF Progress
<1>6. \A q \in Requests : Progress(q)'
  BY <1>4, <1>5, OthersStay
<1> QED BY <1>3, <1>6 DEF SearchInv

\* What is known when a search ends with an error.
LEMMA FailingFacts ==
    ASSUME NEW r \in Requests, SearchInv, Failing(r) # "none"
    PROVE  /\ pc[r] = "search" /\ Failing(r) \in {"not_found", "is_directory", "io"}
           /\ Failing(r) # "io" => /\ Lacked(r, Plain(PathOf(r)))
                                   /\ Failing(r) = "is_directory" => Plain(PathOf(r)) \in Directories
<1>1. pc[r] = "search" BY DEF Failing
<1> DEFINE c == Head(todo[r])
           p == FormOf(PathOf(r), c)
<1>2. Failing(r) = Status(p) /\ Status(p) # "ok" /\ (c \in Compressed => Status(p) = "io")
  BY <1>1 DEF Failing
<1>3. Status(p) \in {"not_found", "is_directory", "io"}
  BY <1>2, StatusFacts DEF SearchInv
<1>4. ASSUME Failing(r) # "io" PROVE p = Plain(PathOf(r))
  <2>1. Shape(todo[r], Accepted(r)) BY <1>1 DEF SearchInv, Progress, Trying
  <2>2. c \in Names BY <2>1 DEF Shape
  <2>3. c \in {"identity", "runtime"} BY <1>2, <1>4, <2>2 DEF Names, Codings
  <2> QED BY <2>3 DEF FormOf, Plain
<1>5. Failing(r) # "io" => Lacked(r, Plain(PathOf(r)))
  BY <1>1, <1>2, <1>4, NotOkIsLacked DEF Plain
<1>6. Failing(r) = "is_directory" => Plain(PathOf(r)) \in Directories
  BY <1>2, <1>4, StatusFacts DEF SearchInv
<1> QED BY <1>1, <1>2, <1>3, <1>5, <1>6

LEMMA ErrorResult ==
    ASSUME NEW kind \in ErrorKinds
    PROVE  /\ Err(kind) \in Results /\ Err(kind).error = kind
           /\ Err(kind).resource = NoResource /\ NoResource.coding = "identity"
BY DEF Err, Results, NoResource

LEMMA FileResult ==
    ASSUME NEW res \in Resources \cup {NoResource}
    PROVE  /\ Ok(res) \in Results /\ Ok(res).error = "none" /\ Ok(res).resource = res
           /\ NotFound(res) \in Results /\ NotFound(res).error = "not_found"
           /\ NotFound(res).resource = res
BY DEF Ok, NotFound, Results, ErrorKinds

LEMMA HitKeeps ==
    ASSUME NEW r \in Requests, SearchInv, AskedInv', Hit(r), UNCHANGED answer
    PROVE  SearchInv'
<1> DEFINE res == cache[KeyOf(r)]
<1>1. /\ pc[r] = "lookup" /\ cache' = cache /\ Return(r, Ok(res))
  BY DEF Hit
<1>2. res \in Resources \cup {NoResource} /\ res.coding \in Accepted(r) \cup {"identity"}
  BY <1>1, RequestFacts DEF SearchInv, Types, OnItsWay
<1>3. settings.caching
  BY <1>1 DEF SearchInv, Progress
<1> HIDE DEF res
<1>4. Right(r, Ok(res))
  BY <1>2, <1>3, FileResult DEF Right
<1> QED BY <1>1, <1>2, <1>4, FileResult, ReturnIsRight DEF SearchInv, Types, OnItsWay

LEMMA OpenKeeps ==
    ASSUME NEW r \in Requests, SearchInv, AskedInv', Open(r), UNCHANGED answer
    PROVE  SearchInv'
<1> DEFINE t == todo[r]
           path == PathOf(r)
<1>1. /\ pc[r] = "search" /\ pc' = [pc EXCEPT ![r] = "create"]
      /\ Status(FormOf(path, Head(t))) = "ok"
      /\ cache' = cache /\ req' = req /\ goal' = goal /\ todo' = todo /\ result' = result
      /\ lacked' = lacked /\ settings' = settings /\ tree' = tree /\ changes' = changes
      /\ answer' = answer
  BY DEF Open, treeVars
<1>2. PICK coding \in IF Head(t) = "runtime" THEN {"br", "identity"} ELSE {Head(t)} :
        found' = [found EXCEPT ![r] = [path |-> path, coding |-> coding]]
  BY DEF Open
<1>3. Progress(r) /\ Purpose(r) /\ Trying(r)
  BY <1>1 DEF SearchInv, Progress
<1>4. /\ t \in Seq(Names) /\ 1 \in 1 .. Len(t) /\ Head(t) = t[1] /\ t[1] \in Names
      /\ t[1] \in Accepted(r) \cup {"identity", "runtime"}
      /\ t[1] = "runtime" => "br" \in Accepted(r)
  BY <1>3 DEF Trying, Shape
<1>5. path \in {p[1] : p \in Forms}
  <2>1. FormOf(path, Head(t)) \in Forms
    BY <1>1, StatusFacts DEF SearchInv
  <2>2. FormOf(path, Head(t))[1] = path BY DEF FormOf, Plain
  <2> QED BY <2>1, <2>2
<1>6. coding \in Codings /\ coding \in Accepted(r) \cup {"identity"}
  BY <1>2, <1>4 DEF Names, Codings, Compressed
<1>7. IsStatic => \A c \in Wanted(r) : Beats(c, coding) => Lacked(r, <<path, c>>)
  <2> SUFFICES ASSUME IsStatic, NEW c \in Wanted(r), Beats(c, coding), c \in Present(r)
               PROVE  FALSE
    BY DEF Present
  <2>1. Ordered(t) /\ Covers(t, Present(r)) BY <1>3 DEF Trying, IsStatic, IsCached
  <2>2. coding = t[1] BY <1>2, <1>4, <2>1 DEF Ordered
  <2>3. PICK i \in 1 .. Len(t) : t[i] = c BY <2>1 DEF Covers
  <2>4. i # 1 BY <2>2, <2>3 DEF Beats, Better, Compressed
  <2> QED BY <1>4, <2>1, <2>2, <2>3, <2>4 DEF Ordered
<1> DEFINE res == [path |-> path, coding |-> coding]
<1>8. res \in Resources /\ res.path = path /\ res.coding = coding
  BY <1>5, <1>6 DEF Resources
<1>9. found'[r] = res /\ found' \in [Requests -> Resources \cup {NoResource}]
  BY <1>2, <1>8 DEF SearchInv, Types
<1> HIDE DEF res, t, path
<1>10. Types'
  <2>1. Types BY DEF SearchInv
  <2> QED BY <1>1, <1>9, <2>1 DEF Types, PcValues, IsMap
<1>11. Alone(r)
  BY <1>1, <1>2 DEF Alone, Same, SearchInv, Types, IsMap
<1>12. Progress(r)'
  <2>1. pc'[r] = "create" BY <1>1 DEF SearchInv, Types
  <2>2. History(r)' BY <1>1, <2>1, HistoryStays
  <2>3. Purpose(r)' BY <1>1, <1>3 DEF Purpose, Asked, Lacked
  <2>4. Opened(r)'
    <3>1. /\ Accepted(r)' = Accepted(r) /\ Wanted(r)' = Wanted(r) /\ IsStatic' = IsStatic
          /\ PathOf(r)' = path
      BY <1>1 DEF Accepted, Wanted, IsStatic, PathOf, path
    <3>2. IsStatic => BestOf(r, found[r])'
      BY <1>1, <1>7, <1>8, <1>9, <3>1 DEF BestOf, Lacked
    <3> QED BY <1>6, <1>8, <1>9, <3>1, <3>2 DEF Opened
  <2>5. answer'[r].status # 404 BY <1>1, RequestFacts DEF OnItsWay
  <2> QED BY <2>1, <2>2, <2>3, <2>4, <2>5 DEF Progress
<1>13. \A q \in Requests : Progress(q)'
  BY <1>11, <1>12, OthersStay
<1> QED BY <1>10, <1>13 DEF SearchInv

LEMMA SkipKeeps ==
    ASSUME NEW r \in Requests, SearchInv, AskedInv', SkipSibling(r), UNCHANGED answer
    PROVE  SearchInv'
<1> DEFINE t == todo[r]
<1>1. /\ pc[r] = "search" /\ pc' = pc /\ Head(t) \in Compressed
      /\ Status(FormOf(PathOf(r), Head(t))) # "ok" /\ todo' = [todo EXCEPT ![r] = Tail(t)]
      /\ cache' = cache /\ req' = req /\ goal' = goal /\ found' = found /\ result' = result
      /\ lacked' = lacked /\ settings' = settings /\ tree' = tree /\ changes' = changes
      /\ answer' = answer
  BY DEF SkipSibling, treeVars
<1>2. Progress(r) /\ Purpose(r) /\ Trying(r)
  BY <1>1 DEF SearchInv, Progress
<1>3. Lacked(r, <<PathOf(r), Head(t)>>)
  BY <1>1, NotOkIsLacked DEF FormOf, Compressed
<1>4. Shape(Tail(t), Accepted(r)) /\ (Ordered(t) => Ordered(Tail(t)))
      /\ \A wanted : Covers(t, wanted) => Covers(Tail(t), wanted \ {Head(t)})
  BY <1>1, <1>2, DetectCodings, TailShape DEF Trying, Accepted
<1>5. Present(r) \ {Head(t)} = Present(r)
  BY <1>3 DEF Present
<1>6. todo'[r] = Tail(t)
  BY <1>1 DEF SearchInv, Types, IsMap
<1>7. Types'
  <2>1. Types BY DEF SearchInv
  <2> QED BY <1>1, <2>1 DEF Types, PcValues, IsMap
<1>8. Alone(r)
  BY <1>1 DEF Alone, Same, SearchInv, Types, IsMap
<1> HIDE DEF t
<1>9. Progress(r)'
  <2>1. History(r)' BY <1>1, HistoryStays
  <2>2. Purpose(r)' BY <1>1, <1>2 DEF Purpose, Asked, Lacked
  <2>3. Trying(r)'
    <3>1. /\ Accepted(r)' = Accepted(r) /\ Present(r)' = Present(r)
          /\ IsStatic' = IsStatic /\ IsCached' = IsCached
      BY <1>1 DEF Accepted, Wanted, IsStatic, IsCached, Present, PathOf, Lacked
    <3>2. /\ ~ IsCached => Ordered(t)
          /\ IsStatic => Covers(t, Present(r))
      BY <1>2 DEF Trying, t
    <3>3. IsStatic => Covers(Tail(t), Present(r)) BY <1>4, <1>5, <3>2
    <3> QED BY <1>4, <1>6, <3>1, <3>2, <3>3 DEF Trying
  <2>4. answer'[r].status # 404 BY <1>1, RequestFacts DEF OnItsWay
  <2> QED BY <1>1, <2>1, <2>2, <2>3, <2>4 DEF Progress
<1>10. \A q \in Requests : Progress(q)'
  BY <1>8, <1>9, OthersStay
<1> QED BY <1>7, <1>10 DEF SearchInv

\* The two searches that follow the first.
LEMMA SecondSearchKeeps ==
    ASSUME NEW r \in Requests, SearchInv, AskedInv', TryIndex(r) \/ TryPage(r), UNCHANGED answer
    PROVE  SearchInv'
<1>1. Failing(r) # "none" /\ Failing(r) # "io" /\ goal[r] = "target"
  BY DEF TryIndex, TryPage
<1>2. Plain(PathOf(r)) = Asked(r)
  BY <1>1 DEF PathOf, Asked
<1>3. pc[r] = "search" /\ Lacked(r, Asked(r))
  BY <1>1, <1>2, FailingFacts
<1>4. CASE TryIndex(r)
  <2>1. Asked(r) \in Directories BY <1>1, <1>2, <1>4, FailingFacts DEF TryIndex
  <2> QED BY <1>3, <1>4, <2>1, SearchStarts DEF TryIndex, OnItsWay
<1>5. CASE TryPage(r)
  BY <1>3, <1>5, SearchStarts DEF TryPage, OnItsWay
<1> QED BY <1>4, <1>5

LEMMA FailsKeeps ==
    ASSUME NEW r \in Requests, SearchInv, AskedInv', SearchFails(r), UNCHANGED answer
    PROVE  SearchInv'
<1> DEFINE kind == Failing(r)
<1>1. /\ kind # "none" /\ Return(r, Err(kind)) /\ cache' = cache
      /\ goal[r] = "target" /\ kind = "not_found" => settings.page = NoPage
  BY DEF SearchFails
<1>2. /\ pc[r] = "search" /\ kind \in {"not_found", "is_directory", "io"}
      /\ kind # "io" => /\ Lacked(r, Plain(PathOf(r)))
                        /\ kind = "is_directory" => Plain(PathOf(r)) \in Directories
  BY <1>1, FailingFacts
<1>3. Purpose(r) BY <1>2 DEF SearchInv, Progress
<1>4. goal[r] \in {"target", "index", "page"} BY DEF SearchInv, Types
<1> HIDE DEF kind
<1>5. kind # "io" => Lacked(r, Asked(r))
  <2>1. goal[r] = "target" => Plain(PathOf(r)) = Asked(r) BY DEF PathOf, Asked
  <2> QED BY <1>2, <1>3, <2>1 DEF Purpose
<1>6. kind # "io" /\ Paged => Pageless(r)
  <2>1. CASE goal[r] = "target"
    <3>1. Plain(PathOf(r)) = Asked(r) BY <2>1 DEF PathOf, Asked
    <3> QED BY <1>1, <1>2, <2>1, <3>1 DEF Paged, Pageless
  <2>2. CASE goal[r] = "index"
    BY <1>3, <2>2 DEF Purpose, Pageless
  <2>3. CASE goal[r] = "page"
    <3>1. PathOf(r) = settings.page BY <2>3 DEF PathOf
    <3> QED BY <1>2, <3>1 DEF Pageless
  <2> QED BY <1>4, <2>1, <2>2, <2>3
<1>7. Right(r, Err(kind))
  BY <1>2, <1>5, <1>6, ErrorResult, NotResources DEF Right, ErrorKinds
<1>8. Err(kind) \in Results BY <1>2, ErrorResult DEF ErrorKinds
<1> QED BY <1>1, <1>2, <1>7, <1>8, ReturnIsRight DEF SearchInv, Types, OnItsWay

LEMMA CreateKeeps ==
    ASSUME NEW r \in Requests, SearchInv, AskedInv',
           Create(r) \/ CreatePage(r) \/ CreateFails(r), UNCHANGED answer
    PROVE  SearchInv'
<1>1. pc[r] = "create" BY DEF Create, CreatePage, CreateFails
<1>2. Purpose(r) /\ Opened(r) BY <1>1 DEF SearchInv, Progress
<1>3. /\ found[r] \in Resources /\ found[r].path = PathOf(r)
      /\ found[r].coding \in Accepted(r) \cup {"identity"}
      /\ found[r] # NoResource
  BY <1>2, NotResources DEF Opened
<1>4. /\ cache \in [Keys -> Resources \cup {NoResource}]
      /\ \A k \in Keys : cache[k].coding \in k[2] \cup {"identity"}
  BY DEF SearchInv, Types
<1>5. goal[r] = "target" => PathOf(r) = Target(req[r].url)
  BY DEF PathOf
<1>6. PathOf(r) # Target(req[r].url) => Lacked(r, Asked(r))
  BY <1>2, <1>5 DEF Purpose
<1>7. CASE Create(r)
  <2>1. Return(r, Ok(found[r])) /\ cache' \in {cache, [cache EXCEPT ![KeyOf(r)] = found[r]]}
    BY <1>7 DEF Create
  <2>2. Right(r, Ok(found[r]))
    BY <1>2, <1>3, <1>6, FileResult DEF Right, Opened
  <2>3. KeyOf(r) \in Keys /\ KeyOf(r)[2] = Accepted(r) BY <1>1, RequestFacts DEF OnItsWay
  <2>4. /\ cache' \in [Keys -> Resources \cup {NoResource}]
        /\ \A k \in Keys : cache'[k].coding \in k[2] \cup {"identity"}
    BY <1>3, <1>4, <2>1, <2>3
  <2> QED BY <1>1, <1>3, <2>1, <2>2, <2>4, FileResult, ReturnIsRight DEF OnItsWay
<1>8. CASE CreatePage(r)
  <2>1. Return(r, NotFound(found[r])) /\ cache' = cache /\ goal[r] = "page"
    BY <1>8 DEF CreatePage
  <2>2. Right(r, NotFound(found[r]))
    BY <1>2, <1>3, <2>1, FileResult DEF Right, Opened, Purpose
  <2> QED BY <1>1, <1>3, <1>4, <2>1, <2>2, FileResult, ReturnIsRight DEF OnItsWay
<1>9. CASE CreateFails(r)
  <2>0. PICK kind \in settings.hashErrors : Return(r, Err(kind)) /\ cache' = cache
    BY <1>9 DEF CreateFails
  <2>1. kind \in {"io", "not_found"}
    BY ServedDirAssumption DEF SearchInv, Types
  <2>2. Right(r, Err(kind)) /\ Err(kind) \in Results
    BY <2>1, ErrorResult, NotResources DEF Right, Straight, ErrorKinds
  <2> QED BY <2>0, <1>1, <1>4, <2>1, <2>2, ReturnIsRight DEF OnItsWay
<1> QED BY <1>7, <1>8, <1>9

LEMMA CompressionKeeps ==
    ASSUME NEW r \in Requests, SearchInv, AskedInv', CompressionFails(r), UNCHANGED answer
    PROVE  SearchInv'
<1>1. pc[r] = "search" /\ Return(r, Err("io")) /\ cache' = cache
  BY DEF CompressionFails
<1>2. Right(r, Err("io")) /\ Err("io") \in Results
  BY ErrorResult, NotResources DEF Right, ErrorKinds
<1>3. /\ cache \in [Keys -> Resources \cup {NoResource}]
      /\ \A k \in Keys : cache[k].coding \in k[2] \cup {"identity"}
  BY DEF SearchInv, Types
<1> QED BY <1>1, <1>2, <1>3, ReturnIsRight DEF OnItsWay

LEMMA GetKeepsSearch ==
    ASSUME NEW r \in Requests, SearchInv, AskedInv', GetStep(r), UNCHANGED answer
    PROVE  SearchInv'
<1>1. CASE Miss(r)
  BY <1>1, SearchStarts DEF Miss, OnItsWay
<1> QED
  BY <1>1, HitKeeps, OpenKeeps, SkipKeeps, SecondSearchKeeps, FailsKeeps, CreateKeeps,
     CompressionKeeps DEF GetStep

-----------------------------------------------------------------------------
(* Before and after get *)

LEMMA BeginKeepsSearch ==
    ASSUME NEW r \in Requests, NEW url \in Urls, NEW header \in Headers, SearchInv, AskedInv',
           Begin(r, url, header), UNCHANGED answer
    PROVE  SearchInv'
<1> DEFINE ask == [url |-> url, header |-> header]
           t   == Candidates(settings.strategy, Detect(header))
<1>1. /\ pc[r] = "idle" /\ req' = [req EXCEPT ![r] = ask] /\ found' = found
      /\ cache' = cache /\ settings' = settings /\ tree' = tree /\ changes' = changes
      /\ answer' = answer
  BY DEF Begin, Search, treeVars, searchVars
<1>2. /\ History(r) /\ lacked[r] = {} /\ answer[r].status # 404
  BY <1>1 DEF SearchInv, Progress, History
<1>3. ask \in Asks /\ settings \in Settings /\ settings.strategy \in Strategies
  BY ServedDirAssumption DEF Asks, SearchInv, Types
<1>4. /\ Shape(t, Detect(header))
      /\ ~ IsCached => Ordered(t)
      /\ IsStatic => Covers(t, Detect(header) \cap settings.strategy.codings)
  BY <1>3, CandidatesShape, DetectCodings DEF IsStatic, IsCached
<1>5. \A bad \in Handled(Err("invalid_path")) :
        /\ bad \in Results
        /\ bad = Err("invalid_path")
           \/ (settings.handler /\ bad.resource \in {NoResource, Fallback})
  BY ErrorResult, HandledTyped, HandledIs DEF ErrorKinds
<1>6. Lacking(url) \subseteq Forms
  BY DEF Lacking, Relevant, OneOf
<1>7. req'[r] = ask /\ ask.url = url /\ ask.header = header
  BY <1>1 DEF SearchInv, Types
<1>8. Types BY DEF SearchInv
<1> HIDE DEF ask, t
<1>9. CASE Invalid(url)
  <2>0. PICK bad \in Handled(Err("invalid_path")) : result' = [result EXCEPT ![r] = bad]
    BY <1>9 DEF Begin
  <2>1. /\ pc' = [pc EXCEPT ![r] = "got"] /\ result' = [result EXCEPT ![r] = bad]
        /\ goal' = goal /\ todo' = todo /\ lacked' = lacked
    BY <1>9, <2>0 DEF Begin, searchVars
  <2>2. Types'
    BY <1>1, <1>3, <1>5, <1>8, <2>1 DEF Types, PcValues, IsMap
  <2>3. Alone(r)
    BY <1>1, <1>8, <2>1 DEF Alone, Same, Types, IsMap
  <2>4. /\ pc'[r] = "got" /\ result'[r] = bad /\ lacked'[r] = {}
        /\ answer'[r].status # 404
    BY <1>1, <1>2, <1>8, <2>1 DEF Types, IsMap
  <2>5. History(r)' BY <1>3, <1>7, <1>9, <2>4 DEF History
  <2>6. Right(r, result[r])'
    <3>1. bad.resource \in {NoResource, Fallback} /\ bad.resource.coding = "identity"
      BY <1>5, ErrorResult DEF NoResource, Fallback, ErrorKinds
    <3>2. bad.resource \notin Resources BY <3>1, NotResources
    <3>3. bad.error = "invalid_path" \/ ~ Straight
      BY <1>5, ErrorResult DEF Straight, ErrorKinds
    <3>4. Straight' = Straight BY <1>1 DEF Straight
    <3> QED BY <1>7, <1>9, <2>4, <3>1, <3>2, <3>3, <3>4 DEF Right
  <2>7. Progress(r)' BY <2>4, <2>5, <2>6 DEF Progress
  <2>8. \A q \in Requests : Progress(q)' BY <2>3, <2>7, OthersStay
  <2> QED BY <2>2, <2>8 DEF SearchInv
<1>10. CASE ~ Invalid(url)
  <2>1. /\ result' = result /\ lacked' = [lacked EXCEPT ![r] = Lacking(url)]
        /\ \/ /\ settings.caching /\ pc' = [pc EXCEPT ![r] = "lookup"]
              /\ goal' = goal /\ todo' = todo
           \/ /\ pc' = [pc EXCEPT ![r] = "search"] /\ goal' = [goal EXCEPT ![r] = "target"]
              /\ todo' = [todo EXCEPT ![r] = t]
    BY <1>10 DEF Begin, Search, t
  <2>2. Types'
    BY <1>1, <1>3, <1>6, <1>8, <2>1 DEF Types, PcValues, IsMap
  <2>3. Alone(r)
    BY <1>1, <1>8, <2>1 DEF Alone, Same, Types, IsMap
  <2>4. lacked'[r] = Lacking(url) /\ pc'[r] \in {"lookup", "search"} /\ answer'[r].status # 404
    BY <1>1, <1>2, <1>8, <2>1 DEF Types, IsMap
  <2>5. History(r)'
    <3>1. Lacking(url)' = Lacking(url) BY <1>1, LackingUnchanged
    <3>2. Lacking(req[r].url)' = Lacking(url)'
      BY <1>7 DEF Lacking, Relevant, Status
    <3> QED BY <1>3, <1>7, <1>10, <2>4, <3>1, <3>2 DEF History
  <2>6. CASE pc'[r] = "lookup"
    <3>1. settings'.caching BY <1>1, <1>8, <2>1, <2>6 DEF Types
    <3>2. Progress(r)' BY <2>4, <2>5, <2>6, <3>1 DEF Progress
    <3> QED BY <2>2, <2>3, <3>2, OthersStay DEF SearchInv
  <2>7. CASE pc'[r] = "search"
    <3>1. goal'[r] = "target" /\ todo'[r] = t BY <1>8, <2>1, <2>7 DEF Types, IsMap
    <3>2. Purpose(r)' BY <3>1 DEF Purpose
    <3>3. /\ Accepted(r)' = Detect(header) /\ IsStatic' = IsStatic /\ IsCached' = IsCached
          /\ Present(r)' \subseteq Detect(header) \cap settings.strategy.codings
      BY <1>1, <1>7 DEF Accepted, IsStatic, IsCached, Present, Wanted
    <3>4. Trying(r)' BY <1>4, <3>1, <3>3 DEF Trying, Covers
    <3>5. Progress(r)' BY <2>4, <2>5, <2>7, <3>2, <3>4 DEF Progress
    <3> QED BY <2>2, <2>3, <3>5, OthersStay DEF SearchInv
  <2> QED BY <2>4, <2>6, <2>7
<1> QED BY <1>9, <1>10

LEMMA MissingResponse ==
    ASSUME NEW res, res.error \in ErrorKinds, ResponseTo(res).status = 404
    PROVE  \/ res.error = "not_found" /\ ResponseTo(res).resource = res.resource
           \/ res.error = "is_directory"
<1>1. res.error = "none" => ResponseTo(res) = Answer(200, res.resource)
  BY DEF ResponseTo
<1>2. res.error = "not_found" => ResponseTo(res) = Answer(404, res.resource)
  BY DEF ResponseTo
<1>3. res.error \in {"is_directory", "invalid_path", "io"} =>
        ResponseTo(res) = Answer(StatusCode(res.error), NoResource)
  BY DEF ResponseTo
<1>4. StatusCode("invalid_path") = 400 /\ StatusCode("io") = 500
  BY DEF StatusCode
<1> QED BY <1>1, <1>2, <1>3, <1>4 DEF Answer, ErrorKinds

LEMMA AdvanceKeepsSearch ==
    ASSUME NEW r \in Requests, SearchInv, AskedInv', Advance(r) \/ Cancel(r)
    PROVE  SearchInv'
<1>1. Types /\ Progress(r) BY DEF SearchInv
<1>2. CASE Get(r)
  BY <1>2, GetKeepsSearch DEF Get
<1>3. ASSUME NEW response, Respond(r, response), pc[r] # "idle",
             Straight /\ response.status = 404 /\ Paged /\ response.resource = NoResource => Pageless(r)
      PROVE  SearchInv'
  <2>1. /\ pc' = [pc EXCEPT ![r] = "answered"] /\ answer' = [answer EXCEPT ![r] = response]
        /\ cache' = cache /\ req' = req /\ goal' = goal /\ todo' = todo /\ found' = found
        /\ result' = result /\ lacked' = lacked /\ settings' = settings /\ tree' = tree
        /\ changes' = changes
    BY <1>3 DEF Respond, treeVars, searchVars
  <2>2. Types' BY <1>1, <2>1 DEF Types, PcValues, IsMap
  <2>3. Alone(r) BY <1>1, <2>1 DEF Alone, Same, Types, IsMap
  <2>4. pc'[r] = "answered" /\ answer'[r] = response BY <1>1, <2>1 DEF Types, IsMap
  <2>5. History(r)' BY <1>3, <2>1, <2>4, HistoryStays
  <2>6. Pageless(r)' = Pageless(r) /\ Paged' = Paged /\ Straight' = Straight
    BY <2>1 DEF Pageless, Paged, Lacked, Asked, Straight
  <2>7. Progress(r)' BY <1>3, <2>4, <2>5, <2>6 DEF Progress
  <2> QED BY <2>2, <2>3, <2>7, OthersStay DEF SearchInv
<1>4. CASE GetResponse(r) \/ AnswerOwn(r)
  <2>1. pc[r] = "got" /\ Respond(r, ResponseTo(result[r])) /\ Right(r, result[r])
    BY <1>1, <1>4 DEF GetResponse, AnswerOwn, Progress
  <2>2. result[r].error \in ErrorKinds BY <2>1 DEF SearchInv, AskedInv, RequestInv
  <2> QED BY <1>3, <2>1, <2>2, MissingResponse DEF Right
<1>5. CASE InnerAnswers(r)
  <2>1. PICK response \in {InnerAnswer, InnerError} : Respond(r, response)
    BY <1>5 DEF InnerAnswers
  <2>2. response.status # 404 BY <2>1 DEF InnerAnswer, InnerError
  <2> QED BY <1>3, <1>5, <2>1, <2>2 DEF InnerAnswers
<1>6. CASE PassOn(r)
  <2>1. /\ pc[r] = "got" /\ pc' = [pc EXCEPT ![r] = "inner"] /\ Unmatched(result[r])
        /\ cache' = cache /\ req' = req /\ goal' = goal /\ todo' = todo /\ found' = found
        /\ result' = result /\ lacked' = lacked /\ settings' = settings /\ tree' = tree
        /\ changes' = changes /\ answer' = answer
    BY <1>6 DEF PassOn, treeVars, searchVars
  <2>2. Types' BY <1>1, <2>1 DEF Types, PcValues, IsMap
  <2>3. Alone(r) BY <1>1, <2>1 DEF Alone, Same, Types, IsMap
  <2>4. pc'[r] = "inner" BY <1>1, <2>1 DEF Types
  <2>5. History(r)' BY <2>1, <2>4, HistoryStays
  <2>6. Straight => Invalid(req[r].url) \/ Lacked(r, Asked(r))
    <3>1. Right(r, result[r]) BY <1>1, <2>1 DEF Progress
    <3>2. result[r].error \in {"not_found", "is_directory", "invalid_path"}
      BY <2>1 DEF Unmatched, NotFound
    <3> QED BY <3>1, <3>2 DEF Right
  <2>7. (Lacked(r, Asked(r)) => Lacked(r, Asked(r))') /\ Straight' = Straight
    BY <2>1 DEF Lacked, Asked, Straight
  <2>8. answer'[r].status # 404 BY <1>1, <2>1 DEF Progress
  <2>9. Progress(r)' BY <2>1, <2>4, <2>5, <2>6, <2>7, <2>8 DEF Progress
  <2> QED BY <2>2, <2>3, <2>9, OthersStay DEF SearchInv
<1>7. CASE Finish(r) \/ Cancel(r)
  <2>1. /\ pc' = [pc EXCEPT ![r] = "idle"] /\ req' = [req EXCEPT ![r] = NoRequest]
        /\ goal' = [goal EXCEPT ![r] = "target"] /\ todo' = [todo EXCEPT ![r] = << >>]
        /\ found' = [found EXCEPT ![r] = NoResource]
        /\ result' = [result EXCEPT ![r] = Pending] /\ lacked' = [lacked EXCEPT ![r] = {}]
        /\ answer' = [answer EXCEPT ![r] = NoAnswer]
        /\ cache' = cache /\ settings' = settings /\ tree' = tree /\ changes' = changes
    BY <1>7 DEF Finish, Cancel, Reset, treeVars
  <2>2. Pending \in Results BY FileResult DEF Pending
  <2>3. Types' BY <1>1, <2>1, <2>2 DEF Types, PcValues, IsMap
  <2>4. Alone(r) BY <1>1, <2>1 DEF Alone, Same, Types, IsMap
  <2>5. pc'[r] = "idle" /\ lacked'[r] = {} /\ answer'[r] = NoAnswer
    BY <1>1, <2>1 DEF Types, IsMap
  <2>6. Progress(r)' BY <2>5 DEF Progress, History, NoAnswer
  <2> QED BY <2>3, <2>4, <2>6, OthersStay DEF SearchInv
<1> QED BY <1>2, <1>4, <1>5, <1>6, <1>7 DEF Advance

LEMMA ChangeKeepsSearch ==
    ASSUME NEW p \in Forms, SearchInv, AskedInv', Change(p), UNCHANGED answer
    PROVE  SearchInv'
<1>1. Types /\ \A q \in Requests : Progress(q) BY DEF SearchInv
<1>2. /\ changes < MaxChanges /\ changes' = changes + 1
      /\ \E h \in MayHold[p] \ {tree[p]} : tree' = [tree EXCEPT ![p] = h]
      /\ settings' = settings /\ cache' = cache /\ pc' = pc /\ req' = req /\ goal' = goal
      /\ todo' = todo /\ found' = found /\ result' = result /\ answer' = answer
  BY DEF Change, searchVars
<1>3. lacked' = [r \in Requests |->
                   IF pc[r] = "idle" \/ Invalid(req[r].url) THEN {}
                   ELSE lacked[r] \cup Lacking(req[r].url)']
  BY DEF Change
<1>4. \A url : Lacking(url)' \subseteq Forms
  BY DEF Lacking, Relevant, OneOf
<1>5. Types'
  <2>1. changes' \in 0 .. MaxChanges BY <1>1, <1>2, ServedDirAssumption DEF Types
  <2>2. tree' \in [Forms -> Holdings] /\ \A q \in Forms : tree'[q] \in MayHold[q]
    <3>1. PICK h \in MayHold[p] : tree' = [tree EXCEPT ![p] = h] BY <1>2
    <3>2. MayHold[p] \subseteq Holdings BY ServedDirAssumption
    <3> QED BY <1>1, <3>1, <3>2 DEF Types
  <2>3. lacked' \in [Requests -> SUBSET Forms]
    <3>1. \A r \in Requests : lacked'[r] \subseteq Forms
      BY <1>1, <1>3, <1>4 DEF Types
    <3> QED BY <1>3, <3>1
  <2> QED BY <1>1, <1>2, <2>1, <2>2, <2>3 DEF Types, IsMap
<1>6. ASSUME NEW q \in Requests PROVE Progress(q)'
  <2>1. Same(q) BY <1>2 DEF Same
  <2>2. pc[q] = "idle" \/ Invalid(req[q].url) => lacked[q] = {} /\ lacked'[q] = {}
    BY <1>1, <1>3 DEF Progress, History
  <2>3. pc[q] # "idle" /\ ~ Invalid(req[q].url) =>
          lacked[q] \subseteq lacked'[q] /\ Lacking(req[q].url)' \subseteq lacked'[q]
    BY <1>3
  <2>4. lacked[q] \subseteq lacked'[q] BY <2>2, <2>3
  <2> QED BY <1>1, <1>2, <2>1, <2>2, <2>3, <2>4, StaysTrue
<1> QED BY <1>5, <1>6 DEF SearchInv

\* Steps that leave every request alone.
LEMMA IdleKeepsSearch ==
    ASSUME SearchInv, AskedInv', UNCHANGED <<settings, tree, changes, pc, req, searchVars, result, lacked, answer>>,
           \/ cache' = cache
           \/ \E k \in Keys : cache' = [cache EXCEPT ![k] = NoResource]
    PROVE  SearchInv'
<1>1. Types /\ \A q \in Requests : Progress(q) BY DEF SearchInv
<1>2. Types'
  <2>1. NoResource.coding = "identity" BY DEF NoResource
  <2> QED BY <1>1, <2>1 DEF Types, IsMap, searchVars
<1>3. ASSUME NEW q \in Requests PROVE Progress(q)'
  <2>1. Lacking(req[q].url)' = Lacking(req[q].url)
    BY LackingUnchanged DEF Lacking, Relevant, Status
  <2>2. Same(q) /\ lacked'[q] = lacked[q] BY DEF Same, searchVars
  <2> QED BY <1>1, <2>1, <2>2, StaysTrue DEF Progress, History
<1> QED BY <1>2, <1>3 DEF SearchInv

LEMMA SearchStep == SearchInv /\ [Next]_vars => SearchInv'
<1> SUFFICES ASSUME SearchInv, [Next]_vars PROVE SearchInv'
  OBVIOUS
<1>1. AskedInv' BY AskedStep DEF SearchInv
<1>2. ASSUME NEW r \in Requests, NEW url \in Urls, NEW header \in Headers,
             CallService(r, url, header)
             \/ \E c \in Connections : CallLayer(c, r, url, header)
      PROVE  SearchInv'
  BY <1>1, <1>2, BeginKeepsSearch DEF CallService, CallLayer
<1>3. ASSUME NEW r \in Requests, Advance(r) \/ Cancel(r) PROVE SearchInv'
  BY <1>1, <1>3, AdvanceKeepsSearch
<1>4. ASSUME NEW c \in Connections, PollReady(c) PROVE SearchInv'
  BY <1>1, <1>4, IdleKeepsSearch DEF PollReady, dirVars, treeVars
<1>5. CASE Environment
  <2>1. ASSUME NEW p \in Forms, Change(p) PROVE SearchInv'
    BY <1>1, <1>5, <2>1, ChangeKeepsSearch DEF Environment
  <2>2. ASSUME NEW k \in Keys, Evict(k) PROVE SearchInv'
    BY <1>1, <1>5, <2>2, IdleKeepsSearch DEF Environment, Evict, treeVars
  <2> QED BY <1>5, <2>1, <2>2 DEF Environment
<1>6. CASE UNCHANGED vars
  BY <1>1, <1>6, IdleKeepsSearch DEF vars, dirVars, treeVars
<1> QED BY <1>2, <1>3, <1>4, <1>5, <1>6 DEF Next

LEMMA SearchHolds == Spec => []SearchInv
<1>1. Init => AskedInv
  BY DEF Init, DirInit, AskedInv, ShapeInv, CacheInv, IsMap, RequestInv, NoAnswer
<1>2. Init => SearchInv
  <2> SUFFICES ASSUME Init PROVE SearchInv
    OBVIOUS
  <2>1. Types
    <3>1. Pending \in Results BY FileResult DEF Pending
    <3>2. NoResource.coding = "identity" BY DEF NoResource
    <3> QED BY <3>1, <3>2, ServedDirAssumption DEF Init, DirInit, Types, PcValues, IsMap
  <2>2. \A r \in Requests : Progress(r)
    BY DEF Init, DirInit, Progress, History, NoAnswer
  <2> QED BY <1>1, <2>1, <2>2 DEF SearchInv
<1> QED BY <1>2, SearchStep, PTL DEF Spec

\* A request that advances leaves the others alone.
LEMMA AdvanceIsAlone ==
    ASSUME NEW r \in Requests, Types, Advance(r) \/ Cancel(r)
    PROVE  Alone(r)
<1>1. CASE Get(r)
  <2>1. answer' = answer BY <1>1 DEF Get
  <2>2. CASE Hit(r) \/ CompressionFails(r) \/ SearchFails(r) \/ Create(r) \/ CreatePage(r) \/ CreateFails(r)
    BY <2>1, <2>2 DEF Hit, CompressionFails, SearchFails, Create, CreatePage, CreateFails, Return, Alone, Same,
         Types, IsMap, treeVars
  <2>3. CASE Miss(r) \/ TryIndex(r) \/ TryPage(r)
    BY <2>1, <2>3 DEF Miss, TryIndex, TryPage, Search, Alone, Same, Types, IsMap, treeVars
  <2>4. CASE Open(r) \/ SkipSibling(r)
    BY <2>1, <2>4 DEF Open, SkipSibling, Alone, Same, Types, IsMap, treeVars
  <2> QED BY <1>1, <2>2, <2>3, <2>4 DEF Get, GetStep
<1>2. CASE GetResponse(r) \/ AnswerOwn(r) \/ InnerAnswers(r) \/ PassOn(r)
  BY <1>2 DEF GetResponse, AnswerOwn, InnerAnswers, PassOn, Respond, Alone, Same, Types, IsMap,
       treeVars, searchVars
<1>3. CASE Finish(r) \/ Cancel(r)
  BY <1>3 DEF Finish, Cancel, Reset, Alone, Same, Types, IsMap, treeVars
<1> QED BY <1>1, <1>2, <1>3 DEF Advance

-----------------------------------------------------------------------------
(* The theorems *)

\* The types, for any configurations, URLs, headers and trees (served_dir.rs).
THEOREM TypeCorrect == Spec => []TypeOK
<1>1. SearchInv /\ ReadyInv /\ PermitsInv => TypeOK
  <2> SUFFICES ASSUME SearchInv, ReadyInv, PermitsInv PROVE TypeOK
    OBVIOUS
  <2>1. Types /\ \A r \in Requests : Progress(r) BY DEF SearchInv
  <2>2. \A r \in Requests : pc[r] = "search" => todo[r] # << >>
    BY <2>1 DEF Progress, Trying, Shape
  <2>3. permits \in 0 .. Permits
    BY Finite, ServicesAssumption DEF PermitsInv
  <2> QED BY <2>1, <2>2, <2>3 DEF TypeOK, Types, Asks, PcValues, PermitsInv
<1> QED BY <1>1, SearchHolds, ReadyHolds, PermitsHold, PTL

\* A file goes out in a coding that the client's own header suits, however headers
\* are written and whichever client had the resource cached (compression.rs:323-394).
THEOREM Coding == Spec => []CodingSuits
<1>1. SearchInv => CodingSuits
  <2> SUFFICES ASSUME SearchInv, NEW r \in Requests, pc[r] = "got"
               PROVE  Suits(req[r].header, result[r].resource.coding)
    BY DEF CodingSuits
  <2>1. Right(r, result[r]) /\ req[r] \in Asks BY DEF SearchInv, Progress, History
  <2>2. req[r].header \in HeaderSet
    BY <2>1, ServedDirAssumption DEF Asks, HeaderSet
  <2>3. CASE result[r].resource.coding = "identity" BY <2>3 DEF Suits
  <2>4. CASE result[r].resource.coding \in Detect(req[r].header)
    BY <2>2, <2>4, DetectSuits
  <2> QED BY <2>1, <2>3, <2>4 DEF Right, Accepted
<1> QED BY <1>1, SearchHolds, PTL

\* A worse form, another file or an error only if what was asked for was missing at
\* some time, though the tree changes between any two opens (served_dir.rs:236-250).
THEOREM Honest == Spec => []SearchIsHonest
<1>1. SearchInv => SearchIsHonest
  <2> SUFFICES ASSUME SearchInv, NEW r \in Requests, pc[r] = "got"
               PROVE  /\ settings.strategy.kind = "static" /\ ~ settings.caching
                           /\ result[r].resource \in Resources =>
                           \A c \in Wanted(r) :
                               <<c, result[r].resource.coding>> \in Better =>
                                   Lacked(r, <<result[r].resource.path, c>>)
                      /\ Straight /\ result[r].error = "not_found" => Lacked(r, Asked(r))
                      /\ ~ settings.caching /\ result[r].resource \in Resources
                           /\ result[r].resource.path # Target(req[r].url) =>
                           Lacked(r, Asked(r))
    BY DEF SearchIsHonest, Wanted, Accepted, Asked
  <2>1. Right(r, result[r]) BY DEF SearchInv, Progress
  <2> QED BY <2>1 DEF Right, BestOf, Beats, IsStatic
<1> QED BY <1>1, SearchHolds, PTL

\* Where a 404 comes without the configured page although that was there all the time,
\* a directory was asked for: one without index.html, or any if append_index_html is off.
OnlyDirectoriesLackThePage ==
    \A r \in Requests :
        Straight /\ Paged /\ answer[r].status = 404 /\ answer[r].resource = NoResource =>
            Lacked(r, Plain(settings.page)) \/ Asked(r) \in Directories

\* How far the first half of PageKeepsItsType fails: the page for missing files is left
\* out only for a directory, or if it was missing itself (served_dir.rs:236-250).
THEOREM Page == Spec => []OnlyDirectoriesLackThePage
<1>1. SearchInv => OnlyDirectoriesLackThePage
  BY DEF SearchInv, Progress, Pageless, OnlyDirectoriesLackThePage
<1> QED BY <1>1, SearchHolds, PTL

\* The inner service never gets a request for a file that was there all the time
\* (integration.rs:185-189).
THEOREM Rest == Spec => []InnerGetsTheRest
<1>1. SearchInv => InnerGetsTheRest
  BY DEF SearchInv, Progress, Asked, InnerGetsTheRest
<1> QED BY <1>1, SearchHolds, PTL

LEMMA Bound ==
    ASSUME NEW r \in Requests, SearchInv, pc[r] = "search"
    PROVE  Len(todo[r]) \in 1 .. 4 /\ Left(r) \in Nat \ {0}
           /\ (goal[r] = "target" => Left(r) = Len(todo[r]) + 4)
           /\ (goal[r] # "target" => Left(r) = Len(todo[r]))
<1>1. Len(todo[r]) \in 1 .. 4 BY DEF SearchInv, Progress, Trying, Shape
<1>2. Len(SiblingOrder) = 3 BY DEF SiblingOrder
<1>3. goal[r] = "target" => Left(r) = Len(todo[r]) + (Len(SiblingOrder) + 1)
  BY DEF Left
<1>4. goal[r] # "target" => Left(r) = Len(todo[r]) + 0
  BY DEF Left
<1> HIDE DEF Left
<1> DEFINE n == Len(todo[r])
<1> HIDE DEF n
<1>5. n \in 1 .. 4 /\ (goal[r] = "target" => Left(r) = n + 4) /\ (goal[r] # "target" => Left(r) = n)
  BY <1>1, <1>2, <1>3, <1>4 DEF n
<1>6. Left(r) \in Nat \ {0}
  BY <1>5
<1> QED BY <1>5, <1>6 DEF n

\* A search ends: each of its steps leaves less to try, whatever the other requests
\* and the file system do (served_dir.rs:236-250).
THEOREM Shrinks == Spec => SearchShrinks
<1>1. SearchInv /\ SearchInv' /\ [Next]_vars =>
        [\A r \in Requests :
           pc[r] = "search" => Left(r)' < Left(r) \/ UNCHANGED <<pc[r], goal[r], todo[r]>>]_vars
  <2> SUFFICES ASSUME SearchInv, SearchInv', [Next]_vars, NEW r \in Requests, pc[r] = "search"
               PROVE  Left(r)' < Left(r) \/ UNCHANGED <<pc[r], goal[r], todo[r]>>
    OBVIOUS
  <2>0. SearchInv /\ SearchInv' /\ pc[r] = "search" OBVIOUS
  <2>1. Types BY DEF SearchInv
  <2>2. ASSUME pc'[r] # "search" PROVE Left(r)' < Left(r)
    <3>1. Left(r)' = 0 BY <2>2 DEF Left
    <3>2. Left(r) \in Nat \ {0} BY <2>0, Bound
    <3> QED BY <3>1, <3>2
  <2>3. ASSUME NEW q \in Requests, Advance(q) \/ Cancel(q)
        PROVE  Left(r)' < Left(r) \/ UNCHANGED <<pc[r], goal[r], todo[r]>>
    <3>1. CASE q # r
      BY <2>1, <2>3, <3>1, AdvanceIsAlone DEF Alone, Same
    <3>2. CASE q = r /\ ~ (SkipSibling(r) \/ TryIndex(r) \/ TryPage(r))
      <4>1. pc'[r] # "search"
        BY <2>1, <2>3, <3>2 DEF Advance, Cancel, Get, GetStep, Hit, Miss, Open, CompressionFails, SearchFails, Create,
             CreatePage, CreateFails, Return, GetResponse, AnswerOwn, PassOn, InnerAnswers, Finish,
             Respond, Reset, Types
      <4> QED BY <2>2, <4>1
    <3>3. CASE SkipSibling(r)
      <4>1. todo'[r] = Tail(todo[r]) /\ pc' = pc /\ goal' = goal
        BY <2>1, <3>3 DEF SkipSibling, Types, IsMap
      <4>2. Len(Tail(todo[r])) = Len(todo[r]) - 1
        BY <3>3, TailShape, DetectCodings DEF SkipSibling, SearchInv, Progress, Trying, Accepted
      <4>3. Len(todo[r]) \in 1 .. 4 /\ Left(r) \in Nat \ {0} BY <2>0, Bound
      <4>4. goal[r] = "target" => Left(r)' < Left(r)
        <5>1. ASSUME goal[r] = "target" PROVE Left(r) = Len(todo[r]) + 4 BY <2>0, <5>1, Bound
        <5>2. pc'[r] = "search" /\ SearchInv' BY <2>0, <4>1
        <5>3. ASSUME goal[r] = "target" PROVE Left(r)' = Len(todo'[r]) + 4
          <6>1. goal'[r] = "target" BY <4>1, <5>3
          <6>2. Len(SiblingOrder) = 3 BY DEF SiblingOrder
          <6> QED BY <5>2, <6>1, <6>2 DEF Left
        <5> QED BY <4>1, <4>2, <4>3, <5>1, <5>3
      <4>5. goal[r] # "target" => Left(r)' < Left(r)
        <5>1. ASSUME goal[r] # "target" PROVE Left(r) = Len(todo[r]) BY <2>0, <5>1, Bound
        <5>2. ASSUME goal[r] # "target" PROVE Left(r)' = Len(todo'[r]) + 0
          BY <2>0, <4>1, <5>2 DEF Left
        <5> QED BY <4>1, <4>2, <4>3, <5>1, <5>2
      <4> QED BY <4>4, <4>5
    <3>4. CASE TryIndex(r) \/ TryPage(r)
      <4>1. goal[r] = "target" /\ goal'[r] # "target" /\ pc'[r] = "search"
        BY <2>1, <3>4 DEF TryIndex, TryPage, Search, Types
      <4>2. Left(r)' \in 1 .. 4
        <5>1. Len(todo'[r]) \in 1 .. 4
          BY <4>1 DEF SearchInv, Progress, Trying, Shape
        <5>2. Left(r)' = Len(todo'[r]) + 0 BY <4>1 DEF Left
        <5> QED BY <5>1, <5>2
      <4>3. Left(r) \in 5 .. 8
        <5>1. PICK n \in 1 .. 4 : Len(todo[r]) = n BY <2>0, Bound
        <5>2. Left(r) = n + 4 BY <2>0, <4>1, <5>1, Bound
        <5> QED BY <5>2
      <4> QED BY <4>2, <4>3
    <3> QED BY <3>1, <3>2, <3>3, <3>4
  <2>4. ASSUME NEW q \in Requests, NEW url \in Urls, NEW header \in Headers,
               CallService(q, url, header)
               \/ \E c \in Connections : CallLayer(c, q, url, header)
        PROVE  UNCHANGED <<pc[r], goal[r], todo[r]>>
    <3>1. Begin(q, url, header) BY <2>4 DEF CallService, CallLayer
    <3>2. pc[q] = "idle" BY <3>1 DEF Begin
    <3> QED BY <2>1, <3>1, <3>2 DEF Begin, Search, searchVars, Types, IsMap
  <2>5. CASE Environment \/ (\E c \in Connections : PollReady(c)) \/ UNCHANGED vars
    BY <2>5 DEF Environment, Change, Evict, PollReady, vars, dirVars, searchVars
  <2> QED BY <2>3, <2>4, <2>5 DEF Next
<1> QED BY <1>1, SearchHolds, PTL DEF Spec, SearchShrinks
=============================================================================
