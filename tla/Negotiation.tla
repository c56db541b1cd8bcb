----------------------------- MODULE Negotiation -----------------------------
(***************************************************************************)
(* Which content codings a client gets (src/src/compression.rs): what      *)
(* CompressionSupport::detect makes of an Accept-Encoding header, and the  *)
(* order in which find_file looks for forms of a file.                     *)
(*                                                                         *)
(* A header is the sequence of its comma-separated items.  An item names a *)
(* coding and its weight in thousandths, Garbled when parse_qvalue does    *)
(* not accept it.  A missing, an empty and a non-ASCII header have the     *)
(* same effect: the empty sequence stands for them.                        *)
(***************************************************************************)
EXTENDS Integers, Sequences, FiniteSets

Sets == INSTANCE FiniteSetsExt

Compressed == {"br", "zstd", "gzip"}   \* the fields of CompressionSupport
Codings    == Compressed \cup {"identity"}
Named      == Codings \cup {"*"}       \* what detect recognises in an item

Garbled == -1
Weights == {Garbled} \cup 0 .. 1000

Item(coding, weight) == [coding |-> coding, weight |-> weight]

At(header, coding) == {i \in DOMAIN header : header[i].coding = coding}

\* gzip_q, br_q, ... of detect with their defaults: a coding that is listed
\* twice has the last weight, one that is not listed has the weight of "*".
Weight(header, coding) ==
    LET own  == At(header, coding)
        star == At(header, "*")
    IN  IF own # {} THEN header[Sets!Max(own)].weight
        ELSE IF star # {} THEN header[Sets!Max(star)].weight ELSE 0

\* Mutant of Detect: the weight of the plain file does not count.
DetectAnyOffer(header) ==
    IF \E i \in DOMAIN header : header[i].weight = Garbled THEN {}
    ELSE {c \in Compressed : Weight(header, c) > 0}

\* CompressionSupport::detect, as the set of the codings it switches on.
Detect(header) ==
    IF \E i \in DOMAIN header : header[i].weight = Garbled THEN {}
    ELSE {c \in Compressed : /\ Weight(header, c) > 0
                             /\ Weight(header, c) >= Weight(header, "identity")}

\* Mutant of SiblingOrder: the most common coding first.
GzipFirst == <<"gzip", "br", "zstd">>

\* The order of find_file under static compression.
SiblingOrder == <<"br", "zstd", "gzip">>

\* CompressionStrategyInner.  "cached" hands the path to the BrotliCache,
\* "static" looks for sibling files in the codings the server has enabled.
Strategies == [kind : {"static", "cached", "none"}, codings : SUBSET Compressed]

\* What find_file tries one after the other.  "runtime" stands for a call of
\* BrotliCache::get, which the module BrotliCache models.
Candidates(strategy, accepted) ==
    CASE strategy.kind = "none" -> <<"identity">>
      [] strategy.kind = "cached" ->
           IF "br" \in accepted THEN <<"runtime">> ELSE <<"identity">>
      [] strategy.kind = "static" ->
           LET form(c) == IF c \in accepted \cap strategy.codings THEN <<c>> ELSE << >>
           IN  form(SiblingOrder[1]) \o form(SiblingOrder[2]) \o form(SiblingOrder[3])
                 \o <<"identity">>

-----------------------------------------------------------------------------
(* The reading of RFC 7231 section 5.3.4, for the properties *)

Lists(header, coding) == At(header, coding) # {}

\* Some item speaks for the coding: its own, or "*" if it has none.
Offers(header, coding) ==
    \E i \in DOMAIN header :
        /\ header[i].coding = coding \/ (header[i].coding = "*" /\ ~ Lists(header, coding))
        /\ header[i].weight > 0

\* The client asked for the plain file rather than for the coding, however repeated
\* items are read: what speaks for the coding weighs less than what names identity.
PrefersPlain(header, coding) ==
    /\ Lists(header, "identity")
    /\ \A j \in At(header, "identity"), i \in DOMAIN header :
         header[i].coding = coding \/ (header[i].coding = "*" /\ ~ Lists(header, coding))
             => header[i].weight < header[j].weight

Suits(header, coding) ==
    \/ coding = "identity"
    \/ Offers(header, coding) /\ ~ PrefersPlain(header, coding)
=============================================================================
