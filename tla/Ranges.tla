------------------------------- MODULE Ranges -------------------------------
(***************************************************************************)
(* The Range header (src/src/range.rs).  A header is the sequence of its   *)
(* range specs; one that is missing, unreadable or in another unit is the  *)
(* empty sequence.  A spec is a record whose form says which of first and  *)
(* last it has; "bad" stands for whatever does not parse, a number of 2^64 *)
(* or more included.                                                       *)
(***************************************************************************)
EXTENDS Integers, Sequences

CONSTANT U64   \* 2^64

ASSUME WidthAssumption == U64 \in Nat \ {0}

NoHeader == << >>

Specs(numbers) ==
    [form : {"first-last", "first-", "-last", "bad"}, first : numbers, last : numbers]

\* A range is half open, as std::ops::Range.
Span(start, end)  == [kind |-> "parsed", start |-> start, end |-> end]
NotSatisfiable    == [kind |-> "not_satisfiable", start |-> 0, end |-> 0]
Unparsable        == [kind |-> "unparsable", start |-> 0, end |-> 0]

\* last + 1 in 64 bits; it wraps in a release build.
Next64(n) == IF n = U64 - 1 THEN 0 ELSE n + 1

\* The end of a spec that has a first byte: no further than the file.
EndOf(s, len) ==
    IF s.form = "first-" \/ Next64(s.last) > len THEN len ELSE Next64(s.last)

\* Mutant of ParseRange: the end is not limited to the file.
ParseRangeUnlimited(s, len) ==
    IF s.form = "bad" THEN Unparsable
    ELSE IF s.form = "-last" THEN
        IF s.last >= len THEN NotSatisfiable ELSE Span(len - s.last, len)
    ELSE IF s.form = "first-last" THEN Span(s.first, s.last + 1)
    ELSE IF s.first >= len THEN NotSatisfiable ELSE Span(s.first, len)

\* parse_range.
ParseRange(s, len) ==
    IF s.form = "bad" THEN Unparsable
    ELSE IF s.form = "-last" THEN
        IF s.last >= len THEN NotSatisfiable ELSE Span(len - s.last, len)
    ELSE IF s.first >= EndOf(s, len) THEN NotSatisfiable
    ELSE Span(s.first, EndOf(s, len))

\* parse: the ranges to serve, each under its place in the header.
Resolve(header, len) ==
    LET parsed    == [i \in DOMAIN header |-> ParseRange(header[i], len)]
        satisfied == {i \in DOMAIN header : parsed[i].kind = "parsed"}
    IN  IF header = NoHeader \/ \E i \in DOMAIN header : parsed[i].kind = "unparsable"
          THEN [kind |-> "none", ranges |-> << >>]
        ELSE IF satisfied = {} THEN [kind |-> "not_satisfiable", ranges |-> << >>]
        ELSE [kind |-> "ranges", ranges |-> [i \in satisfied |-> parsed[i]]]

\* The positions in a range.
Bytes(span) == span.start .. span.end - 1

-----------------------------------------------------------------------------
(* What RFC 7233 section 2.1 says a spec asks for, for comparison.         *)

Asked(s, len) ==
    CASE s.form = "first-last" -> {i \in 0 .. len - 1 : s.first <= i /\ i <= s.last}
      [] s.form = "first-"     -> {i \in 0 .. len - 1 : s.first <= i}
      [] s.form = "-last"      -> {i \in 0 .. len - 1 : len - s.last <= i}
      [] OTHER                 -> {}

\* What a whole header asks for.
AskedByAll(header, len) == UNION {Asked(header[i], len) : i \in DOMAIN header}
=============================================================================
