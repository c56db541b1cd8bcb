------------------------------- MODULE MCBody -------------------------------
(* Small instances of Body for TLC. *)
EXTENDS Body

\* Three parts: one longer than two reads, an empty one ("-0" parses to it) and a
\* short one.
MCHeaderLen == [i \in 0 .. 2 |-> 2 + i]
MCPartLen   == [i \in 0 .. 2 |-> IF i = 0 THEN 7 ELSE IF i = 1 THEN 0 ELSE 2]
MCRest      == [i \in 0 .. 3 |-> CASE i = 0 -> 21 [] i = 1 -> 12 [] i = 2 -> 9 [] OTHER -> 3]

\* Streams that yield what they should, one byte less and one more, and the
\* empty body of an empty file.
MCStreams ==
    {[len |-> 7, yields |-> y] : y \in 6 .. 8} \cup {[len |-> 0, yields |-> 0]}
=============================================================================
