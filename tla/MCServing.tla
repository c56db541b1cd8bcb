------------------------------ MODULE MCServing ------------------------------
(* Small instances of Serving for TLC. *)
EXTENDS Serving, TLC

CONSTANTS page, lost, c1

\* Two versions of one length and of one second.
MCLenOf   == <<5, 5>>
MCMtimeOf == <<2, 3>>
MCEncodedLen == [identity |-> MCLenOf, br |-> <<2, 2>>]

\* The file_hasher has no hash for one representation.
MCUnhashed == {[path |-> page, encoding |-> "br", version |-> 2]}
AllHashed  == {}

FromTo(a, b) == [form |-> "first-last", first |-> a, last |-> b]
Suffix(n)    == [form |-> "-last", first |-> 0, last |-> n]

\* Two parts, together shorter than the whole, and one that wraps around 2^64; a
\* part that goes beyond the end; a suffix, longer than a compressed file; one of no
\* bytes.
MCRangeHeaders ==
    {<<FromTo(0, 0), FromTo(3, 3), FromTo(0, 7)>>, <<FromTo(1, 6)>>, <<Suffix(4)>>,
     <<Suffix(0)>>}
=============================================================================
