--------------------------- MODULE MCBrotliCache ---------------------------
(* Small instances of BrotliCache for TLC. *)
EXTENDS BrotliCache, TLC

\* Versions 1 and 2 have one length and differ in modification time; version 3
\* is over the size limit.  Version 2 compresses better than version 1.
MCLenOf         == <<1, 1, 4>>
MCMtimeOf       == <<1, 2, 3>>
MCCompressedLen == <<2, 1, 3>>

CallSymmetry == Permutations(Calls)
=============================================================================
