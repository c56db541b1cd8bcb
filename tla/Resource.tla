------------------------------- MODULE Resource -------------------------------
(***************************************************************************)
(* Resources and how their bytes are read (src/src/resource.rs, and the    *)
(* Unix half of src/src/platform.rs).  A resource keeps the length it had  *)
(* when it was made, next to a handle of the open file or to bytes in      *)
(* memory.  Nothing ties that length to what a read returns: the operators *)
(* below say how many bytes that may be.                                   *)
(***************************************************************************)
EXTENDS Integers

CONSTANT ChunkSize   \* CHUNK_SIZE

ASSUME ChunkAssumption == ChunkSize \in Nat \ {0}

SmallerOf(a, b) == IF a < b THEN a ELSE b

\* Resource, by where its content is: an open file of that version, or as many
\* of its bytes as are held in memory.
FileResource(v, len)     == [content |-> "file", version |-> v, len |-> len, held |-> 0]
BytesResource(res, held) == [res EXCEPT !.content = "bytes", !.held = held]

\* Mutant of ReadRange: the bound of the bytes is off by one.
ReadRangeOffByOne(res, start, count, size) ==
    IF res.content = "file" THEN 1 .. SmallerOf(count, size - start)
    ELSE IF start + count >= res.held THEN {} ELSE {count}

\* ResourceContent::read_range for the count bytes from start, of a file that is
\* now size bytes long: the numbers of bytes it may return, none when it fails.
\* A file yields at least one byte and maybe fewer than asked, or fails with
\* UnexpectedEof; bytes yield all of the range or fail.
ReadRange(res, start, count, size) ==
    IF res.content = "file" THEN 1 .. SmallerOf(count, size - start)
    ELSE IF start + count > res.held THEN {} ELSE {count}

\* Resource::read_bytes: one read of the whole file, or all the bytes in memory.
ReadBytes(res, size) ==
    IF res.content = "file" THEN ReadRange(res, 0, res.len, size) ELSE {res.held}

\* A turn of Resource::get_range with start .. end left.
NextChunk(start, end) == SmallerOf(ChunkSize, end - start)
=============================================================================
