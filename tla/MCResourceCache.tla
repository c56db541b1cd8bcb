--------------------------- MODULE MCResourceCache ---------------------------
(* A small instance of ResourceCache for TLC. *)
EXTENDS ResourceCache, TLC

\* The lengths of the two versions, in each coding; nothing is too heavy.
MCLenOf   == <<1, 2>>
MCMtimeOf == <<1, 1>>
MCEncodedLen == [identity |-> MCLenOf, br |-> <<1, 1>>]

\* A client that accepts Brotli and one that does not.
MCAccepts == [plain |-> {"identity"}, brotli |-> {"identity", "br"}]
=============================================================================
