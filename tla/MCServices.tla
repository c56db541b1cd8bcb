----------------------------- MODULE MCServices -----------------------------
(* Small instances of Services for TLC. *)
EXTENDS Services, TLC

CONSTANTS r1, r2, c1

\* Nothing tells the two requests apart.
RequestSymmetry == Permutations({r1, r2})

Url(prefixed, components) == [prefixed |-> prefixed, components |-> components]

PageUrl   == Url(TRUE, <<".", "a.html">>)
DocsUrl   == Url(TRUE, <<"docs">>)
ParentUrl == Url(TRUE, <<"..", "a.html">>)
OtherUrl  == Url(FALSE, <<"a.html">>)
BelowUrl  == Url(TRUE, <<"a.html", "b">>)

MCUrls    == {PageUrl, DocsUrl, ParentUrl}
BelowUrls == {PageUrl, BelowUrl, OtherUrl}

\* One client takes all three codings; the other refuses Brotli, prefers the plain file
\* to Gzip and takes anything else.
MCHeaders == {<<Item("gzip", 900), Item("br", 500), Item("zstd", 600), Item("identity", 500)>>,
              <<Item("*", 500), Item("br", 0), Item("gzip", 400), Item("identity", 500)>>}
PlainHeaders == {<<>>, <<Item("br", Garbled)>>}

MCMayHold ==
    Plain(<<"a.html">>) :> {"file", "absent"}
    @@ <<<<"a.html">>, "br">> :> {"file", "absent"}
    @@ <<<<"a.html">>, "zstd">> :> {"file", "directory", "unreadable"}
    @@ <<<<"a.html">>, "gzip">> :> {"file"}
    @@ Plain(<<"docs">>) :> {"directory"}
    @@ Plain(<<"docs", "index.html">>) :> {"file", "absent"}
    @@ Plain(<<"404.html">>) :> {"file", "absent"}
FilesOnly ==
    Plain(<<"a.html">>) :> {"file", "absent"}

PageWithSibling ==
    Plain(<<"a.html">>) :> {"absent", "file"}
    @@ Plain(<<"404.html">>) :> {"file", "absent"}
    @@ <<<<"404.html">>, "br">> :> {"file", "absent"}

MCExtensionOf ==
    [n \in {"a.html", "index.html", "404.html"} |-> "html"] @@ [n \in {"docs", "b"} |-> ""]
MCKnownTypes == [html |-> "text/html", gz |-> "application/gzip"]

Static(codings) == [kind |-> "static", codings |-> codings]
None   == [kind |-> "none", codings |-> {}]
Cached == [kind |-> "cached", codings |-> {}]
Setting(strategy, appendIndex, page, handler, caching, layered, hashErrors) ==
    [strategy |-> strategy, appendIndex |-> appendIndex, page |-> page, handler |-> handler,
     caching |-> caching, layered |-> layered, hashErrors |-> hashErrors]

MCSettings ==
    {Setting(Static(Compressed), TRUE, <<"404.html">>, FALSE, FALSE, TRUE, {"io"}),
     Setting(Static({"br"}), TRUE, <<"404.html">>, FALSE, TRUE, FALSE, {"io"}),
     Setting(Cached, FALSE, NoPage, FALSE, FALSE, FALSE, {}),
     Setting(None, FALSE, <<"404.html">>, TRUE, FALSE, TRUE, {"not_found"})}
PageOnly  == {Setting(Static({"br"}), TRUE, <<"404.html">>, FALSE, FALSE, FALSE, {})}
LayerOnly == {Setting(None, TRUE, NoPage, FALSE, FALSE, TRUE, {})}
=============================================================================
