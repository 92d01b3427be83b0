--------------------------- MODULE MCMigrateCharts ---------------------------
(* A small chart of two templates for TLC.                                 *)
EXTENDS MigrateCharts

MCWalk == <<"admin", "ingress">>
MCReferences == {"ref"}
MCCaptures == {"capture"}
MCSuffixed == [v \in {"60", "60s"} |-> "60s"]
MCDirectives ==
    [rewrites |-> {"rewrites"}, rewrite |-> {"rewrite"}, flags |-> {"flags", "other"},
     status |-> {"rewrite", "status", "other"}, other |-> {"other"}]
MCPaths == {"/a /b"}
MCOwnValues == [replicas |-> "1"]

Nginx(k, v) == Line("nginx", k, v)
Snippet(v) == Nginx("configuration-snippet", v)
\* Lines that have to do with one another, and those that stand for themselves.
Groups ==
    {<<Line("plain", "ssl-redirect", "false"), Nginx("ssl-redirect", "true"), Nginx("force-ssl-redirect", "true")>>,
     <<Nginx("limit-rps", "10"), Line("plain", "limit-rps", "20"), Nginx("limit-rpm", "ref"),
       Nginx("limit-connections", "5"), Snippet("flags")>>,
     <<Nginx("proxy-redirect-from", "off"), Nginx("proxy-redirect-to", "/")>>,
     <<Nginx("affinity", "cookie"), Line("kubernetes", "ingress.class", "nginx"), Snippet("rewrites")>>}
Alone ==
    {Nginx("rewrite-target", "capture"), Nginx("proxy-read-timeout", "60"), Nginx("auth-type", "digest"),
     Nginx("server-alias", "x"), Nginx("proxy-cookie-path", "/a /b"),
     Nginx("proxy-cookie-path", "ref"), Snippet("rewrite"), Snippet("status"), Snippet("other")}
Content(name, class, lines) ==
    [name |-> name, class |-> class, lines |-> lines, todos |-> 0, newline |-> TRUE]
OneOrTwo(g) ==
    {<<l>> : l \in Range(g)} \cup {<<g[p[1]], g[p[2]]>> : p \in {q \in (1 .. Len(g)) \X (1 .. Len(g)) : q[1] < q[2]}}
MCCharts ==
    [admin |-> {Content(name, "nginx", <<Nginx("limit-rps", "30")>>) : name \in {"n1", "n2"}}
               \cup {Content("n2", "apisix", <<>>)},
     ingress |-> {Content("n1", "nginx", ls) :
                    ls \in {<<l>> : l \in Alone} \cup UNION {OneOrTwo(g) : g \in Groups}}]
MCAnnotating == {Nginx("limit-rps", "40")}
=============================================================================
