---------------------------- MODULE MCConverter ----------------------------
(* Small instances of Converter for TLC: Ingresses with every choice of a    *)
(* few annotations that have to do with one another, for each such group.    *)
EXTENDS Converter, FiniteSetsExt, TLC

MCNumber ==
    ("0" :> 0) @@ ("1" :> 1) @@ ("5" :> 5) @@ ("10" :> 10) @@ ("61" :> 61) @@ ("1728000" :> 1728000)
MCSeconds == ("1" :> "1s") @@ ("10" :> "10s")
MCHeaderVar ==
    ("x_real_ip" :> "http_x_real_ip") @@ ("http_via" :> "http_via")
    @@ ("x-forwarded-for" :> "http_x_forwarded_for")
MCHashKey == ("$http_via" :> [hashOn |-> "header", key |-> "via"])
             @@ ("$arg_user" :> [hashOn |-> "vars", key |-> "arg_user"])
MCBodySize == ("1" :> 1) @@ ("1k" :> 1024)

Says(rewrites, add, more, status, flags, errors) ==
    [rewrites |-> rewrites, add |-> add, more |-> more, status |-> status, flags |-> flags,
     errors |-> errors]
MCSnippet ==
    ("" :> Says(<<>>, {}, {}, "", {}, FALSE))
    @@ ("rewrite" :> Says(<<"a-b", "c-d">>, {}, {}, "", {}, FALSE))
    @@ ("headers" :> Says(<<>>, {"X", "Y"}, {"Y"}, "503", {}, FALSE))
    @@ ("flags" :> Says(<<>>, {}, {}, "", {"secure"}, TRUE))
    @@ ("usual" :> Says(<<>>, {}, {}, "429", {}, FALSE))
    @@ ("unknown" :> Says(<<>>, {}, {}, "", {}, FALSE))

MCRegexPaths == {"/r(.*)"}

\* Long names are cut to one another, and a policy's name to another policy's.
MCNames == {"app", "long-a", "long-b"}
Suffixes == {"plugins", "cookie-affinity", "hash-by", "upstream", "tls", "tls-1"}
MCCut == [c \in MCNames \X Suffixes |-> IF c[1] = "app" THEN "app-" \o c[2] ELSE "long"]

Booleans ==
    {"force-ssl-redirect", "enable-cors", "cors-allow-credentials", "use-regex", "enable-real-ip",
     "use-forwarded-headers", "compute-full-forwarded-for", "ssl-verify", "enable-access-log",
     "proxy-request-buffering", "ssl-redirect"}
Numbers ==
    {"limit-rps", "limit-rpm", "limit-multiplier", "limit-burst-multiplier", "cors-max-age",
     "session-cookie-expires", "session-cookie-max-age", "health-check-retries"}
Unhandled == {"affinity", "session-cookie-name", "canary", "auth-secret", "my-own"} \cup KeepAlive

MCVocabulary ==
    [s \in Handled \cup Unhandled |->
        CASE s \in Booleans -> {"true", "false"}
          [] s = "cors-max-age" -> {"0", "61", "1728000", "none"}
          [] s \in Numbers -> {"0", "1", "5", "61", "none"}
          [] s \in {t[1] : t \in Timeouts} \cup (HealthChecks \ Numbers) -> {"1", "10s"}
          [] s = "auth-type" -> {"basic", "digest", "key"}
          [] s = "proxy-redirect-from" -> {"http://", "/"}
          [] s = "proxy-redirect-to" -> {"https://", "/"}
          [] s = "proxy-body-size" -> {"1k", "none"}
          [] s = "proxy-cookie-path" -> {"rule", "unparsable"}
          [] s = "configuration-snippet" -> DOMAIN MCSnippet
          [] s = "cors-allow-origin" -> {"*", "here"}
          [] s \in {"cors-allow-methods", "cors-allow-headers"} -> {"default", "this"}
          [] s = "affinity" -> {"cookie", "other"}
          [] s = "session-cookie-hash" -> {"", "md5", "crc"}
          [] s = "session-cookie-name" -> {"", "route"}
          [] s = "upstream-hash-by" -> DOMAIN MCHashKey
          [] s = "forwarded-for-header" -> DOMAIN MCHeaderVar
          [] OTHER -> {"this", "that"}]

\* Every choice of some of the keys K and of their values.
Chosen(K) ==
    FoldSet(LAMBDA k, chosen : chosen \cup {(k :> v) @@ f : f \in chosen, v \in MCVocabulary[k[2]]},
            {<<>>}, K)
Nginx(S) == Chosen({"nginx"} \X S)

Path(p, t, s) == [path |-> p, type |-> t, service |-> s]
Plain == <<Path("/a", "Prefix", "svc")>>
Ing(ns, name, anns, paths, tls) ==
    [ns |-> ns, name |-> name, class |-> "nginx", anns |-> anns, paths |-> paths,
     backend |-> {}, tls |-> tls]
App(anns) == Ing("", "app", anns, Plain, <<>>)
Entry(h, s) == [hosts |-> h, secret |-> s]
Secured == {<<>>, <<Entry({}, "s"), Entry({"h"}, "s")>>}

Groups ==
    {{"enable-cors"} \cup (CorsOptions \ {"cors-allow-methods", "cors-allow-headers"}),
     {"enable-cors", "cors-allow-methods", "cors-allow-headers"},
     {"limit-rps", "limit-rpm", "limit-multiplier", "limit-burst-multiplier"},
     {"limit-rps", "configuration-snippet", "rewrite-target", "upstream-vhost"},
     {"enable-real-ip", "use-forwarded-headers", "compute-full-forwarded-for", "forwarded-for-header"},
     {"permanent-redirect", "temporal-redirect", "app-root"},
     {"affinity", "session-cookie-name", "session-cookie-hash", "upstream-hash-by", "affinity-mode"},
     {"affinity", "session-cookie-hash", "session-cookie-conditional-samesite-none",
      "session-cookie-expires", "session-cookie-max-age", "session-cookie-path"},
     {"ssl-redirect", "force-ssl-redirect", "proxy-redirect-from", "proxy-redirect-to"},
     HealthChecks, KeepAlive,
     {"auth-type", "auth-realm", "auth-secret"}}
Pairs == {{s, t} : s, t \in DOMAIN MCVocabulary}

\* One annotation under both prefixes.
BothPrefixes ==
    UNION {Chosen(NginxPrefixes \X {s}) : s \in {"session-cookie-hash", "ssl-redirect", "canary"}}

\* What an Ingress may have of APISIX already, and the annotations of nginx that write it.
Already ==
    {<<"apisix", "http-to-https">> :> "true", <<"apisix", "use-regex">> :> "true",
     <<"apisix", "enable-websocket">> :> "true"}
    \cup {<<"apisix", "http-redirect-code">> :> code : code \in {"302", "308"}}
    \cup {(<<"apisix", "http-redirect-code">> :> code) @@ (<<"apisix", "http-redirect">> :> "this") :
              code \in {"302", "308"}}
Said ==
    {(<<"apisix", "auth-uri">> :> "this") @@ (<<"apisix", "auth-type">> :> "basicAuth"),
     (<<"apisix", "upstream-read-timeout">> :> "1s") @@ (<<"apisix", "enable-access-log">> :> "false")}
Writers ==
    Nginx({"ssl-redirect", "force-ssl-redirect"}) \cup Nginx({"use-regex", "websocket-services"})
    \cup Nginx({"permanent-redirect", "temporal-redirect", "app-root"})

\* What else an Ingress may have beside nginx's annotations.
Others ==
    {<<>>, <<"kubernetes", "ingress.class">> :> "nginx", <<"kubernetes", "ingress.class">> :> "other",
     <<"apisix", "http-to-https">> :> "false", <<"apisix", "plugin-config-name">> :> "mine"}

Cookies == Nginx({"affinity", "upstream-hash-by"})
SomePaths ==
    {<<>>} \cup {<<Path(p, t, "svc"), Path("", "Exact", "")>> :
                     p \in {"/a", "/r(.*)"}, t \in PathTypes}

MCLists ==
    {<<App(a)>> : a \in UNION {Nginx(S) : S \in Groups \cup Pairs} \cup BothPrefixes}
    \cup {<<Ing("", "app", a @@ o, Plain, t)>> :
             a \in Nginx({"ssl-redirect", "limit-connections"}), o \in Others, t \in Secured}
    \cup {<<Ing("", "app", a @@ o, Plain, t)>> :
             a \in Writers, o \in Already \cup {<<>>}, t \in Secured}
    \cup {<<App(a @@ o)>> :
             a \in Nginx({"auth-url", "auth-type"}) \cup Nginx({"proxy-read-timeout", "enable-access-log"}),
             o \in Said}
    \cup {<<Ing("", "app", a, p, <<>>)>> :
             a \in Nginx({"rewrite-target", "use-regex"}) \cup Cookies, p \in SomePaths}
    \cup {<<Ing("", n, a, Plain, <<>>), Ing(ns, m, b, Plain, <<>>)>> :
             n, m \in MCNames, ns \in {"", "other"},
             a, b \in {<<>>} \cup {<<"nginx", "affinity">> :> "cookie", <<"nginx", "limit-rps">> :> "1"}}
=============================================================================
