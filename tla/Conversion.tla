----------------------------- MODULE Conversion -----------------------------
(***************************************************************************)
(* What the converter makes of one Ingress (pkg/converter/converter.go):   *)
(* Convert and the builders it calls.  Nothing here has a state.           *)
(*                                                                         *)
(* An Ingress is a record: its namespace, name and class, its annotations, *)
(* the paths of all its rules and the entries of its spec.tls.  Values are *)
(* given trimmed and in lower case, as the code compares them; a number is *)
(* written as a numeral; a timeout has no unit, or is one of those Seconds *)
(* gives.  A configuration-snippet is a name of what Snippet says it says. *)
(* Rates are kept per minute.                                              *)
(***************************************************************************)
EXTENDS Annotations, Naturals, Sequences, FiniteSets

CONSTANTS
    Number,            \* a function from the numerals among the values to Nat
    Seconds,           \* a function from numerals to the same with its unit
    HeaderVar,         \* a function from header names to nginx's variables
    HashKey,           \* a function from values of upstream-hash-by to what they name
    BodySize,          \* a function from valid proxy-body-size values to bytes
    Snippet,           \* a function from snippets to the directives in them
    RegexPaths,        \* the paths that look like a regex
    Cut,               \* a function from names and suffixes to object names
    DefaultNamespace   \* the namespace of an Ingress that names none

\* What is not there is no number, and a snippet of nothing says nothing.
ASSUME NumeralAssumption ==
    /\ "" \notin DOMAIN Number \cup DOMAIN Seconds \cup DOMAIN BodySize
    /\ \A v \in DOMAIN Number : Number[v] \in Nat
    /\ \A v \in DOMAIN Seconds : Seconds[v] # ""
ASSUME SnippetAssumption ==
    LET says == Snippet[""]
    IN  /\ says.rewrites = <<>> /\ says.add = {} /\ says.more = {}
        /\ says.status = "" /\ says.flags = {} /\ ~says.errors
ASSUME NamespaceAssumption == DefaultNamespace # ""

IsNumber(v) == v \in DOMAIN Number
WithUnit(v) == IF v \in DOMAIN Seconds THEN Seconds[v] ELSE v

\* What is there if a condition holds.
When(c, x) == IF c THEN <<x>> ELSE <<>>

NamespaceOf(ing) == IF ing.ns = "" THEN DefaultNamespace ELSE ing.ns
NameOf(ing, suffix) == Cut[<<ing.name, suffix>>]

-----------------------------------------------------------------------------
(* Annotations of APISIX                                                   *)

\* Those that take over the value of an annotation of nginx as it is.
Renamed ==
    {<<"backend-protocol", "upstream-scheme">>,
     <<"whitelist-source-range", "allowlist-source-range">>,
     <<"denylist-source-range", "blocklist-source-range">>,
     <<"auth-url", "auth-uri">>, <<"auth-method", "auth-method">>,
     <<"auth-request-headers", "auth-request-headers">>,
     <<"auth-response-headers", "auth-upstream-headers">>,
     <<"auth-signin", "auth-signin">>, <<"auth-realm", "auth-realm">>,
     <<"custom-http-errors", "custom-error-codes">>}
Timeouts ==
    {<<"proxy-connect-timeout", "upstream-connect-timeout">>,
     <<"proxy-send-timeout", "upstream-send-timeout">>,
     <<"proxy-read-timeout", "upstream-read-timeout">>}

IsSSLRedirect(a) ==
    /\ Get(a, "proxy-redirect-from") \in {"http://", "http"}
    /\ Get(a, "proxy-redirect-to") \in {"https://", "https"}

HttpToHttps(a) ==
    IF Has(a, "force-ssl-redirect") \/ IsSSLRedirect(a) THEN "true"
    ELSE Get(a, "ssl-redirect")

\* The later ones of the three overwrite what the earlier ones wrote.
HttpRedirect(a) ==
    IF IsSet(a, "app-root") THEN Get(a, "app-root")
    ELSE IF IsSet(a, "temporal-redirect") THEN Get(a, "temporal-redirect")
    ELSE Get(a, "permanent-redirect")
HttpRedirectCode(a) ==
    IF IsSet(a, "temporal-redirect") THEN "302"
    ELSE IF IsSet(a, "permanent-redirect") THEN "308" ELSE ""

AuthType(a) ==
    CASE Get(a, "auth-type") = "basic" -> "basicAuth"
      [] Get(a, "auth-type") = "digest" -> ""
      [] OTHER -> Get(a, "auth-type")

AccessLog(a) ==
    IF ~IsSet(a, "enable-access-log") THEN ""
    ELSE IF Get(a, "enable-access-log") \in {"false", "off"} THEN "false" ELSE "true"

\* convertAnnotations; an annotation whose value would be "" is not written.
Written(a) ==
    LET pairs == {<<r[2], Get(a, r[1])>> : r \in Renamed}
                 \cup {<<r[2], WithUnit(Get(a, r[1]))>> : r \in Timeouts}
                 \cup {<<"http-to-https", HttpToHttps(a)>>,
                       <<"http-redirect", HttpRedirect(a)>>,
                       <<"http-redirect-code", HttpRedirectCode(a)>>,
                       <<"auth-type", AuthType(a)>>,
                       <<"enable-access-log", AccessLog(a)>>,
                       <<"enable-websocket", IF IsSet(a, "websocket-services") THEN "true" ELSE "">>,
                       <<"use-regex", IF Get(a, "use-regex") = "true" THEN "true" ELSE "">>}
    IN  {n \in pairs : n[2] # ""}
Annotated(pairs) ==
    [k \in {<<"apisix", n[1]>> : n \in pairs} |-> (CHOOSE n \in pairs : n[1] = k[2])[2]]
Native(a) == Annotated(Written(a))

\* fixPathTypes: the types it writes, and whether it asks for regexes.
\* (FixedTypeUnguarded: a faulty one, that changes every Prefix.)
HasRegex(p) == p.path \in RegexPaths
FixedTypeUnguarded(p) ==
    CASE p.type = "Prefix" -> "ImplementationSpecific"
      [] p.type = "ImplementationSpecific" /\ ~HasRegex(p) -> "Prefix"
      [] OTHER -> p.type
FixedType(p) ==
    CASE p.type = "Prefix" /\ HasRegex(p) -> "ImplementationSpecific"
      [] p.type = "ImplementationSpecific" /\ ~HasRegex(p) -> "Prefix"
      [] OTHER -> p.type
FixedPaths(ing) == [i \in DOMAIN ing.paths |-> [ing.paths[i] EXCEPT !.type = FixedType(ing.paths[i])]]
NeedsRegex(ing) == \E i \in DOMAIN ing.paths : HasRegex(ing.paths[i]) /\ ing.paths[i].type # "none"

\* The annotations that are not nginx's are kept, but for the class annotation
\* (KeptWithNginx: a faulty one, that keeps those of nginx as well).
KeptWithNginx(ing) ==
    {k \in DOMAIN ing.anns : ~(k = <<"kubernetes", "ingress.class">> /\ ing.anns[k] = "nginx")}
Kept(ing) ==
    {k \in DOMAIN ing.anns :
        ~IsNginx(k) /\ ~(k = <<"kubernetes", "ingress.class">> /\ ing.anns[k] = "nginx")}

\* The annotations of the converted Ingress.  Where several steps write one, the
\* last wins, and here stands first.  The default for TLS yields to anything.
At(c, s, v) == [k \in IF c THEN {<<"apisix", s>>} ELSE {} |-> v]
OutAnnotations(ing, sslRedirect, link) ==
    Over(At(link # "", "plugin-config-name", link),
     Over(At(NeedsRegex(ing), "use-regex", "true"),
      Over(Native(ing.anns),
       Over(Restricted(ing.anns, Kept(ing)),
            At(sslRedirect /\ ing.tls # <<>>, "http-to-https", "true")))))

-----------------------------------------------------------------------------
(* The ApisixPluginConfig: one builder per plugin, "" or no plugin if the  *)
(* annotations do not ask for it.                                          *)

Plugin(name, config) == [name |-> name, config |-> config]

\* limit-req.  Of limit-rps and limit-rpm the more restrictive is taken.
Scale(a) ==
    LET v == Get(a, "limit-multiplier") IN IF IsNumber(v) /\ Number[v] > 0 THEN Number[v] ELSE 1
Limits == {<<"limit-rps", 60>>, <<"limit-rpm", 1>>}
ParsedLimits(a) == {l \in Limits : IsNumber(Get(a, l[1]))}
PerMinute(a, l) == Number[Get(a, l[1])] * Scale(a) * l[2]
Lowest(rates) == CHOOSE r \in rates : \A q \in rates : r <= q
Rate(a) == Lowest({PerMinute(a, l) : l \in ParsedLimits(a)})
Burst(a) ==
    LET v == Get(a, "limit-burst-multiplier")
    IN  (Rate(a) * (IF IsNumber(v) /\ Number[v] > 0 THEN Number[v] ELSE 5)) \div 60

SnippetOf(a) == Snippet[Get(a, "configuration-snippet")]

LimitReq(a) ==
    When(ParsedLimits(a) # {},
         Plugin("limit-req",
                [rate |-> Rate(a), burst |-> Burst(a),
                 rejected_code |-> IF SnippetOf(a).status = "" THEN "429" ELSE SnippetOf(a).status]))

LimitConn(a) ==
    When(IsSet(a, "limit-connections"), Plugin("limit-conn", [conn |-> Get(a, "limit-connections")]))

ClientControl(a) ==
    When(Get(a, "proxy-body-size") \in DOMAIN BodySize,
         Plugin("client-control", [max_body_size |-> BodySize[Get(a, "proxy-body-size")]]))

ProxyControl(a) ==
    When(Get(a, "proxy-request-buffering") \in {"off", "false"},
         Plugin("proxy-control", [request_buffering |-> FALSE]))

\* rewrite-target rewrites every path there is, the snippet comes after.
RewrittenPaths(ing) ==
    IF IsSet(ing.anns, "rewrite-target") THEN {ing.paths[i].path : i \in DOMAIN ing.paths} \ {""} ELSE {}
ProxyRewrite(ing) ==
    When(RewrittenPaths(ing) # {} \/ SnippetOf(ing.anns).rewrites # <<>>,
         Plugin("proxy-rewrite",
                [paths |-> RewrittenPaths(ing),
                 target |-> IF RewrittenPaths(ing) = {} THEN "" ELSE Get(ing.anns, "rewrite-target"),
                 rewrites |-> SnippetOf(ing.anns).rewrites]))
UpstreamVhost(a) ==
    When(IsSet(a, "upstream-vhost"), Plugin("proxy-rewrite", [host |-> Get(a, "upstream-vhost")]))

\* A value of two words, by the name of the rule it is.
ProxyCookiePath(a) ==
    When(Get(a, "proxy-cookie-path") \notin {"", "unparsable"},
         Plugin("proxy-cookie-path", [path_pairs |-> Get(a, "proxy-cookie-path")]))
ProxyCookieFlags(a) ==
    When(SnippetOf(a).flags # {}, Plugin("proxy-cookie-flags", [rules |-> SnippetOf(a).flags]))

\* more_set_headers overrides add_header.
ResponseRewrite(a) ==
    LET add == SnippetOf(a).add
        more == SnippetOf(a).more
    IN  When(add \cup more # {},
             Plugin("response-rewrite",
                    [headers |-> [h \in add \cup more |-> IF h \in more THEN "more" ELSE "add"]]))

\* session-cookie-hash (HashIsNoDefault: a faulty one, with no default).
CookieAffinity(a) == Get(a, "affinity") = "cookie"
CookieName(a) == IF IsSet(a, "session-cookie-name") THEN Get(a, "session-cookie-name") ELSE "INGRESSCOOKIE"
HashIsNoDefault(a) == FALSE
HashIsDefault(a) == ~IsSet(a, "session-cookie-hash") /\ CookieAffinity(a)
Hash(a) == IF HashIsDefault(a) THEN "sha1" ELSE Get(a, "session-cookie-hash")
HashIsSupported(a) == Hash(a) \in {"sha1", "md5", "sha256"}
CookieAge(a) ==
    IF IsSet(a, "session-cookie-max-age") THEN Get(a, "session-cookie-max-age")
    ELSE Get(a, "session-cookie-expires")
SessionCookieHash(a) ==
    When(HashIsSupported(a),
         Plugin("session-cookie-hash",
                [cookie_name |-> CookieName(a), algorithm |-> Hash(a),
                 max_age |-> IF IsNumber(CookieAge(a)) THEN {Number[CookieAge(a)]} ELSE {},
                 cookie_path |-> Get(a, "session-cookie-path")]))

\* cors, for any enable-cors (CredentialsAlways: a faulty one, that has but the default).
CorsIsOn(a) == IsSet(a, "enable-cors")
CredentialsAlways(a) == TRUE
Credentials(a) == Get(a, "cors-allow-credentials") \in {"", "true"}
OrDefault(v, d) == IF v = "" THEN d ELSE v
Origin(a) == OrDefault(Get(a, "cors-allow-origin"), "*")
AnyOrigin(a) == Credentials(a) /\ Origin(a) = "*"
ListedOrigins(a) == IF AnyOrigin(a) THEN "" ELSE Origin(a)
RegexOrigins(a) == IF AnyOrigin(a) THEN ".*" ELSE ""
DefaultAge == 1728000
CorsAge(a) ==
    LET age == Get(a, "cors-max-age") IN IF IsNumber(age) THEN Number[age] ELSE DefaultAge
CorsConfig(a) ==
    [allow_methods |-> OrDefault(Get(a, "cors-allow-methods"), "default"),
     allow_headers |-> OrDefault(Get(a, "cors-allow-headers"), "default"),
     allow_credential |-> Credentials(a),
     max_age |-> CorsAge(a),
     allow_origins_by_regex |-> RegexOrigins(a),
     allow_origins |-> ListedOrigins(a),
     expose_headers |-> Get(a, "cors-expose-headers")]
Cors(a) == When(CorsIsOn(a), Plugin("cors", CorsConfig(a)))

\* real-ip
RealIPIsOn(a) ==
    \/ Get(a, "enable-real-ip") = "true"
    \/ IsSet(a, "forwarded-for-header")
    \/ IsSet(a, "use-forwarded-headers")
RealIP(a) ==
    When(RealIPIsOn(a),
         Plugin("real-ip",
                [source |-> IF IsSet(a, "forwarded-for-header") THEN HeaderVar[Get(a, "forwarded-for-header")]
                           ELSE "http_x_forwarded_for",
                 recursive |-> Get(a, "use-forwarded-headers") = "true"]))

Plugins(ing) ==
    LET a == ing.anns
    IN  LimitReq(a) \o LimitConn(a) \o ClientControl(a) \o ProxyControl(a) \o ProxyRewrite(ing)
        \o ProxyCookiePath(a) \o ProxyCookieFlags(a) \o ResponseRewrite(a)
        \o SessionCookieHash(a) \o Cors(a) \o UpstreamVhost(a) \o RealIP(a)

\* The plugin config, and the name the Ingress then links to (LinkAlways: a faulty
\* one, that does not ask whether there is a plugin config).
PluginConfigs(ing) ==
    When(Plugins(ing) # <<>>,
         [ns |-> NamespaceOf(ing), name |-> NameOf(ing, "plugins"), of |-> ing.name,
          plugins |-> Plugins(ing)])
LinkAlways(ing) == NameOf(ing, "plugins")
LinkTo(ing) == IF Plugins(ing) = <<>> THEN "" ELSE NameOf(ing, "plugins")

-----------------------------------------------------------------------------
(* The other resources                                                     *)

\* collectBackendServiceNames: the default backend's and the paths'.
Services(ing) == (ing.backend \cup {ing.paths[i].service : i \in DOMAIN ing.paths}) \ {""}

Policy(ing, suffix, on, key) ==
    [ns |-> NamespaceOf(ing), name |-> NameOf(ing, suffix), of |-> ing.name,
     services |-> Services(ing), hashOn |-> on, key |-> key]

Policies(ing) ==
    LET by == Get(ing.anns, "upstream-hash-by")
    IN  IF Services(ing) = {} THEN <<>>
        ELSE When(CookieAffinity(ing.anns),
                  Policy(ing, "cookie-affinity", "cookie", CookieName(ing.anns)))
             \o When(by # "", Policy(ing, "hash-by", HashKey[by].hashOn, HashKey[by].key))

\* buildHealthCheck, for any of its annotations, be it empty.
HealthChecks == {"health-check-path", "health-check-interval", "health-check-timeout", "health-check-retries"}
HealthChecked(a) == \E s \in HealthChecks : Has(a, s)
Upstreams(ing) ==
    LET a == ing.anns
        retries == Get(a, "health-check-retries")
    IN  When(HealthChecked(a),
             [ns |-> NamespaceOf(ing), name |-> NameOf(ing, "upstream"), of |-> ing.name,
              httpPath |-> OrDefault(Get(a, "health-check-path"), "/"),
              interval |-> WithUnit(Get(a, "health-check-interval")),
              timeout |-> WithUnit(Get(a, "health-check-timeout")),
              successes |-> IF IsNumber(retries) /\ Number[retries] > 0 THEN {Number[retries]} ELSE {}])

\* buildApisixTls: one per entry of spec.tls that has hosts and a secret.
TlsSuffix(i) == IF i = 1 THEN "tls" ELSE "tls-1"
Tls(ing) ==
    {[ns |-> NamespaceOf(ing), name |-> NameOf(ing, TlsSuffix(i)), of |-> ing.name,
      hosts |-> ing.tls[i].hosts, secret |-> ing.tls[i].secret] :
        i \in {j \in DOMAIN ing.tls : ing.tls[j].hosts # {} /\ ing.tls[j].secret # ""}}

-----------------------------------------------------------------------------
(* Warnings, by the suffix they are about.  One of kind "lost" says that   *)
(* the annotation cannot be converted, one of kind "note" anything else.   *)

\* handledAnnotations
Handled ==
    {"enable-cors", "cors-allow-origin", "cors-allow-methods", "cors-allow-headers",
     "cors-allow-credentials", "cors-max-age", "cors-expose-headers",
     "ssl-redirect", "force-ssl-redirect", "proxy-redirect-from", "proxy-redirect-to",
     "rewrite-target", "use-regex", "configuration-snippet", "upstream-vhost",
     "proxy-connect-timeout", "proxy-send-timeout", "proxy-read-timeout", "backend-protocol",
     "whitelist-source-range", "denylist-source-range", "websocket-services",
     "auth-url", "auth-method", "auth-request-headers", "auth-response-headers",
     "auth-type", "auth-signin", "auth-realm",
     "session-cookie-hash", "session-cookie-expires", "session-cookie-max-age",
     "session-cookie-path", "session-cookie-conditional-samesite-none", "proxy-cookie-path",
     "limit-rps", "limit-rpm", "limit-connections", "limit-burst-multiplier", "limit-multiplier",
     "proxy-body-size", "proxy-request-buffering", "enable-real-ip", "use-forwarded-headers",
     "compute-full-forwarded-for", "forwarded-for-header", "ssl-verify", "enable-access-log",
     "upstream-hash-by", "permanent-redirect", "temporal-redirect", "app-root",
     "custom-http-errors", "affinity-mode"} \cup HealthChecks

\* What other conversions consume, though the table does not have it
\* (ConsumedNever: a faulty one, that forgets them).
ConsumedNever(a) == {}
Consumed(a) ==
    (IF Has(a, "session-cookie-hash") THEN {"session-cookie-name"} ELSE {})
    \cup (IF CookieAffinity(a) THEN {"affinity", "session-cookie-name"} ELSE {})

\* warnUnhandledAnnotations, of known and of unknown annotations.
Lost(a) == {k[2] : k \in {l \in DOMAIN a : IsNginx(l)}} \ (Handled \cup Consumed(a))

KeepAlive ==
    {"upstream-keepalive-connections", "upstream-keepalive-requests", "upstream-keepalive-timeout"}
Unparsed(a, s) == IsSet(a, s) /\ ~IsNumber(Get(a, s))

If(c, S) == IF c THEN S ELSE {}
Noted(a, services) ==
    LET noServices == services = {}
        bothSet == IsSet(a, "proxy-redirect-from") /\ IsSet(a, "proxy-redirect-to")
        unnamed == ~Has(a, "session-cookie-name")
    IN  If(Get(a, "auth-type") = "digest", {"auth-type"})
        \cup {l[1] : l \in {m \in Limits : Unparsed(a, m[1])}}
        \cup If(ParsedLimits(a) = Limits, {"limit-rps", "limit-rpm"})
        \cup If(Get(a, "proxy-body-size") \notin DOMAIN BodySize \cup {""}, {"proxy-body-size"})
        \cup If(bothSet /\ ~IsSSLRedirect(a), {"proxy-redirect-from", "proxy-redirect-to"})
        \cup If(Get(a, "proxy-cookie-path") = "unparsable", {"proxy-cookie-path"})
        \cup If(HashIsDefault(a) \/ (Hash(a) # "" /\ ~HashIsSupported(a)), {"session-cookie-hash"})
        \cup If(HashIsSupported(a) /\ unnamed, {"session-cookie-name"})
        \cup If(HashIsSupported(a) /\ IsSet(a, "session-cookie-conditional-samesite-none"),
                {"session-cookie-conditional-samesite-none"})
        \cup If(RealIPIsOn(a) /\ Get(a, "compute-full-forwarded-for") = "true",
                {"compute-full-forwarded-for"})
        \cup If(RealIPIsOn(a) /\ ~IsSet(a, "enable-real-ip"), {"enable-real-ip"})
        \cup If(IsSet(a, "ssl-verify"), {"ssl-verify"})
        \cup If(CookieAffinity(a) /\ noServices, {"affinity"})
        \cup If(CookieAffinity(a) /\ ~noServices /\ unnamed, {"session-cookie-name"})
        \cup If(IsSet(a, "upstream-hash-by") /\ noServices, {"upstream-hash-by"})
        \cup If(HealthChecked(a) /\ ~IsSet(a, "health-check-path"), {"health-check-path"})
        \cup {s \in KeepAlive : Has(a, s)}
        \cup If(SnippetOf(a).errors, {"configuration-snippet"})

-----------------------------------------------------------------------------
\* Convert: an Ingress of whatever class becomes one of APISIX.
Warnings(ing) ==
    {[ingress |-> <<ing.ns, ing.name>>, kind |-> "lost", about |-> s] : s \in Lost(ing.anns)}
    \cup {[ingress |-> <<ing.ns, ing.name>>, kind |-> "note", about |-> s] : s \in Noted(ing.anns, Services(ing))}
OutIngress(ing, sslRedirect) ==
    [ns |-> NamespaceOf(ing), name |-> ing.name, class |-> "apisix",
     anns |-> OutAnnotations(ing, sslRedirect, LinkTo(ing)), paths |-> FixedPaths(ing),
     backend |-> ing.backend, tls |-> ing.tls]
Convert(ing, sslRedirect) ==
    [ingresses |-> <<OutIngress(ing, sslRedirect)>>, plugins |-> PluginConfigs(ing),
     policies |-> Policies(ing), upstreams |-> Upstreams(ing), tls |-> Tls(ing),
     warnings |-> Warnings(ing)]
=============================================================================
