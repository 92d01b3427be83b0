----------------------------- MODULE Converter -----------------------------
(***************************************************************************)
(* ConvertList (pkg/converter/converter.go): the Ingresses of a list are   *)
(* converted one after the other and the results appended.  A converted    *)
(* Ingress shares its rules with the one it was made of, so that the types *)
(* of the paths change in both.                                            *)
(*                                                                         *)
(* The output is fit to be an input again: Rerun is a user who gives the   *)
(* program the file it has written.                                        *)
(***************************************************************************)
EXTENDS Conversion

CONSTANT
    Lists          \* the lists of Ingresses to convert

PathTypes == {"none", "Exact", "Prefix", "ImplementationSpecific"}

IsIngress(ing) ==
    /\ \A k \in DOMAIN ing.anns : k[1] \in Prefixes
    /\ \A i \in DOMAIN ing.paths : ing.paths[i].type \in PathTypes

\* The parts of an Ingress are what Conversion says; a name that is cut is not cut to nothing.
IsWhole(ing) ==
    /\ ing = [ns |-> ing.ns, name |-> ing.name, class |-> ing.class, anns |-> ing.anns,
              paths |-> ing.paths, backend |-> ing.backend, tls |-> ing.tls]
    /\ ing.anns = [k \in DOMAIN ing.anns |-> ing.anns[k]]
    /\ \A k \in DOMAIN ing.anns : IsNginx(k) => k = <<k[1], k[2]>>
    /\ ing.paths \in Seq({ing.paths[i] : i \in DOMAIN ing.paths})
    /\ \A i \in DOMAIN ing.paths :
        LET p == ing.paths[i] IN p = [path |-> p.path, type |-> p.type, service |-> p.service]
    /\ Cut[<<ing.name, "plugins">>] # ""

ASSUME ListAssumption ==
    \A l \in Lists :
        /\ l \in Seq({l[i] : i \in DOMAIN l})
        /\ \A i \in DOMAIN l : IsIngress(l[i]) /\ IsWhole(l[i])

VARIABLES
    ingresses,     \* the list
    sslRedirect,   \* the option --ssl-redirect
    at,            \* the next Ingress to convert
    result,        \* the ConversionResult so far
    first          \* history: the results of the runs before this one

vars == <<ingresses, sslRedirect, at, result, first>>

Nothing == [ingresses |-> <<>>, plugins |-> <<>>, policies |-> <<>>, upstreams |-> <<>>,
            tls |-> {}, warnings |-> {}]

\* Appending one result to another.
Joined(r, s) ==
    [ingresses |-> r.ingresses \o s.ingresses, plugins |-> r.plugins \o s.plugins,
     policies |-> r.policies \o s.policies, upstreams |-> r.upstreams \o s.upstreams,
     tls |-> r.tls \cup s.tls, warnings |-> r.warnings \cup s.warnings]

Init ==
    /\ ingresses \in Lists
    /\ sslRedirect \in BOOLEAN
    /\ at = 1
    /\ result = Nothing
    /\ first = <<>>

\* The Ingress that was converted, its paths being the converted one's.
Fixed(ing) == [ing EXCEPT !.paths = FixedPaths(ing)]

ConvertNext ==
    /\ at <= Len(ingresses)
    /\ result' = Joined(result, Convert(ingresses[at], sslRedirect))
    /\ ingresses' = [ingresses EXCEPT ![at] = Fixed(ingresses[at])]
    /\ at' = at + 1
    /\ UNCHANGED <<sslRedirect, first>>

Done == at > Len(ingresses)

Rerun ==
    /\ Done
    /\ first = <<>>
    /\ ingresses' = result.ingresses
    /\ at' = 1
    /\ result' = Nothing
    /\ first' = <<result>>
    /\ UNCHANGED sslRedirect

Next == ConvertNext \/ Rerun

Spec == Init /\ [][Next]_vars

-----------------------------------------------------------------------------
(* Types *)

\* What comes out has a namespace, the class and no annotation of nginx's.
IsConverted(ing) ==
    /\ IsIngress(ing)
    /\ ing.class = "apisix" /\ ing.ns # ""
    /\ \A k \in DOMAIN ing.anns : ~IsNginx(k)

\* What the variables hold: one converted Ingress for each that has been converted,
\* with nothing of nginx left in it (converter.go:323-377).
TypeOK ==
    /\ \A i \in DOMAIN ingresses : IsIngress(ingresses[i])
    /\ at \in 1 .. Len(ingresses) + 1
    /\ Len(result.ingresses) = at - 1
    /\ \A i \in DOMAIN result.ingresses : IsConverted(result.ingresses[i])
    /\ Len(first) <= 1

-----------------------------------------------------------------------------
(* Properties *)

FirstRun == first = <<>> /\ Done
Of(ing) == <<ing.ns, ing.name>>
Warned(ing, s) == \E w \in result.warnings : w.ingress = Of(ing) /\ w.about = s

Without(ing, s) == [ing EXCEPT !.anns = Restricted(@, DOMAIN @ \ (NginxPrefixes \X {s}))]

\* The result would be another if the annotation were not there.
Matters(ing, s) == Convert(Without(ing, s), sslRedirect) # Convert(ing, sslRedirect)

\* What a converted Ingress has of an annotation of APISIX's that no one of nginx's writes.
Otherwise(ing, n) ==
    IF <<"apisix", n>> \in DOMAIN ing.anns THEN ing.anns[<<"apisix", n>>]
    ELSE IF n = "http-to-https" /\ sslRedirect /\ ing.tls # <<>> THEN "true" ELSE ""

\* An annotation that asks for nothing, whatever it says: one that another one has
\* to switch on, that multiplies a rate of nothing, or whose part another one does.
CorsOptions ==
    {"cors-allow-origin", "cors-allow-methods", "cors-allow-headers",
     "cors-allow-credentials", "cors-max-age", "cors-expose-headers"}
SessionOptions ==
    {"session-cookie-expires", "session-cookie-max-age", "session-cookie-path",
     "session-cookie-conditional-samesite-none"}
SaysHttps(ing) ==
    \/ Get(ing.anns, "ssl-redirect") = "true"
    \/ ~IsSet(ing.anns, "ssl-redirect") /\ Otherwise(ing, "http-to-https") = "true"
Idle(ing, s) ==
    LET a == ing.anns
    IN  \/ s \in CorsOptions /\ ~IsSet(a, "enable-cors")
        \/ s \in {"limit-multiplier", "limit-burst-multiplier"}
              /\ (ParsedLimits(a) = {} \/ Rate(a) = 0)
        \/ s \in SessionOptions /\ ~HashIsSupported(a)
        \/ s = "session-cookie-name" /\ s \in Consumed(a) /\ ~HashIsSupported(a)
              /\ (~CookieAffinity(a) \/ Services(ing) = {})
        \/ s \in {"proxy-redirect-from", "proxy-redirect-to"}
              /\ ~(IsSet(a, "proxy-redirect-from") /\ IsSet(a, "proxy-redirect-to"))
        \/ s \in {"proxy-redirect-from", "proxy-redirect-to"} /\ IsSSLRedirect(a)
              /\ (Has(a, "force-ssl-redirect") \/ SaysHttps(ing))
        \/ s = "force-ssl-redirect" /\ (IsSSLRedirect(a) \/ SaysHttps(ing))
        \/ s = "ssl-redirect" /\ (IsSSLRedirect(a) \/ Has(a, "force-ssl-redirect"))
        \/ s = "permanent-redirect" /\ IsSet(a, "temporal-redirect")
        \/ s = "permanent-redirect" /\ IsSet(a, "app-root") /\ Otherwise(ing, "http-redirect-code") = "308"
        \/ s = "temporal-redirect" /\ IsSet(a, "app-root") /\ ~IsSet(a, "permanent-redirect")
              /\ Otherwise(ing, "http-redirect-code") = "302"
        \/ s = "rewrite-target" /\ \A i \in DOMAIN ing.paths : ing.paths[i].path = ""
        \/ s = "use-regex" /\ (NeedsRegex(ing) \/ Otherwise(ing, "use-regex") = "true")
        \/ s = "websocket-services" /\ Otherwise(ing, "enable-websocket") = "true"
        \/ s = "compute-full-forwarded-for" /\ ~RealIPIsOn(a)

\* An annotation that says no more than APISIX's own annotation, or another one of
\* nginx's that it overrides, says without it.
Landing(ing) ==
    IF IsSet(ing.anns, "temporal-redirect") THEN Get(ing.anns, "temporal-redirect")
    ELSE IF IsSet(ing.anns, "permanent-redirect") THEN Get(ing.anns, "permanent-redirect")
    ELSE Otherwise(ing, "http-redirect")
Repeats(ing, s) ==
    LET a == ing.anns
        v == Get(a, s)
    IN  \/ \E r \in Renamed : s = r[1] /\ v = Otherwise(ing, r[2])
        \/ \E r \in Timeouts : s = r[1] /\ WithUnit(v) = Otherwise(ing, r[2])
        \/ s = "ssl-redirect" /\ v = Otherwise(ing, "http-to-https")
        \/ s = "auth-type" /\ v # "digest" /\ AuthType(a) = Otherwise(ing, "auth-type")
        \/ s = "enable-access-log" /\ AccessLog(a) = Otherwise(ing, "enable-access-log")
        \/ s = "app-root" /\ v = Landing(ing)
        \/ /\ s \in {"temporal-redirect", "permanent-redirect"}
           /\ \A t \in {"app-root", "temporal-redirect", "permanent-redirect"} \ {s} : ~IsSet(a, t)
           /\ v = Otherwise(ing, "http-redirect")
           /\ HttpRedirectCode(a) = Otherwise(ing, "http-redirect-code")
        \/ /\ s = "session-cookie-max-age" /\ IsNumber(v)
           /\ IsNumber(Get(a, "session-cookie-expires"))
           /\ Number[v] = Number[Get(a, "session-cookie-expires")]

\* An annotation that says what nginx and the plugin do without it: a switch that is
\* not on, the default of a setting, a burst that is rounded to the default one.
TakesNothingElse(snippet) ==
    LET says == Snippet[snippet]
    IN  says.rewrites = <<>> /\ says.add \cup says.more = {} /\ says.flags = {} /\ ~says.errors
SwitchesOnRealIP(a, S) ==
    \/ "enable-real-ip" \in S /\ Get(a, "enable-real-ip") = "true"
    \/ \E s \in S \ {"enable-real-ip"} : IsSet(a, s)
Default(ing, s) ==
    LET a == ing.anns
        v == Get(a, s)
    IN  \/ s \in {"use-regex", "compute-full-forwarded-for"} /\ v # "true"
        \/ s = "enable-real-ip" /\ ~RealIPIsOn(a)
        \/ s = "use-forwarded-headers" /\ v # "true"
              /\ SwitchesOnRealIP(a, {"enable-real-ip", "forwarded-for-header"})
        \/ s = "forwarded-for-header" /\ HeaderVar[v] = "http_x_forwarded_for"
              /\ SwitchesOnRealIP(a, {"enable-real-ip", "use-forwarded-headers"})
        \/ s = "proxy-request-buffering" /\ v \notin {"off", "false"}
        \/ s = "cors-allow-origin" /\ v = "*"
        \/ s \in {"cors-allow-methods", "cors-allow-headers"} /\ v = "default"
        \/ s = "cors-allow-credentials" /\ v = "true"
        \/ s = "cors-max-age" /\ IsNumber(v) /\ Number[v] = DefaultAge
        \/ s = "limit-multiplier" /\ IsNumber(v) /\ Number[v] = 1
        \/ s = "limit-burst-multiplier" /\ Burst(a) = (Rate(a) * 5) \div 60
              /\ IsNumber(v) /\ Number[v] > 0
        \/ s = "configuration-snippet" /\ Snippet[v].status = "429" /\ TakesNothingElse(v)

\* What the converter is known to drop with no word: an annotation it never reads, the
\* expiry of a cookie that has a maximal age, a number that it cannot read or, where 0
\* makes no sense, 0 (converter.go:985, 990, 1065, 1519, 1601), and a snippet it finds
\* nothing in that it knows (742, 896, 911, 1664), or only a status nothing is rejected with.
IsPositive(v) == IsNumber(v) /\ Number[v] > 0
Dropped(ing, s) ==
    LET a == ing.anns
        v == Get(a, s)
    IN  \/ s = "affinity-mode"
        \/ s = "session-cookie-expires" /\ IsSet(a, "session-cookie-max-age")
        \/ s \in {"cors-max-age", "session-cookie-expires"} /\ ~IsNumber(v)
        \/ s = "session-cookie-max-age" /\ ~IsNumber(v) /\ ~IsNumber(Get(a, "session-cookie-expires"))
        \/ s \in {"limit-multiplier", "limit-burst-multiplier"} /\ ~IsPositive(v)
        \/ s = "health-check-retries" /\ ~IsPositive(v) /\ \E t \in HealthChecks \ {s} : Has(a, t)
        \/ s = "configuration-snippet" /\ TakesNothingElse(v)
              /\ (Snippet[v].status = "" \/ ParsedLimits(a) = {})

\* An annotation of nginx that asks for something is converted or reported: the result,
\* warnings included, would be another if it were not there (converter.go:381-439,
\* against the builders at 455-1700).  The exceptions are those of Dropped; what asks
\* for nothing is what Idle, Repeats and Default say.
NothingSilentlyLost ==
    FirstRun =>
        \A i \in DOMAIN ingresses :
            LET ing == ingresses[i]
            IN  \A s \in {k[2] : k \in {l \in DOMAIN ing.anns : IsNginx(l)}} :
                    \/ ~IsSet(ing.anns, s) \/ Idle(ing, s) \/ Repeats(ing, s) \/ Default(ing, s)
                    \/ Dropped(ing, s)
                    \/ Matters(ing, s)

\* What is reported as impossible to convert made no difference to anything but the
\* warnings, in an Ingress of the name reported: nobody is asked to do again what has
\* been done (converter.go:402-425).
Resources(r) == [r EXCEPT !.warnings = {}]
NoFalseAlarm ==
    FirstRun =>
        \A w \in {x \in result.warnings : x.kind = "lost"} :
            \E i \in DOMAIN ingresses :
                /\ w.ingress = Of(ingresses[i])
                /\ Resources(Convert(Without(ingresses[i], w.about), sslRedirect))
                       = Resources(Convert(ingresses[i], sslRedirect))

\* "Output includes: A BackendTrafficPolicy using loadbalancer.hashOn: cookie [..] An
\* ApisixPluginConfig using the custom session-cookie-hash plugin. A plugin-config-name
\* annotation" (README.md:82-88): for cookie affinity, the cookie that the policy hashes
\* on is the one that the linked plugin sets, and defaults are reported; only a hash
\* that is not supported, which is reported too, leaves the cookie to nobody.
AffinityWorks ==
    FirstRun =>
        \A i \in DOMAIN ingresses :
            LET ing == ingresses[i]
                out == result.ingresses[i]
            IN  CookieAffinity(ing.anns) /\ Services(ing) # {} =>
                    \E p \in {result.policies[j] : j \in DOMAIN result.policies} :
                        /\ p.of = ing.name /\ p.ns = out.ns
                        /\ p.hashOn = "cookie" /\ p.services = Services(ing)
                        /\ \/ \E j \in DOMAIN result.plugins :
                                LET pc == result.plugins[j]
                                IN  /\ pc.ns = out.ns /\ pc.of = ing.name
                                    /\ pc.name = ValueOf(out.anns, <<"apisix", "plugin-config-name">>)
                                    /\ \E x \in DOMAIN pc.plugins :
                                        /\ pc.plugins[x].name = "session-cookie-hash"
                                        /\ pc.plugins[x].config.cookie_name = p.key
                           \/ IsSet(ing.anns, "session-cookie-hash") /\ Warned(ing, "session-cookie-hash")
                        /\ ~Has(ing.anns, "session-cookie-hash") => Warned(ing, "session-cookie-hash")
                        /\ ~Has(ing.anns, "session-cookie-name") =>
                               p.key = "INGRESSCOOKIE" /\ Warned(ing, "session-cookie-name")

\* A converted Ingress links to a plugin config made of itself, under the name and in
\* the namespace it will be looked up, and no other one of the list takes that name,
\* unless cutting names has made two equal (converter.go:38-52, 1217-1229).
CutApart(i, j) == Cut[<<ingresses[i].name, "plugins">>] # Cut[<<ingresses[j].name, "plugins">>]
LinksResolve ==
    FirstRun =>
        \A i \in DOMAIN ingresses :
            LET link == ValueOf(result.ingresses[i].anns, <<"apisix", "plugin-config-name">>)
                own == {j \in DOMAIN result.plugins :
                            /\ result.plugins[j].name = link
                            /\ result.plugins[j].ns = result.ingresses[i].ns}
            IN  \/ link = ValueOf(ingresses[i].anns, <<"apisix", "plugin-config-name">>)
                \/ \E j \in own :
                      /\ result.plugins[j].of = ingresses[i].name
                      /\ own = {j} \/ \E h \in DOMAIN ingresses : h # i /\ ~CutApart(h, i)

\* Converting what was converted changes no Ingress, makes no resource but those of
\* spec.tls again, and warns of nothing.
ConvertsOnce ==
    first # <<>> /\ Done =>
        /\ result.ingresses = first[1].ingresses /\ result.tls = first[1].tls
        /\ result.plugins = <<>> /\ result.policies = <<>> /\ result.upstreams = <<>>
        /\ result.warnings = {}

\* "CORS -> cors plugin config (always when enable-cors is true)" (converter.go:1020).
CorsOnlyWhenTrue ==
    FirstRun =>
        \A i \in DOMAIN ingresses : \A j \in DOMAIN result.plugins :
            LET pc == result.plugins[j]
            IN  pc.of = ingresses[i].name /\ (\E x \in DOMAIN pc.plugins : pc.plugins[x].name = "cors")
                    => Get(ingresses[i].anns, "enable-cors") = "true"
=============================================================================
