--------------------------- MODULE ChartTemplates ---------------------------
(***************************************************************************)
(* What the migrator makes of one Ingress template                         *)
(* (pkg/charts/migrator.go, migrateFileContent).  Nothing here has a state. *)
(*                                                                         *)
(* A template is a record: the name its plugin config would get, its       *)
(* ingressClassName, the lines of its annotations in their order, how many *)
(* TODO comments there are, and whether it ends in a newline.  It holds    *)
(* one Ingress.  A line is a record of a prefix, a suffix and a value; the *)
(* value of a configuration-snippet is a name of the directives in it.     *)
(***************************************************************************)
EXTENDS Integers, SequencesExt

CONSTANTS
    References,    \* the values that are Helm expressions
    Captures,      \* the values that name a capture group
    Suffixed,      \* a function from timeouts to the same with their unit
    Directives,    \* a function from snippets to sets of directives
    Paths,         \* the values of proxy-cookie-path that name a path and another
    MaxTodos       \* the number of TODO comments beyond which none is counted

ASSUME SnippetAssumption == \E v \in DOMAIN Directives : Directives[v] = {"other"}

NginxPrefixes == {"nginx", "plain"}
Line(p, k, v) == [prefix |-> p, key |-> k, value |-> v]
ClassLine(l) == l.prefix = "kubernetes"

\* Keys of a YAML mapping are distinct.
DistinctKeys(c) ==
    \A i, j \in DOMAIN c.lines :
        /\ c.lines[i].prefix \in NginxPrefixes
        /\ c.lines[i].prefix = c.lines[j].prefix /\ c.lines[i].key = c.lines[j].key
        => i = j
IsTemplate(c) ==
    /\ c = [name |-> c.name, class |-> c.class, lines |-> c.lines,
            todos |-> c.todos, newline |-> c.newline]
    /\ c.lines \in Seq(Range(c.lines))
    /\ \A l \in Range(c.lines) : ClassLine(l) => l.key = "ingress.class"
    /\ DistinctKeys(c)

Table(pairs) == [x \in {p[1] : p \in pairs} |-> (CHOOSE p \in pairs : p[1] = x)[2]]

\* migrationTable, the annotations of which become others.
KeptNames ==
    {"enable-cors", "cors-allow-origin", "cors-allow-methods", "cors-allow-headers",
     "rewrite-target", "auth-type", "use-regex"}
NewNames ==
    {<<"ssl-redirect", "http-to-https">>, <<"force-ssl-redirect", "http-to-https">>,
     <<"proxy-connect-timeout", "upstream-connect-timeout">>,
     <<"proxy-send-timeout", "upstream-send-timeout">>,
     <<"proxy-read-timeout", "upstream-read-timeout">>,
     <<"backend-protocol", "upstream-scheme">>,
     <<"whitelist-source-range", "allowlist-source-range">>,
     <<"auth-url", "auth-uri">>, <<"auth-response-headers", "auth-upstream-headers">>,
     <<"websocket-services", "enable-websocket">>}
Renamed == Table({<<s, s>> : s \in KeptNames} \cup NewNames)
Timeouts == {"proxy-connect-timeout", "proxy-send-timeout", "proxy-read-timeout"}

Target(l) ==
    IF l.key = "rewrite-target" /\ l.value \in Captures THEN "rewrite-target-regex" ELSE Renamed[l.key]

Transformed(l) ==
    CASE l.key \in {"force-ssl-redirect", "websocket-services"} -> "true"
      [] l.value \in References -> l.value
      [] l.key \in Timeouts -> Suffixed[l.value]
      [] l.key = "auth-type" /\ l.value = "basic" -> "basicAuth"
      [] l.key = "auth-type" /\ l.value = "digest" -> "keyAuth"
      [] OTHER -> l.value

\* Those that become plugins, the ones of them that have a value of their own in
\* values.yaml, and those that become nothing but a TODO.
ToPlugin ==
    Table({<<"limit-rps", "limit-req">>, <<"limit-rpm", "limit-req">>,
           <<"limit-connections", "limit-conn">>, <<"proxy-cookie-path", "proxy-cookie-path">>})
Limits == {"limit-rps", "limit-rpm", "limit-connections"}
Redirects == {"proxy-redirect-from", "proxy-redirect-to"}
Manual ==
    {"custom-http-errors", "affinity", "session-cookie-name", "session-cookie-hash",
     "upstream-hash-by", "auth-tls-secret", "auth-tls-verify-client", "auth-secret",
     "proxy-body-size", "proxy-buffer-size", "proxy-buffers-number"}

-----------------------------------------------------------------------------
\* scanAnnotations: of the lines that set one annotation, the first one under
\* nginx's prefix, or else the first one, is looked at, and the others are not.
Before(lines, i, j) ==
    IF lines[i].prefix = lines[j].prefix THEN i <= j ELSE lines[i].prefix = "nginx"
IsEntry(lines, i) ==
    /\ lines[i].prefix \in NginxPrefixes
    /\ \A j \in DOMAIN lines :
        lines[j].prefix \in NginxPrefixes /\ lines[j].key = lines[i].key => Before(lines, i, j)
Looked(c) == {i \in DOMAIN c.lines : IsEntry(c.lines, i)}
Sets(c, s) == \E i \in Looked(c) : c.lines[i].key = s

\* The lines that are passed over because another one sets their annotation.
Seconds(c) ==
    {c.lines[i] : i \in {j \in DOMAIN c.lines : c.lines[j].prefix \in NginxPrefixes /\ j \notin Looked(c)}}

\* processSnippet: what stays of a snippet, and its plugins.  Two rewrites or more
\* are "rewrites", cookie flags "flags", and "other" is what it does not know; a
\* "status" (limit_req_status, or a flag of no cookie) goes, as does one "rewrite".
Remaining(v) == Directives[v] \cap {"other"}
SnippetOf(directives) == CHOOSE v \in DOMAIN Directives : Directives[v] = directives
Rest(v) ==
    IF Remaining(v) = {} THEN <<>>
    ELSE <<Line("nginx", "configuration-snippet", SnippetOf(Remaining(v)))>>
Entry(plugin, l) == [plugin |-> plugin, key |-> l.key, value |-> l.value]

\* buildProxyCookiePathConfig: placeholders stand for what no two paths are read in,
\* for the path to look for when the value is a Helm expression.
PathUnread(l) == l.key = "proxy-cookie-path" /\ l.value \notin Paths
Placeholder(l) ==
    [plugin |-> "proxy-cookie-path", key |-> l.key, match |-> "/old-path",
     value |-> IF l.value \in References THEN l.value ELSE "/new-path"]
Made(l) == IF PathUnread(l) THEN Placeholder(l) ELSE Entry(ToPlugin[l.key], l)
SnippetPlugins == Table({<<"rewrites", "proxy-rewrite">>, <<"flags", "proxy-cookie-flags">>})

\* applyMigrations: what stands for a line, and the plugins made of it.
\* (SnippetDropped: a faulty one, that leaves nothing of a snippet.)
SnippetDropped(l) == <<>>
SnippetLeft(l) == Rest(l.value)
Replacement(c, l) ==
    CASE l.key \in DOMAIN Renamed -> <<Line("apisix", Target(l), Transformed(l))>>
      [] l.key \in Redirects ->
            IF l.key = "proxy-redirect-from" /\ Sets(c, "proxy-redirect-to")
            THEN <<Line("apisix", "http-to-https", "true")>> ELSE <<>>
      [] l.key \in DOMAIN ToPlugin -> <<>>
      [] l.key = "configuration-snippet" -> SnippetLeft(l)
      [] OTHER -> <<l>>
PluginsOf(l) ==
    CASE l.key \in DOMAIN ToPlugin -> {Made(l)}
      [] l.key = "configuration-snippet" ->
            {Entry(SnippetPlugins[d], l) : d \in Directives[l.value] \cap DOMAIN SnippetPlugins}
      [] OTHER -> {}
Plugins(c) == UNION {PluginsOf(c.lines[i]) : i \in Looked(c)}

\* Whether there is a plugin config to write.
\* (AlwaysHasPlugins: a faulty one, that writes it though no plugin is in it.)
AlwaysHasPlugins(c) == TRUE
HasPlugins(c) == Plugins(c) # {}

\* An entry of a plugin that takes its value from values.yaml, and what is to be there.
FromValues(e) == e.key \in Limits /\ e.value \notin References
NewValues(c) ==
    LET made == {e \in Plugins(c) : FromValues(e)}
    IN  [k \in {e.key : e \in made} |-> (CHOOSE e \in made : e.key = k).value]

\* migrateFileContent: the new text.  The link comes after all other annotations.
\* (ClassKept: a faulty one, that leaves the class as it is.)
ClassKept(c) == c.class
FixedClass(c) == IF c.class = "nginx" THEN "apisix" ELSE c.class
HasManual(c) == \E s \in Manual : Sets(c, s)
Link(c) == Line("apisix", "plugin-config-name", c.name)
Part(c, i) ==
    IF ClassLine(c.lines[i]) THEN <<>>
    ELSE IF i \in Looked(c) THEN Replacement(c, c.lines[i]) ELSE <<c.lines[i]>>
Migrated(c) ==
    LET todos == c.todos + Cardinality({s \in Manual : Sets(c, s)})
    IN  [name |-> c.name,
         class |-> FixedClass(c),
         lines |-> FlattenSeq([i \in DOMAIN c.lines |-> Part(c, i)])
                   \o (IF HasPlugins(c) THEN <<Link(c)>> ELSE <<>>),
         todos |-> IF todos <= MaxTodos THEN todos ELSE MaxTodos,
         newline |-> FALSE]

\* A TODO is a change, though it may not be counted.
Changed(c) == Migrated(c) # c \/ HasManual(c)
=============================================================================
