---------------------------- MODULE MigrateCharts ----------------------------
(***************************************************************************)
(* Chart migrator: MigrateChartsDir (pkg/charts/migrator.go) over a chart  *)
(* whose templates are all in one directory, run again and again.          *)
(*                                                                         *)
(* A file is a sequence of what it holds: <<>> when it is not there or was *)
(* cut short by a failure.  `work` is what a run has read of the template  *)
(* it is at, `step` the file access it comes to next.                      *)
(***************************************************************************)
EXTENDS ChartTemplates

CONSTANTS
    Walk,          \* the templates, in the order filepath.Walk meets them
    Charts,        \* a function from templates to the set of what they may hold at first
    OwnValues,     \* a function: the user's entries of values.yaml
    Annotating,    \* the lines users may add
    MaxEdits, MaxFaults

ASSUME RoomForAll == MaxEdits \in Nat /\ MaxFaults \in Nat

ASSUME WalkAssumption == Walk \in Seq(Range(Walk)) /\ Walk # <<>>
ASSUME ChartAssumption ==
    \A t \in Range(Walk) : \A c \in Charts[t] :
        /\ IsTemplate(c)
        /\ \A l \in Range(c.lines) : l.key \in Redirects => l.prefix \in NginxPrefixes
ASSUME AnnotatingAssumption == \A l \in Annotating : ClassLine(l) => l.key = "ingress.class"

\* A redirect added to a template whose other one is gone pairs with nothing.
ASSUME NoRedirectAdded == \A l \in Annotating : l.key \notin Redirects

VARIABLES
    files, bak,             \* the templates and their .bak files
    plugins, bakPlugins,    \* apisix-plugin-configs.yaml and its .bak
    values,                 \* values.yaml, a function from keys to values
    inChart,                \* whether there is a Chart.yaml above the templates
    step, at, opts, work,   \* the run
    warned,                 \* whether it has a warning
    report,                 \* the last run's report
    unread,                 \* (history) whether the last run could not read a template
    asked,                  \* (history) the lines a template ever had
    passed,                 \* (history) the second lines its last migration left in a template
    wrote,                  \* (history) the last plugin config this run had to write
    overwritten,            \* (history) entries whose plugin config made room for another one
    unwritten,              \* (history) entries whose plugin config was cut short, or not written
    apart,                  \* (history) whether plugin config and values.yaml may differ: a write of
                            \* theirs has failed since a plugin config was last written
    faults, edits

disk == <<files, bak, plugins, bakPlugins, values>>
lost == <<overwritten, unwritten>>
history == <<unread, asked, passed, wrote, lost, apart>>
vars == <<disk, inChart, step, at, opts, work, warned, report, history, faults, edits>>

Templates == Range(Walk)
Here == Walk[at]
Options == [backup : BOOLEAN, dryRun : BOOLEAN]
NoOptions == [backup |-> FALSE, dryRun |-> FALSE]
Config(c) == [name |-> c.name, plugins |-> Plugins(c)]
Held(config) == {<<config.name, e>> : e \in config.plugins}

\* os.WriteFile of a file: it is written, or left alone, or nothing of it is left.
MayFail == faults < MaxFaults
Outcomes(old, new) ==
    {[now |-> new, ok |-> TRUE]}
    \cup (IF MayFail THEN {[now |-> x, ok |-> FALSE] : x \in {old, <<>>}} ELSE {})
Count(ok) == faults' = IF ok THEN faults ELSE faults + 1

\* A failure that is reported.  (Unreported: a faulty one.)
Unreported(ok) == warned
Warned(ok) == warned \/ ~ok

-----------------------------------------------------------------------------
Init ==
    /\ files \in {f \in [Templates -> UNION {{<<c>> : c \in Charts[t]} : t \in Templates}] :
                    \A t \in Templates : f[t][1] \in Charts[t]}
    /\ bak = [t \in Templates |-> <<>>]
    /\ plugins = <<>> /\ bakPlugins = <<>>
    /\ values = OwnValues
    /\ inChart \in BOOLEAN
    /\ step = "idle" /\ at = 0 /\ work = <<>> /\ warned = FALSE
    /\ opts = NoOptions
    /\ report = "none"
    /\ unread = FALSE
    /\ asked = [t \in Templates |-> Range(files[t][1].lines)]
    /\ passed = [t \in Templates |-> {}]
    /\ wrote = <<>>
    /\ overwritten = {} /\ unwritten = {}
    /\ apart = FALSE
    /\ faults = 0 /\ edits = 0

StartRun ==
    /\ step = "idle"
    /\ opts' \in Options
    /\ step' = "read" /\ at' = 1
    /\ warned' = FALSE /\ unread' = FALSE /\ report' = "none" /\ wrote' = <<>>
    /\ UNCHANGED <<disk, inChart, work, asked, passed, lost, apart, faults, edits>>

\* The walk goes on, or the run ends with its report.
Stop == step' = "idle" /\ at' = 0 /\ work' = <<>> /\ warned' = FALSE /\ opts' = NoOptions
Verdict(w) == IF w THEN "warned" ELSE IF opts.dryRun THEN "preview" ELSE "clean"
Continue(w) ==
    IF at < Len(Walk)
    THEN /\ at' = at + 1 /\ step' = "read" /\ work' = <<>> /\ warned' = w
         /\ UNCHANGED <<opts, report>>
    ELSE Stop /\ report' = Verdict(w)

\* A template that is cut short is no Ingress, and one that cannot be read is passed over.
ToMigrate == ~opts.dryRun /\ \E c \in Range(files[Here]) : Changed(c)
ReadAndSkip ==
    /\ step = "read"
    /\ \/ ~ToMigrate /\ UNCHANGED <<unread, faults>>
       \/ MayFail /\ faults' = faults + 1 /\ unread' = TRUE
    /\ Continue(warned)
    /\ UNCHANGED <<disk, inChart, asked, passed, wrote, lost, apart, edits>>

\* Which file is written first.  (WithoutBackup: a faulty one.)
WithoutBackup(o) == "template"
FirstWrite(o) == IF o.backup THEN "backup" ELSE "template"
Read ==
    /\ step = "read" /\ ToMigrate
    /\ work' = files[Here]
    /\ step' = FirstWrite(opts)
    /\ UNCHANGED <<disk, inChart, at, opts, warned, report, history, faults, edits>>

\* The run goes on without a backup.
SaveTemplate ==
    /\ step = "backup"
    /\ \E o \in Outcomes(bak[Here], work) :
        /\ bak' = [bak EXCEPT ![Here] = o.now]
        /\ warned' = Warned(o.ok)
        /\ Count(o.ok)
    /\ step' = "template"
    /\ UNCHANGED <<files, plugins, bakPlugins, values, inChart, at, opts, work, report, history, edits>>

WriteTemplate ==
    /\ step = "template"
    /\ \E o \in Outcomes(files[Here], <<Migrated(work[1])>>) :
        /\ files' = [files EXCEPT ![Here] = o.now]
        /\ Count(o.ok)
        /\ passed' = IF o.ok THEN [passed EXCEPT ![Here] = Seconds(work[1])] ELSE passed
        /\ wrote' = IF o.ok /\ HasPlugins(work[1]) THEN <<Config(work[1])>> ELSE wrote
        /\ IF o.ok /\ HasPlugins(work[1])
           THEN /\ step' = IF opts.backup THEN "savePlugins" ELSE "plugins"
                /\ UNCHANGED <<at, opts, work, warned, report>>
           ELSE Continue(Warned(o.ok))
    /\ UNCHANGED <<bak, plugins, bakPlugins, values, inChart, unread, asked, lost, apart, edits>>

\* Errors of this backup are ignored.  A file that was cut short is copied as it is; one
\* that was never there has no backup, so that copying nothing leaves it so.
SavePlugins ==
    /\ step = "savePlugins"
    /\ \E o \in Outcomes(bakPlugins, plugins) : bakPlugins' = o.now /\ Count(o.ok)
    /\ step' = "plugins"
    /\ UNCHANGED <<files, bak, plugins, values, inChart, at, opts, work, warned, report, history, edits>>

\* What is lost when a file of old configs comes to hold the new one, or fails to.
HeldBy(configs) == UNION {Held(config) : config \in Range(configs)}
Overwrite(old, now) ==
    /\ overwritten' = (overwritten \cup HeldBy(old)) \ HeldBy(now)
    /\ unwritten' = unwritten \ HeldBy(now)
Unwrite(old, now, new) ==
    /\ overwritten' = overwritten
    /\ unwritten' = (unwritten \cup HeldBy(old) \cup Held(new)) \ HeldBy(now)
\* values.yaml is written although the plugin config was not.
WritePlugins ==
    /\ step = "plugins"
    /\ LET new == Config(work[1])
       IN  \E o \in Outcomes(plugins, <<new>>) :
            /\ plugins' = o.now
            /\ IF o.ok THEN Overwrite(plugins, o.now) ELSE Unwrite(plugins, o.now, new)
            /\ apart' = ~o.ok
            /\ Count(o.ok)
            /\ IF inChart /\ DOMAIN NewValues(work[1]) # {}
               THEN step' = "values" /\ warned' = Warned(o.ok) /\ UNCHANGED <<at, opts, work, report>>
               ELSE Continue(Warned(o.ok))
    /\ UNCHANGED <<files, bak, bakPlugins, values, inChart, unread, asked, passed, wrote, edits>>

\* updateValuesYaml: an entry that is appended wins over one of that key before it.
\* What cannot be read is taken for empty.  (KeptValues: a faulty one.)
KeptValues(new, old) ==
    [k \in DOMAIN new \cup DOMAIN old |-> IF k \in DOMAIN old THEN old[k] ELSE new[k]]
Appended(new, old) ==
    [k \in DOMAIN new \cup DOMAIN old |-> IF k \in DOMAIN new THEN new[k] ELSE old[k]]
WriteValues ==
    /\ step = "values"
    /\ \E old \in {values} \cup (IF MayFail THEN {<<>>} ELSE {}) :
       \E o \in IF old = values THEN Outcomes(values, Appended(NewValues(work[1]), values))
                ELSE {[now |-> Appended(NewValues(work[1]), old), ok |-> TRUE]} :
        /\ values' = o.now
        /\ Count(o.ok /\ old = values)
        /\ apart' = (apart \/ ~o.ok)
        /\ Continue(Warned(o.ok))
    /\ UNCHANGED <<files, bak, plugins, bakPlugins, inChart, unread, asked, passed, wrote, lost, edits>>

-----------------------------------------------------------------------------
\* The run is killed, maybe in the middle of a write.
Torn(s, file) == IF step = s THEN {file, <<>>} ELSE {file}
Crash ==
    /\ step # "idle" /\ MayFail
    /\ faults' = faults + 1
    /\ IF step = "backup"
       THEN \E x \in Torn("backup", bak[Here]) : bak' = [bak EXCEPT ![Here] = x]
       ELSE UNCHANGED bak
    /\ IF step = "template"
       THEN \E x \in Torn("template", files[Here]) : files' = [files EXCEPT ![Here] = x]
       ELSE UNCHANGED files
    /\ bakPlugins' \in Torn("savePlugins", bakPlugins)
    /\ plugins' \in Torn("plugins", plugins)
    /\ values' \in Torn("values", values)
    /\ IF step \in {"savePlugins", "plugins"} THEN Unwrite(plugins, plugins', Config(work[1]))
       ELSE UNCHANGED lost
    /\ apart' = (apart \/ step = "values")
    /\ Stop
    /\ UNCHANGED <<inChart, report, unread, asked, passed, wrote, edits>>

UserAnnotates ==
    /\ step = "idle" /\ edits < MaxEdits
    /\ edits' = edits + 1
    /\ \E t \in Templates, l \in Annotating :
        /\ files[t] # <<>>
        /\ \A m \in Range(files[t][1].lines) : <<m.prefix, m.key>> # <<l.prefix, l.key>>
        /\ files' = [files EXCEPT ![t] = <<[files[t][1] EXCEPT !.lines = Append(@, l)]>>]
        /\ asked' = [asked EXCEPT ![t] = @ \cup {l}]
    /\ report' = "none"
    /\ UNCHANGED <<bak, plugins, bakPlugins, values, inChart, step, at, opts, work, warned, unread,
                   passed, wrote, lost, apart, faults>>

RunStep ==
    ReadAndSkip \/ Read \/ SaveTemplate \/ WriteTemplate \/ SavePlugins \/ WritePlugins \/ WriteValues
Next == StartRun \/ RunStep \/ Crash \/ UserAnnotates

Spec == Init /\ [][Next]_vars
\* A run is a loop that waits for nothing.
FairSpec == Spec /\ WF_vars(RunStep)

-----------------------------------------------------------------------------
(* Properties.                                                             *)

\* Every file holds what it may; apisix-plugin-configs.yaml never holds a config
\* of no plugins; a run that is not at work has no template in hand.
TypeOK ==
    /\ \A t \in Templates : Len(files[t]) <= 1 /\ Len(bak[t]) <= 1
    /\ \A p \in Range(plugins) \cup Range(bakPlugins) : p.plugins # {}
    /\ inChart \in BOOLEAN /\ warned \in BOOLEAN /\ unread \in BOOLEAN
    /\ step \in {"idle", "read", "backup", "template", "savePlugins", "plugins", "values"}
    /\ at \in 0 .. Len(Walk) /\ (at = 0 <=> step = "idle")
    /\ opts \in Options
    /\ work # <<>> <=> step \notin {"idle", "read"}
    /\ report \in {"none", "preview", "clean", "warned"}
    /\ faults \in 0 .. MaxFaults /\ edits \in 0 .. MaxEdits

\* The plugin config a template names has an entry, or is about to be written with it.
InPlugins(t, e) ==
    LET c == files[t][1]
    IN  \/ <<c.name, e>> \in HeldBy(plugins)
        \/ at # 0 /\ Here = t /\ step \in {"savePlugins", "plugins"} /\ e \in Plugins(work[1])

\* An entry that is lost: the plugin config of another template, or of a later run, was
\* written over the one that had it, or a failure or a kill left that one out of the file.
LostWithItsConfig(t, e) ==
    <<files[t][1].name, e>> \in overwritten \cup (IF faults = 0 THEN {} ELSE unwritten)

\* A template that names a plugin config had an annotation made into an entry of it.
Became(t, e) ==
    /\ Link(files[t][1]) \in Range(files[t][1].lines)
    /\ InPlugins(t, e) \/ LostWithItsConfig(t, e)

\* What is left of a line of a template, as it is or converted.  Of a snippet each
\* directive is looked for, but one that is dropped (a rewrite alone, a status); a
\* redirect needs the other one; what is made of a proxy-cookie-path in which no two
\* paths are read has placeholders for them.
SnippetIsThere(t, l) ==
    /\ "other" \in Directives[l.value] =>
        \E m \in Range(files[t][1].lines) : m.key = l.key /\ "other" \in Directives[m.value]
    /\ \A d \in Directives[l.value] \cap DOMAIN SnippetPlugins : Became(t, Entry(SnippetPlugins[d], l))
RedirectIsThere(t) ==
    (\A s \in Redirects : \E l \in asked[t] : l.key = s) =>
        Line("apisix", "http-to-https", "true") \in Range(files[t][1].lines)
IsThere(t, l) ==
    \/ l \in Range(files[t][1].lines)
    \/ ClassLine(l)
    \/ l.key \in DOMAIN Renamed /\ Line("apisix", Target(l), Transformed(l)) \in Range(files[t][1].lines)
    \/ l.key \in Redirects /\ RedirectIsThere(t)
    \/ l.key \in DOMAIN ToPlugin /\ Became(t, Made(l))
    \/ l.key = "configuration-snippet" /\ SnippetIsThere(t, l)

\* However often the migrator runs and wherever it stops, an annotation that was ever in
\* a template that is whole is there still, or what it is converted to is; the only ones
\* to be lost are those made into a plugin config, with that config: to another template's
\* or a later run's, all being written to one file (migrator.go:277), or to a failure.
LostOnlyWithItsConfig == \A t \in Templates : files[t] # <<>> => \A l \in asked[t] : IsThere(t, l)

\* What a plugin config takes from values.yaml is there as the annotation had it.
Agrees(config) ==
    inChart => \A e \in config.plugins :
        FromValues(e) => e.key \in DOMAIN values /\ values[e.key] = e.value

\* A plugin config and values.yaml are two files written one after the other: unless the
\* run is between the two, or one of them could not be written since, the values are those
\* of the config, whatever runs and failures came before it was written.  And the user's
\* own entries stay, unless a read or a write fails, but for those under a key that is
\* the migrator's.
ValuesMatch ==
    /\ step # "values" /\ ~apart => \A config \in Range(plugins) : Agrees(config)
    /\ faults = 0 => \A k \in DOMAIN OwnValues \ Limits : k \in DOMAIN values /\ values[k] = OwnValues[k]

\* Nothing in a template waits to be converted, but some lines.
SettledBut(c, left) ==
    /\ c.class # "nginx"
    /\ \A i \in Looked(c) :
        \/ c.lines[i] \in left
        \/ Replacement(c, c.lines[i]) = <<c.lines[i]>> /\ PluginsOf(c.lines[i]) = {}
Settled(c) == SettledBut(c, {})

\* A report without warnings, of a run that read each template, is true: every template
\* is migrated, but for lines that were passed over because another one sets the same
\* annotation (migrator.go:472), and the plugin config the run wrote last is in the file,
\* with its values.
CleanReport ==
    report = "clean" /\ ~unread =>
        /\ \A t \in Templates : files[t] # <<>> => SettledBut(files[t][1], passed[t])
        /\ wrote # <<>> => plugins = wrote /\ Agrees(wrote[1])

\* A run with --migrate-backup changes a template or the plugin configs only when the
\* .bak file holds what they held, unless a write has failed.
BackupPrecedes ==
    [][ (RunStep /\ opts.backup /\ faults = 0) =>
            /\ \A t \in Templates : files'[t] # files[t] => bak[t] = files[t]
            /\ plugins # <<>> /\ plugins' # plugins => bakPlugins = plugins ]_vars

\* When the migrator is run over and over, all that can be converted is in the end.
Converges ==
    []<>(step = "read" /\ ~opts.dryRun) =>
        <>[](\A t \in Templates : files[t] # <<>> => Settled(files[t][1]))

\* "Single rewrite should be removed from snippet (consumed as native annotation)"
\* (migrator_test.go:220): a rewrite that has gone from a template is an annotation of it.
RewriteBecomesNative ==
    \A t \in Templates : files[t] # <<>> => \A l \in asked[t] :
        (l.key = "configuration-snippet" /\ "rewrite" \in Directives[l.value] /\ l \notin Range(files[t][1].lines))
        => \E m \in Range(files[t][1].lines) : m.prefix = "apisix" /\ m.key \in {"rewrite-target", "rewrite-target-regex"}
=============================================================================
