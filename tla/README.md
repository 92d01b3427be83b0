# ingress2apisix, specified in TLA+

ingress2apisix converts Kubernetes Ingress resources written for ingress-nginx
into resources for the APISIX ingress controller. It is a Go program with a
command line, a cluster mode that writes to the API server, tools for Helm
charts, and a web server with a Vue application. This directory holds TLA+
modules that model its parts, TLC configurations that check them on small
instances, and TLAPS proofs of what matters most. Paths below are relative to
the repository.

## 1. The system

| Component | Source | State it keeps | Operations |
|---|---|---|---|
| Annotation converter | `pkg/converter/converter.go` | none between calls, but the rules and labels of its input are shared with its output | `Convert`, `ConvertList` |
| Gateway API generation | `pkg/converter/gateway.go` | none between calls | `ConvertList` of the `GatewayConverter` |
| YAML reader and writer | `pkg/converter/reader.go`, `comments.go` | none | parse, detect the format, write, add source comments |
| Cluster mode | `pkg/k8s/client.go`, `runClusterMode` in `main.go` | the objects of the cluster | list, patch Ingresses, get and create or update CRDs |
| Chart migrator | `pkg/charts/migrator.go` | the files of a charts directory and their backups | `MigrateChartsDir`, per template and per values file |
| Chart scanner | `pkg/charts/scanner.go` | none (reads files) | scan, classify annotations |
| Docs cache | `pkg/web/server.go` 33-181, 838-919 | three maps under `docsMu`, the docs directory | `scanDocs`, list, upload |
| Announcement store | `pkg/web/announcement.go` and its handlers | a slice under `mu`, a JSON file | `List`, `Add`, `Update`, `Delete`, `save`, load |
| Feedback store | `pkg/web/feedback.go` | as above; its routes are commented out | none reachable |
| Convert, check, migrate handlers | `pkg/web/server.go` | none shared between requests | one conversion per request |
| Web interface: convert page | `web/src/views/ConvertPage.vue`, `stores/converter.ts`, `YamlEditor.vue` | a store that outlives the page | edit, load a file, convert by button or Ctrl+Enter, clear |
| Web interface: check page | `web/src/views/CheckPage.vue` | the page's own refs | edit, check, clear |
| Web interface: documentation | `web/src/views/DocsPage.vue`, `stores/docs.ts` | a store that outlives the page; sidebar in `localStorage` | list, load, search, draw diagrams |
| Web interface: document manager | `web/src/views/DocumentsPage.vue` | the page's own list, selection, preview | upload, select, delete (locally) |
| Web interface: announcements | `web/src/views/AdminPage.vue` | rows, a form, a save under way | list, create, edit, delete |
| Web interface: shell | `stores/app.ts`, `LoginPage.vue`, `api/client.ts` | theme and token in `localStorage` | login, logout on 401, theme |
| Web interface: router | `router/index.ts`, `App.vue`, `main.ts`, `AppHeader.vue` | the address and the mounted page | navigate, obey legacy hashes |
| Command line | `cmd/ingress2apisix/main.go` | none | mode selection |
| APISIX Lua plugins | `plugins/*.lua` | a request's `ctx` | run inside APISIX |

How they interact: the command line, the web handlers, cluster mode and the chart
migrator all call the converter (the migrator and the scanner have tables of
their own besides). Cluster mode hands the converter's result to the API server,
which other runs and users write too. HTTP handlers share nothing but the docs
cache and the announcement store, each with a lock of its own. The single-page
application calls the server and holds what it answers; its pages share the
router, the address bar, the token and the server's documents, and nothing else.

What is hard in it:

- *Interleaving.* Every list request scans the docs directory, with the lock held
  only while the maps are compared and replaced; scans overlap one another,
  uploads and editors. A listing with `?all=true` is encoded after the lock is
  released, from the array that updates and deletions write in place.
- *Partial failure and retry.* Cluster mode makes one request after the other
  with no transaction, patches the Ingresses before it writes the plugin configs
  they name, and is simply run again.
- *Crash.* Saving the announcements truncates the file first. The docs cache is in
  memory only.
- *Many inputs.* About 70 annotations under two prefixes, which interact: several
  feed one plugin or one output annotation, and each must be converted, or
  reported as not convertible, or else is silently lost.
- *Answers in any order.* In the browser every call is answered whenever it is,
  after the user has cleared the page, asked for something else, left, or
  reloaded. Two stores outlive their page, three pages do not. Nothing numbers or
  cancels a request.
- *Two owners of one thing.* The address bar is written by the router and, behind its
  back, by section links; the text of a document is rendered by Vue and then drawn
  upon by mermaid.

What makes each part correct:

- converter: no annotation that matters is dropped without a warning, none is
  reported as lost that was used; what two annotations say together is respected;
  an output never names an object that is not in the output; converting twice is
  converting once.
- cluster mode: a success report is true; every partial state is repaired by
  running again; nothing of the user's is lost.
- docs cache: it never keeps an old text as if current, and catches up.
- announcement store: ids are unique, listings are complete, a restart restores.
- migrator: no annotation is lost but with its plugin config; plugin config and
  `values.yaml` agree; a clean report is true; the backup comes first.
- web interface: a page shows the answer to what was asked last and no mixture of
  two; what it counts, selects or lists exists; nothing is sent twice; the page
  is the one that the address names; each spinner stands for a call and stops.

## 2. Modules

### DocsCache: the docs cache of the web server

`disk` is the docs directory with a `clock` that stamps every write; `docsList`,
`docsContent`, `docMeta` are the server's maps. A goroutine stands (`pc`) before or
in `scanDocs`, or inside `os.WriteFile` of an upload. Each step is one access to
shared state, in the order of the code:

| Action | Code (`server.go`) |
|---|---|
| `StartList`, `StartUpload` | a request arrives (838, 860); none before `NewServer` is done |
| `OpenTruncate`, `WriteBody`, `SkipFile`, `EndUpload` | `os.WriteFile` of each part, a part that fails, the scan that follows |
| `BeginScan`, `Stat`, `Compare` | the first walk and the comparison under the read lock (104-139) |
| `ReRead`, `Read`, `Install` | the second walk and the replacement under the write lock (146-181) |
| `Respond` | the answer |
| `EditorWrites`, `EditorRemoves`, `Crash` | another program; a restart, which empties the maps |

All non-empty bodies have one size, so that `mtime` alone tells versions apart:
the hardest case for the comparison of `mtime` and size. `content` stands for
`scanDocs`' `docs` too, since a title is computed from the bytes. A `Stat` and a
`Read` of a file are each atomic; the truncation and the write of `os.WriteFile` are
two steps.

### AnnouncementStore and AnnouncementRegistry

`arr` and `len` are the slice `s.data` with its backing array, because what goes
wrong is aliasing: `Add` makes a new array, `Update` writes a cell, `Delete` moves
cells up one at a time (`Shift`), while a listing (`EncodeId`, `EncodeRest`: the id and
the rest of a cell, two reads) walks its own copy or, for `?all=true`, the very
array (`sharing`). `Truncate` and `Write` are the halves of `os.WriteFile`;
`SaveFails` leaves memory and file different and answers 500; `Crash` loads what the
file holds, a broken one as no announcements. `AnnouncementRegistry` is the
specification of what this amounts to: whole operations on a list, and a stored
copy. `AnnouncementStore` implements it under the mapping `items <- Live`,
`stored <- file`, where `Live` is the list without the cell that is going away.

### ClusterApply and MigrationLedger: cluster mode

`ing` and `crd` are the objects on the API server, `snap` and `todo` a run's converted
list and what it has still to apply, in the order of `ApplyResult` (`IsNext`: Ingresses,
plugin configs, policies). `current` are the runs whose `Get` returned the object's
present version, which is what the API server's resource versions decide. `Patch`
merges: `conv` has for each annotation that a conversion may write (`Keys`, `Writes`) the
configuration it was last made from, and what the patch does not hold, an annotation
of an earlier configuration, the link or a user's note, stays (`Patched`, `ConvPatched`).
The rules and their path types are not in the patch. `Get` takes every error for NotFound,
`Create` and `Update` may be refused, any request may fail before it is done
(`Fails`) or after (`Done` with `GiveUp`: the answer is lost or the run is killed).
`Finish` is the success report. Users edit and delete Ingresses and delete generated
objects. `clean`, `excused` and `past` (the configurations an Ingress has had) are history
variables for the properties: `Migrated` is that an Ingress has all that its annotations
ask for (`Served`), and besides only what one of its past ones left (`OnlyOfItsPast`).
Conversion is `ToApply`: one plugin config and one policy of each Ingress that needs
one, made from the annotations listed (`conf`).

`MigrationLedger` is the specification of what the order of the requests and the end of a run at the
first error amount to: a run undertakes to write plugin configs, links an Ingress only
while it owes its config (`Link`), pays by writing it (`Pay`), fails with its debts on record, and
succeeds with none. It knows no objects, versions or policies. `ClusterApply` implements it under
the mapping `linked <- Linked`, `provided <- Provided`, `owed <- Owed` (the plugin configs in `todo`),
`unpaid <- excused`, `report <- Report`; several requests map to stutters, and a request
that is done though the run never hears of it pays and fails in one step.

### Annotations, Conversion and Converter: the annotation converter

`Annotations` is the lookup of an annotation under its two prefixes. `Conversion` is
what `Convert` makes of one Ingress and has no state: an operator for each builder,
named for the annotation or the plugin (`Native` is `convertAnnotations`, `LimitReq` to
`RealIP` are the sections of `buildPluginConfig`, `Policies`, `Upstreams` and `Tls` the
other resources, `Lost` and `Noted` the warnings). Where the code writes a map key
several times, the last write wins; in `OutAnnotations` it stands first (`Over`). A value is what the code compares: trimmed and in lower case; what its
regular expressions find in a value (the directives of a snippet, the bytes of a size,
the variable of `upstream-hash-by`) is a CONSTANT function from values; so is the cut
of a name, so that two names may or may not be cut to one.

`Converter` is `ConvertList`: one step per Ingress (`ConvertNext`), which also changes the
path types of the source (`Fixed`), whose rules the result shares. `Rerun` is a user who gives
the program its own output. The converter has no other state, so the properties
compare conversions: `NothingSilentlyLost` asks of each annotation whether the result,
warnings included, would be another were it absent (`Matters`); `NoFalseAlarm` of
each annotation reported as not convertible whether the resources would, in some Ingress of the
reported name and namespace, for a warning says no more than these.
`ConvertsOnce` compares field by field: the Ingresses and the entries of `spec.tls` are those of
the first run, and there is nothing else.

An annotation that makes no difference asks for nothing, or is lost. It asks for nothing
if it is an option of what is off, a factor of a rate of zero or a thing that another
annotation sees to (`Idle`), if it says what another one, of nginx's or one of APISIX's that
the Ingress has from before, says already (`Repeats`), or what nginx and the plugin do without it (`Default`).
What is lost, without a word, is named by `Dropped`: `affinity-mode`, which the
table says is handled and nothing reads; `session-cookie-expires` beside
`session-cookie-max-age`; a number that cannot be read in `cors-max-age`,
`session-cookie-expires` and `session-cookie-max-age`, or that is not positive in the limit multipliers and
`health-check-retries` (`converter.go:985`, `990`, `1065`, `1519`, `1601`); and a
`configuration-snippet` in which nothing is found that the converter knows, or only the
status of a limit that is not set.

### ChartTemplates and MigrateCharts: the chart migrator

`ChartTemplates` is `migrateFileContent`, with no state: of a template its name, class and
annotation lines in their order, and what stands for each line afterwards
(`Replacement`), which plugins are made of it (`PluginsOf`) and which values go to
`values.yaml` (`NewValues`). `MigrateCharts` is `MigrateChartsDir`: `files`, `bak`, `plugins`,
`bakPlugins` and `values` are on disk, and `step` is the file access that a run comes
to next at the template `at`, whose text it holds in `work`:

| Action | Code (`migrator.go`) |
|---|---|
| `Read`, `ReadAndSkip` | 222-251: read, convert; unreadable, unchanged or a dry run: on to the next |
| `SaveTemplate`, `WriteTemplate` | 253-263: a failing backup only warns, a failing write also skips the rest |
| `SavePlugins`, `WritePlugins` | 266-279: errors of this backup are ignored; after a failing write it goes on |
| `WriteValues` | 281-288, `updateValuesYaml`: what cannot be read is taken for empty |
| `Crash`, `UserAnnotates` | the run is killed, a write cut short; a user adds an annotation between runs |

A write that fails leaves the old file or nothing of it (`Outcomes`); a plugin config that was
cut short is copied over its backup by the next run. The properties need some history:

- `asked` has every line a template ever had. `LostOnlyWithItsConfig` follows each of them,
  into the plugin config if that is what became of it.
- `overwritten` has the entries of plugin configs that another one was written over,
  `unwritten` those of a plugin config that was cut short or not written. An entry that is
  in neither is in the file. `overwritten` grows without any fault: the
  templates of a directory share one `apisix-plugin-configs.yaml`, the last one
  migrated has it, and the links of the others dangle or name its plugins. That is a defect the
  model shows, and the property names it; `unwritten` is accepted only if something failed.
- `apart` is TRUE from a failing write of the plugin config or of `values.yaml` until a plugin
  config is written again. Else `ValuesMatch` has the two agree. It
  promises users their own entries but under the keys that are the migrator's, which it appends again.
- `passed` has, of each template, the lines its last migration passed over (`Seconds`): lines of an
  annotation that a line under the other prefix sets too. `CleanReport` has
  everything else migrated.
- `wrote` is the last plugin config the run had to write, which after a clean report is on
  file with its values; `unread` whether it could not read a template.

Known losses besides are a redirect without its other half, a snippet's only rewrite and
its `limit_req_status`; of a `proxy-cookie-path` in which no two paths are read, or with
a Helm expression, the plugin gets placeholders (`Placeholder`); the class annotation is to go.

### ConvertPage, CheckPage, DocsPage, DocumentsPage, AdminPage: the pages

Each page is one module with one record of state, named for it, that holds the
fields of its store and its refs under their names, the calls in flight, and a few
history fields (marked so). Each module has `Mount`, `Unmount`, a disjunction of
what the user may do there (`Gesture`) and one of what may arrive (`Arrival`), and a
specification of its own. A text is a model value; an answer is represented by the
request that it answers, so that a property can ask whose answer is shown.

| Module | Actions | Code |
|---|---|---|
| `ConvertPage` | `Type`, `LoadExample`, `ChooseFile`, `FileRead`, `SetOptions` | the editor, the example, a FileReader that ends later, the toolbar |
| | `PressConvert`, `ShortcutConvert`, `Clear` | the button is disabled while converting, Ctrl+Enter is not; `clear()` cancels nothing |
| | `Converted`, `Refused`, `Failed` | the answer, an answer without success, a failing request (`converter.ts:33-51`) |
| `CheckPage` | `PressCheck`, `Clear`, `Reported`, `Failed` | `doCheck`; the Clear button leaves the spinner alone (144); `Blanked` is a report that throws while it is rendered |
| `DocsPage` | `Mount`, `Open`, `Unmount` | `handleRoute` for the route the page is given (118-149) |
| | `ListArrived`, `LoadFound`, `LoadFailed` | `docs.ts:30-71` |
| | `ToggleDir`, `ToggleSidebar`, `Search`, `Resize`, `DrawDiagrams` | each renders the page again; the timers of `renderMermaidDiagrams` |
| `DocumentsPage` | `UploadFiles`, `Uploaded`, `UploadFailed`, `OrphanStored` | 40-77: one call with all Markdown files; the server may skip some; an upload that fails, or whose page has gone, may have reached the server with all of its files or some |
| | `ToggleSelect`, `SelectAll`, `DeleteSelected`, `OpenDoc`, `ClosePreview`, `SetCategory`, `Search` | 88-119 and the template |
| `AdminPage` | `SaveAnnouncement`, `SaveAccepted`, `SaveRejected`, `SaveListed` | 36-51: a save is two calls, the write and the list; the button comes back after the second |
| | `Refresh`, `Listed`, `ShowNewForm`, `EditAnnouncement`, `FillForm`, `Cancel`, `DeleteAnnouncement`, `DeleteRejected` | the rest of the page |

A document is its path, a sequence of names, and its directories are the prefixes of
the path, which is what `loadDoc`'s loop and the three levels of the sidebar's template
depend on. `Sidebar` and `CatalogCards` are what a click can reach there. A rendering is
`Rendered`: the source of a diagram is put back, since `renderMd` numbers its
placeholders anew and so never produces the same HTML twice; `RenderedNew` also starts
the timer that draws.

### AppShell and WebApp: the web interface as one program

`AppShell` is the theme, the token and the login form. `WebApp` composes the six by
INSTANCE: its state is theirs, with `library` (the server's documents, which the manager
adds to and the documentation shows), `location` (the path, `window.location.hash`, the
hash the router knows) and `shown` (the mounted page).

| Action | Code |
|---|---|
| `Start` | the program has been loaded at an address: first navigation, the guard of `router/index.ts:63-105` included |
| `ClickTab`, `SelectDoc`, `ClickDocLink` | `Push`: the guard lets it through (`Proceed`), takes the hash in the bar for a legacy address and goes there (`Divert`), or the emptied hash sends the router back where it was (`Return`) |
| `ClickSection` | `history.replaceState` with a heading's id, which the router does not see |
| `Load`, `Reload` | a new address, or the same again: the stores are fresh, what was in flight is given up (an upload may reach the server) |
| `Show`, `Replace`, `Keep` | `router-view`: one page goes, another comes; between documents the page stays and its watch runs |
| `UseConvert` ... `UseLogin` | the user does something on the page that is shown |
| `ConvertArrival` ... `AdminArrival`, `LoginAccepted`, `LoginFailed` | something arrives, whatever is shown by then |
| `Unauthorized` | any call that goes through `request()` is answered 401: the token goes, the program starts again at `/login` |

A path is the sequence of its segments, a hash the path that the guard reads in it:
`#intro` and `#/intro` are `<<"intro">>`. When a guard diverts, the assignment of
`window.location.hash` makes the browser add an entry of its own, and vue-router handles
its `popstate` by going back to the route it was on, or is overtaken by the redirect;
`Push` allows both. That is modelled from vue-router's documented behaviour.

What the model shows to be so, and its properties therefore except by name:

- A section's hash in the address bar is taken for a legacy address by each
  navigation that follows (`router/index.ts:98`, against `DocsPage.vue:389` and `404`): a click on
  a tab leads to the catalog, as does a deep link with a section.
  `NavigationLands` excuses it by `misled`.
- The sidebar's template goes two levels deep (`DocsPage.vue:469-500`): a document in a third never
  appears there, and the catalog's card of a subdirectory asks for the directory as a
  document (560). `ArrivalListed` speaks of two levels.
- Of overlapping loads the answer that comes last is shown, also under the catalog,
  and the first to end stops the spinner (`docs.ts:51`, `68`). `DocsShowRoute`
  excuses it by `crossed`; so does `OneAnswerShown` for Ctrl+Enter, which works while a
  conversion is under way (`ConvertPage.vue:116`).
- Resizing the sidebar, typing in its search or anything else that renders
  the documentation again puts the source of a diagram back, and nothing draws it
  again (`DocsPage.vue:126`, `221`). `DiagramsDrawn` excuses it by `rerendered`.
- A report on an Ingress without nginx annotations has `findings: null`, which
  `CheckPage.vue:110` iterates: the page goes blank (`Blanked`), and only another page
  or a reload helps.
- The document manager lists every file of a successful upload, also those the server
  skipped (`skipped`); deleting touches its own list only; the preview has no text.
- `GET /api/announcements` answers `{success, data}`, which `app.ts:40` and `AdminPage.vue:20` take for the
  list: the bar never shows, the administration page shows a row for each field
  of the answer (`AnswerFields`), editing one saves a new announcement and deleting one asks
  for `id=undefined`.
- A save that ends late closes whichever form is open by then. A login that ends late
  pushes the user to the catalog from wherever they are; the error of a login
  refused with 401 is gone with the reload before it is seen.

## 3. Runs

| Run | Instance and bounds | Shows |
|---|---|---|
| `docs_cache` | two files, one body and the empty one, two handlers and the scan of `NewServer`, 2 changes, 1 restart | `FreshMetaFreshContent`, `QuietScanReflectsDisk`, `CacheConverges` |
| `docs_upload` | the same without a restart | violation of `UploadIsListed` |
| `store` | two handlers, two texts, up to 3 announcements (with a gap in the ids, or a broken file), 2 changes, 1 restart | `UniqueIds`, `RestartRestores`, `ActiveListComplete`, `RefinesRegistry` |
| `store_admin` | the same, 1 change | violation of `AdminListComplete` |
| `cluster_apply` | two Ingresses (one conf needs a plugin config, one a policy), two runs, 1 user's change, 1 fault | `SuccessMeansMigrated`, `DanglingLinkExplained`, `RefinesLedger`; no deadlock |
| `cluster_rerun` | one Ingress, two runs, 2 user's changes, 1 fault | `KeepsUnlistedNotes`, `RerunsConverge` |
| `cluster_legacy` | one Ingress, one run, no fault | violation of `LegacyClassRemoved` |
| `converter` | one Ingress with every choice of every two annotations of all that are handled (and some that are not), and of twelve groups of three to six that have to do with one another; annotations under both prefixes; `spec.tls`, paths and default TLS redirect; what writes an annotation of APISIX's beside that annotation; lists of two Ingresses whose names may be cut to one, in one namespace or two; each with a second run | `NothingSilentlyLost`, `NoFalseAlarm`, `AffinityWorks`, `LinksResolve`, `ConvertsOnce` |
| `converter_cors` | the same | violation of `CorsOnlyWhenTrue` |
| `migrate_charts` | two templates of one directory: the first limits requests (under the second one's name or its own) or has nothing to migrate, the second has one annotation of each sort or two that have to do with one another; with and without `Chart.yaml`; any number of runs with any options, 1 fault, 1 edit | `LostOnlyWithItsConfig`, `ValuesMatch`, `CleanReport`, `BackupPrecedes`, `Converges` |
| `migrate_rewrite` | the same charts, no fault, no edit | violation of `RewriteBecomesNative` |
| `web_app` | the whole interface under 4 gestures of the user and any answers: two texts (one whose report blanks the page), two options, documents at depth 1, 2 and 3 and one to upload beside a file that is not Markdown, 13 addresses with sections and legacy hashes, two headings of which one is named like a page | `SpinnersMeanCalls`, `OneAnswerShown`, `OneCheckAtATime`, `DocsShowRoute`, `DiagramsDrawn`, `ArrivalListed`, `SelectionListed`, `ListedReachedServer`, `OneSaveAtATime`, `NavigationLands`, `PageFollowsAddress`, `SpinnersStop` |

The converter reads no more than six annotations for any one output (cors), and those
are a group; any two annotations that should not touch one another are a pair.
`MCConverter` gives each annotation two to five values: for a boolean both, for a
number one that is none, 0, 1 and 61: between these the rates of `limit-rps` and
`limit-rpm` cross. It says `CHECK_DEADLOCK FALSE`: a conversion ends.

Why the bounds are enough. A stale scan needs two goroutines and two versions of
one file; two changes give three versions, and a second file a scan that is half
way through the directory. A listing that misses a cell needs one deletion under
it; reuse of an id needs a deletion, then an addition. In `ClusterApply` two runs and
one user are the three writers a conflict can have; one fault at any request gives
every partial state, and the second run meets it. Model values of one sort
(handlers) are interchangeable and reduced by symmetry in `store`, where no
liveness is checked. `MaxChanges`, `MaxCrashes`, `MaxEdits`, `MaxFaults` bound only
how much the environment does, never what the program does.

In `web_app`, `MaxGestures` bounds the user over the whole behaviour; the program starts at any
of the addresses, so that all four are left for what matters: two requests that
cross need two gestures, a section that diverts a navigation three (open, follow,
click), a select, a delete and a preview after an upload four. Each way in which a
property can fail that `mutants` lists is found with four. The other bounds are on what may be in flight
at once: `MaxCalls` 2, `MaxLoads` and `MaxLists` 3, `MaxTimers` 6, `MaxUploads` 3, `MaxSaves` 2,
`MaxDeletes` 1, `MaxLogins` 1. It says `CHECK_DEADLOCK FALSE`: a user who has used
up the gestures leaves nothing to do. The theorems below need none of these bounds to
be what they are.

`cluster_rerun` says `CHECK_DEADLOCK FALSE` since the users may delete the only
Ingress, after which listing is an error and nothing is left to do.

### Fairness

- `DocsCache`: weak fairness of each goroutine's steps, which the Go scheduler
  gives: a handler waits for nothing but a lock that is never held across a step.
  That anybody asks for the list is no fairness but a premise of `CacheConverges`.
- `ClusterApply`: weak fairness of a run that is under way (a request is answered or
  times out). That runs are started is a premise of `RerunsConverge`.
- `MigrateCharts`: weak fairness of a run's steps: it is one loop that waits for
  nothing. That runs are started without `--migrate-dry-run` is a premise of `Converges`.
- `AnnouncementStore`: none; its properties are safety properties.
- `WebApp`: weak fairness of `Start` and of the arrivals of each page and of logins: a
  `fetch` settles, with an answer or an error, a FileReader ends, a timer runs. The user
  owes nothing. That one kind of arrival does not starve another is the event
  loop's; within a page fairness is of the arrivals together, which are finitely many
  once the user stops.

### What the violations show

- `UploadIsListed`: the comment at `server.go:912`, "Re-scan so the new files appear in
  the list cache", does not hold while another request's scan is under way: it may
  have read the directory before the upload and install its maps after the
  upload's own scan. `CacheConverges` shows that a later request repairs it.
- `AdminListComplete`: "List returns all active announcements"
  (`announcement.go:49`), but for `?all=true` the handler encodes `s.data` itself after
  the lock is released, and a `Delete` moves the cells under it.
- `LegacyClassRemoved`: `README.md:14` says that `kubernetes.io/ingress.class: nginx` is
  removed. In cluster mode the merge patch holds no `null`, so it stays.
- `CorsOnlyWhenTrue`: "CORS -> cors plugin config (always when enable-cors is true)"
  (`converter.go:1020`), but the code asks only whether `enable-cors` has a value, so that
  `enable-cors: "false"` switches on a plugin that allows every origin.
- `RewriteBecomesNative`: "Single rewrite should be removed from snippet (consumed as
  native annotation)" (`migrator_test.go:220`): it is removed, but no annotation and
  no plugin is made of it.

## 4. Proofs

Each `...Proofs` module proves, for every value of the constants that satisfies the
assumptions in the modules:

| Theorem | Says |
|---|---|
| `DocsCacheProofs!TypeCorrect` | `Spec => []TypeOK` |
| `DocsCacheProofs!SkippingIsSafe` | `~CoarseClock => (Spec => []FreshMetaFreshContent)` |
| `DocsCacheProofs!LoneScanIsExact` | `~CoarseClock => (Spec => []QuietScanReflectsDisk)` |
| `AnnouncementStoreProofs!TypeCorrect` | `Spec => []TypeOK` |
| `AnnouncementStoreProofs!PublicListingComplete` | `Spec => []ActiveListComplete` |
| `AnnouncementStoreProofs!IdsStayUnique` | `Spec => []UniqueIds` |
| `AnnouncementStoreProofs!RestartKeepsList` | `Spec => []RestartRestores` |
| `AnnouncementStoreProofs!ImplementsRegistry` | `Spec => RefinesRegistry` |
| `WebPagesProofs!ImplementsConvertPage` | `Spec => Convert!Spec` |
| `WebPagesProofs!AlwaysOneAnswerShown` | `Spec => [](OneAnswerShown /\ Convert!SpinnerMeansCall)` |
| `WebPagesProofs!AlwaysOneCheckAtATime` | `Spec => []OneCheckAtATime` |
| `WebPagesProofs!AlwaysOneSaveAtATime` | `Spec => []OneSaveAtATime` |
| `WebPagesProofs!SelectionAlwaysListed` | `Spec => []SelectionListed` |
| `WebPagesProofs!ListedAlwaysReachedServer` | `Spec => []ListedReachedServer` |
| `WebAddressProofs!WebTypeCorrect` | `Spec => []TypeOK` |
| `WebAddressProofs!NavigationAlwaysLands` | `Spec => []NavigationLands` |
| `WebAddressProofs!PageAlwaysFollowsAddress` | `Spec => []PageFollowsAddress` |
| `WebAddressProofs!DocsAlwaysShowRoute` | `Spec => []DocsShowRoute` |
| `WebAddressProofs!DiagramsAlwaysDrawn` | `Spec => []DiagramsDrawn` |
| `WebAddressProofs!SpinnersAlwaysMeanCalls` | `Spec => []SpinnersMeanCalls` |
| `WebAddressProofs!ArrivalAlwaysListed` | `Spec => ArrivalListed` |
| `ClusterApplyProofs!TypeCorrect` | `Spec => []TypeOK` |
| `ClusterApplyProofs!SuccessTheorem` | `Spec => []SuccessMeansMigrated` |
| `ClusterApplyProofs!DanglingTheorem` | `Spec => []DanglingLinkExplained` |
| `ClusterApplyProofs!NotesTheorem` | `Spec => KeepsUnlistedNotes` |
| `ClusterApplyProofs!ImplementsLedger` | `Spec => RefinesLedger` |
| `ChartTemplatesProofs!MigratedIsSettled` | what a migration made of a template, a second one leaves alone |
| `ChartTemplatesProofs!LineKept` | what becomes of each line of a template in one migration |
| `MigrateChartsProofs!TypeCorrect` | `Spec => []TypeOK` |
| `MigrateChartsProofs!BackupTheorem` | `Spec => BackupPrecedes` |
| `MigrateChartsProofs!ValuesTheorem` | `Spec => []ValuesMatch` |
| `MigrateChartsProofs!ReportTheorem` | `Spec => []CleanReport` |
| `MigrateChartsProofs!LostTheorem` | `Spec => []LostOnlyWithItsConfig` |
| `ConverterProofs!TypeCorrect` | `Spec => []TypeOK` |
| `ConverterProofs!OnceTheorem` | `Spec => []ConvertsOnce` |
| `ConverterProofs!LinksTheorem` | `Spec => []LinksResolve` |
| `ConverterProofs!AffinityTheorem` | `Spec => []AffinityWorks` |
| `ConverterProofs!AlarmTheorem` | `Spec => []NoFalseAlarm` |
| `ConverterProofs!SilentTheorem` | `Spec => []NothingSilentlyLost` |

*Docs cache.* `~CoarseClock` says that two writes never get the same mtime; without it
`FreshMetaFreshContent` is false. The property alone is not inductive: a scan that
is about to install must not bring old bytes under new metadata. `FreshInv` adds
that no stamp is in the future (`StampsBounded`), what a file being written holds
(`WritesPending`), that idle goroutines have empty locals (`LocalsEmpty`), and that
what a scan has read under metadata that is still the file's is what the file
holds (`ReadsCurrent`): the metadata is read first, so bytes read later are at
least as new, and if they are newer the file's stamp has moved past the metadata.
`QuietInv` adds what a scan that runs alone has seen (`QuietSeen`) and that the maps have
the same keys (`SameKeys`): without the latter, equal metadata would not mean that
the scan had nothing to change.

*Announcement store.* `TypeInv` joins types with who holds the lock (`LockHeld`: the
handler inside `Add`, `Update` or `Delete`, and nobody else is there) and with what a
listing has done so far (`ListInv`: each announcement it owes is in its slice, and
what it has encoded of a copy equals the copy). `UniqueIds` and `RestartRestores`
are inductive with it (`IdInv`, `SaveInv`). The refinement maps each step: `Add` to
`Post`, `Update` to `Revise`, `EndShift`'s effect is already taken by `Delete` (which is
`Withdraw`, since `Live` leaves the hole out), `Shift` and the encoding to stutters,
`Truncate` to `Spoil`, `Write` to `Store`, `Crash` to `Restart`.

*Web interface.* The lemma `PageSteps` is what makes the pages provable one by one: each step
of `WebApp` is, to each page, a step of that page's own specification or a
stutter (for the documentation, a step with some route). With it
`ImplementsConvertPage` is immediate, and each page's invariant is proved against the
page's few actions. The properties are not inductive alone:

- `ConvertInv` adds that unless requests overlapped at most one is out, and it is the
  latest (`LoneCallIsLatest`): otherwise an old answer could arrive after a new request.
- `CheckInv` and `AdminInv` add that the call that is out is the only one, and
  `CheckInv` that it asks for the latest text.
- `DocumentsInv` adds that uploads that never overlapped are one.
- `DocsInv` adds `RouteOnItsWay`: unless a load was out when the route changed, either
  nothing is on its way and the page shows its route, or exactly the document of the
  route is on its way.
- `AddressInv` adds `LegacyObeyed` (a hash in the bar that is no section is a legacy
  address still to be obeyed, and the program has not started) and that the mounted
  page is that of the path (`MountedAs`). One lemma for each way of getting to a
  page, `PushLands`, `StartLands`, `LoadLands`, keeps it.
- `ShellInv` adds that a login that is out leaves room for itself among the strays.

The assumptions of the web interface are those named in `WebApp`: `ConvertAssumption`, `CheckAssumption`,
`DocsAssumption`, `DocumentsAssumption`, `AdminAssumption`, `ShellAssumption` and `AddressAssumption`.
They say that the markers (no text, no hash, no document) are none of the things
marked, that paths are sequences of strings, that bounds are numbers, and that the
directory a subdirectory's card asks for is among the names considered.

*Cluster mode.* Three facts keep the properties through the steps of other runs and of
users. For `ImplementsLedger` (`QueueInv`): a run that has stopped has nothing to apply
(`IdleHasNothing`), one that has an Ingress still to patch has its plugin config still to
write (`PluginFollows`, the order of `ApplyResult`), and a link that a run has listed is
never taken away again (`LinksStay`), so that a patch which makes a new link
is one for which the run owes the config. One lemma maps each group of steps to its step of
the ledger. `DanglingLinkExplained` then is a matter of the ledger alone (`LedgerAccounts`): a debt leaves
a run only by being paid or recorded. For `SuccessMeansMigrated` (`CleanInv`): an Ingress that nobody else has written is
as the run has listed it (`AsListed`), and of its objects those that the run has no
longer to apply are applied (`AppliedSoFar`); with nothing left to apply it is
`Served`. That what it has besides is of its past (`OnlyOfItsPast`) is an invariant of
all Ingresses and of what runs have listed, since a patch adds only what it has read. `KeepsUnlistedNotes` follows from `AsListed`: the patch of a clean Ingress puts
the note that is there already.

*Chart migrator.* `ChartTemplatesProofs` has the lemmas about one template, and the
two results that say most. The new text is `FlattenSeq` of what stands for each line,
a fold, so that nothing could be said of it without an induction over the lines. The
induction theorems are out of reach (below), but the well-founded minimum of
`WellFoundedInduction`, `WFMin`, takes a set and no operator: `Least` gives the smallest
number for which a formula fails, and `SetInduction` an induction over the set of those for
which it holds. With it each line of the result is traced to the one it comes from (`Origin`),
hence what a migration makes is a template again, in which no two lines set one of
nginx's annotations (`MigratedTemplate`), and it is settled. In `MigrateChartsProofs`:

- `BaseInv` joins `TypeOK` with what files hold (`FilesInv`: no or one template) and with what
  a run has in hand (`WorkInv`: until the template is written what it has read is what the
  file holds, afterwards the file holds what was made of it).
- `BackupInv`: a run about to write has saved what is there, unless something failed.
- `ConfigsMatch` says of `ValuesMatch` what holds between the two writes too: there the file
  holds the config of the template in hand and nothing else, so that writing its values
  makes them agree whatever was in either file before.
- `RunInv`: a run without warnings has migrated the templates before the one it is at, but
  for what it passed over; `MigratedIsSettled` says what that can be. `WroteInv`: the plugin
  config it last had to write is on file with its values, or is about to be.
- `LostOnlyWithItsConfig` is inductive with `BaseInv` and `Asks` (a redirect ever asked for was under
  a prefix of nginx's, without which it would not pair): each line is followed
  through `LineKept`, and a plugin entry through the one file of all plugin configs.

The assumptions say what a chart is: `WalkAssumption` (there is a template),
`ChartAssumption` (templates are well formed: lines are a sequence, an annotation of nginx's
stands in one line only, as the keys of a YAML mapping do; the redirects are nginx's), `AnnotatingAssumption`,
`NoRedirectAdded` (users add no redirect: one added to a template whose other redirect
was dropped pairs with nothing, a known loss) and `SnippetAssumption` (a snippet can hold only
what the migrator does not know).

*Converter.* The state of a run is determined by how far it is: `ResultInv` says
that the result is what was made of the Ingresses before `at`, collected in their order
(`Collects` for sequences of at most one each, `Union` for sets). `ListInv` says that these
Ingresses have their path types fixed already, and `FixedAlike`, `FixedMakes`, that this
changes nothing that is made of them: `ConvertNext` changes the Ingress it has just
converted. `RerunInv` says that in a second run each Ingress is `Settled`: it has no
annotation of nginx's, its class, types, regex and TLS annotations are what a
conversion would write. `OutSettled` shows it of every converted Ingress,
`SettledConvert` that converting one changes nothing, which is `ConvertsOnce`. For `NoFalseAlarm`, an
Ingress without an annotation that is reported as lost says the same of everything in
the table of handled annotations and of the cookie that somebody asks for (`SameReads`);
one lemma for each builder (`SameNative` to `SameOut`) shows that its result depends on no
more than that. That is the property that a new annotation breaks when it is read but
not entered in the table.

`NothingSilentlyLost` is the other way round: an Ingress and the same without one annotation are
to be converted differently. What a conversion makes is a union over the builders, so that
one builder's share must first be found in it again: plugins are told apart by their kinds,
policies and upstreams by theirs, warnings by what they are about, APISIX's annotations by who
writes them. `Silence` turns equal results into equal shares (`Indistinct`). For
each annotation a lemma (`CorsTell`, `LimitsTell`, `SessionTell` and the others) says that
equal shares mean that it asks for nothing or is one of `Dropped`, and `AnnotationMatters` joins
them. The proof follows the disjuncts of `Idle`, `Repeats`, `Default` and `Dropped`, and needs each.

The proof has changed the property. As it first stood some steps had no proof, and TLC,
given the Ingresses that those steps were about, refuted it: an annotation of
APISIX's that is there already makes one of nginx's change nothing (`force-ssl-redirect`,
`use-regex`, `websocket-services`, the code of a redirect under an `app-root`), a rate of 0 has
factors that change nothing, the values that are nginx's defaults say nothing, and what the converter
cannot read it drops. Each of these has a disjunct of its own now, and those Ingresses
are among the lists.

The assumptions on the converter's constants are that nothing is no number, size or
timeout and a numeral names a natural number (`NumeralAssumption`), an empty snippet says nothing (`SnippetAssumption`), the
default namespace has a name (`NamespaceAssumption`), and the Ingresses are whole
(`ListAssumption`: their fields are what `Conversion` says, a key of nginx's is a prefix and a
suffix, and a name is not cut to nothing).
What regular expressions find, how names are cut and which values there are
is arbitrary.

Only model-checked:

- the liveness properties `CacheConverges`, `RerunsConverge`, `Converges` and `SpinnersStop`:
  liveness is beyond the prover's reach.

Every safety property that a passing run checks is a theorem or part of one.

The library's induction theorems take an operator as a parameter, which the
installed provers cannot instantiate; an induction here is one over sets, as said
above.

## 5. What is not modelled

- The text of YAML, comments and messages, and `comments.go`: layout only.
- The feedback store: no route reaches it (`server.go:188`); it has the structure of
  the announcement store.
- The convert, check and migrate handlers: no state is shared between requests.
- The Lua plugins: they run inside APISIX and keep nothing but a request's `ctx`.
- Of cluster mode: kubeconfig, namespaces (objects of different namespaces do not
  meet), `--dry-run` (writes nothing), and the ApisixUpstreams and ApisixTls of a
  result, which the code converts but never applies.
- Of the chart migrator: several template directories of a chart, several Ingresses
  in a file, indentation and blocks (a snippet under both prefixes leaves its block
  behind, `migrator.go:463`), a quoted class, the counts and diffs of the report.
- Of the web interface: `PluginsPage.vue` (no route leads to it), `UserMenu.vue` (mounted nowhere)
  and the announcement bar (it never shows); how text is highlighted, and of
  `renderMd` all but its diagrams (`Rendered`), both chains of regular expressions; the divider of the convert page,
  the width of the sidebar, the look of a drag; the filter of the check report; back and
  forward of the browser (the router's `popstate`); the moment in which `App.vue:21`
  (`mode="out-in"`) has taken one page down and not yet put up the next; the
  page to return to after a login (`route.query.redirect`, which nothing in the
  program sets);
  scrolling to a heading.
- Which of several policies for one service the controller obeys (`converter.go:1246`): that is
  outside this repository.
- A file system whose mtime is coarser than two writes: `CoarseClock` models it,
  and is FALSE in the runs, because the cache then may never see the second write.

## 6. Plan

In this order; each module with an MC module, mutants, hazards and, where it says
so, a proof module.

1. *Converter*: the sources of values (`pluginSources`, the comments' input): each names an
   annotation that was read.
2. *MigrateCharts*: several template directories, which share the keys of one
   `values.yaml`, and a user's own entry under such a key.
3. *Gateway*: host grouping with the map order as nondeterminism; the result must not
   depend on the order; listeners, ParentRefs and names must resolve.
4. *CheckScanner*: the scanner's tables against the converter's: what the scanner calls
   convertible, the converter converts.
5. *Reader*: what a round trip through parse and write keeps, for the three formats.

An abstract specification worth stating besides: a cluster in which each Ingress migrates in
one step or not at all. `ClusterApply` does not implement it, because patches precede configs;
`MigrationLedger` is what holds instead.
