------------------------------ MODULE DocsPage ------------------------------
(***************************************************************************)
(* The documentation page (web/src/views/DocsPage.vue) and its store       *)
(* (web/src/stores/docs.ts), which outlives the page.                      *)
(*                                                                         *)
(* A document is known by its path below the docs directory, a sequence of *)
(* names; its directories are the proper prefixes of the path.  The tree   *)
(* of the list answer is represented by the set of documents in it.        *)
(*                                                                         *)
(* loadDoc() does not number its requests: whatever answer arrives last is *)
(* shown, and the first to arrive stops the spinner.  renderMd() runs in   *)
(* the template and numbers the diagrams anew at each rendering, so every  *)
(* rendering of the page puts the source text of a diagram back; mermaid   *)
(* draws only when the content has changed.                                *)
(***************************************************************************)
EXTENDS Naturals, Sequences

CONSTANTS
    Docs,          \* paths of documents the server may have
    Missing,       \* paths the page may be asked for and the server never has
    Illustrated,   \* documents with a mermaid diagram
    Found,         \* documents whose title or name contains the search text
    Catalog,       \* the route /docs, without a document
    Away,          \* any route of another page
    None,          \* no document
    MaxLoads,      \* bound: documents being fetched at once
    MaxLists,      \* bound: lists being fetched at once
    MaxTimers      \* bound: renderings of diagrams waiting for their timer

Names == Docs \cup Missing

VARIABLES
    docs,          \* the store and the page
    library        \* documents in the server's docs directory

Load == [no : 1..MaxLoads, name : Names]

\* The directories of a path, outermost first (as a set).
Parents(path) == {SubSeq(path, 1, i) : i \in 1..Len(path) - 1}

\* loadDoc's loop with its bound one too low.
ParentsButLast(path) == {SubSeq(path, 1, i) : i \in 1..Len(path) - 2}

Directories == UNION {Parents(d) : d \in Names}

\* The store, and the page's own state, in one.
Page ==
    [route : Names \cup {Catalog, Away},   \* route.params.name
     docTree : SUBSET Docs,
     currentDocName : Names \cup {None},
     currentDocContent : Docs \cup {None},
     loading : BOOLEAN,
     loads : SUBSET Load,                  \* GET /api/docs/<name> in flight
     lists : 0..MaxLists,                  \* GET /api/docs/list in flight
     expandedDirs : SUBSET Directories,
     searching : BOOLEAN,                  \* searchQuery is not blank
     sidebarCollapsed : BOOLEAN,           \* kept in localStorage
     diagram : {"none", "source", "drawn"},
     timers : 0..MaxTimers,
     crossed : BOOLEAN,     \* history: the route changed with a load out
     rerendered : BOOLEAN]  \* history: rendered again, content unchanged

TypeOK == docs \in Page

Fresh == [route |-> Away, docTree |-> {}, currentDocName |-> None,
          currentDocContent |-> None, loading |-> FALSE, loads |-> {}, lists |-> 0,
          expandedDirs |-> {}, searching |-> FALSE, sidebarCollapsed |-> FALSE,
          diagram |-> "none", timers |-> 0, crossed |-> FALSE, rerendered |-> FALSE]

Init == docs = Fresh

-----------------------------------------------------------------------------
(* What the page shows.                                                    *)

Mounted == docs.route # Away

ContentShown(d) == d.route # Away /\ ~d.loading /\ d.currentDocContent # None

FilteredTree ==
    IF docs.searching THEN docs.docTree \cap Found ELSE docs.docTree

\* Documents at the root, and directly in a directory of the root that is
\* expanded; the template shows no deeper level.
Listed(tree) ==
    {d \in tree : Len(d) = 1 \/ (Len(d) = 2 /\ <<d[1]>> \in docs.expandedDirs)}

Sidebar == IF docs.sidebarCollapsed THEN {} ELSE Listed(FilteredTree)

\* The catalog gives every child of an expanded directory a card, a
\* subdirectory too: its card asks for the directory as if it were a document.
SubdirectoryCards ==
    {p \in UNION {Parents(d) : d \in docs.docTree} :
        Len(p) = 2 /\ <<p[1]>> \in docs.expandedDirs}

CatalogCards ==
    IF Mounted /\ ~docs.loading /\ docs.currentDocContent = None
    THEN Listed(docs.docTree) \cup SubdirectoryCards
    ELSE {}

\* What a click can select: selectDoc(name) or showCatalog().
Clickable ==
    IF Mounted
    THEN CatalogCards \cup Sidebar \cup (IF docs.sidebarCollapsed THEN {} ELSE {Catalog})
    ELSE {}

\* Directories with a button, in the sidebar or in the catalog.
Toggles ==
    {p \in UNION {Parents(d) : d \in docs.docTree} :
        Len(p) = 1 \/ (Len(p) = 2 /\ <<p[1]>> \in docs.expandedDirs)}

-----------------------------------------------------------------------------
(* Rendering.  Every change of the page's state renders it again; a change *)
(* of the content also starts the timer of renderMermaidDiagrams.          *)

Rendered(d) ==
    [d EXCEPT
        !.diagram = IF ContentShown(d) /\ d.currentDocContent \in Illustrated
                    THEN "source" ELSE "none",
        !.rerendered = TRUE]

\* A change of content for which nobody draws.
RenderedUndrawn(d) == [Rendered(d) EXCEPT !.rerendered = FALSE]

RenderedNew(d) == [Rendered(d) EXCEPT !.rerendered = FALSE, !.timers = @ + 1]

\* The watch on the content runs while the page is mounted.
Render(d) ==
    IF d.currentDocContent # docs.currentDocContent /\ d.route # Away
    THEN d.timers < MaxTimers /\ docs' = RenderedNew(d)
    ELSE docs' = Rendered(d)

DrawDiagrams ==
    /\ docs.timers > 0
    /\ docs' = [docs EXCEPT !.timers = @ - 1,
                            !.diagram = IF @ = "source" THEN "drawn" ELSE @]
    /\ UNCHANGED library

-----------------------------------------------------------------------------
(* Loading.                                                                *)

FreeNumbers == {n \in 1..MaxLoads : \A l \in docs.loads : l.no # n}

\* handleRoute() on entering /docs/<name>: loadDoc(name) sends its request.
Requested(d, name) ==
    [d EXCEPT !.loading = TRUE,
              !.loads = @ \cup {[no |-> CHOOSE n \in FreeNumbers : TRUE, name |-> name]}]

\* handleRoute() on entering /docs: the catalog, whatever is being fetched.
Cleared(d) == [d EXCEPT !.currentDocContent = None, !.currentDocName = None]

\* A handleRoute() that leaves the former document on the catalog's page.
HandleRouteKeeping(d, route) == IF route = Catalog THEN d ELSE Requested(d, route)

HandleRoute(d, route) == IF route = Catalog THEN Cleared(d) ELSE Requested(d, route)

AtRoute(d, route) == [d EXCEPT !.route = route, !.crossed = docs.loads # {}]

\* onMounted: fetch the list, then handle the route.
Mount(route) ==
    /\ ~Mounted
    /\ docs.lists < MaxLists
    /\ route = Catalog \/ FreeNumbers # {}
    /\ Render(HandleRoute([AtRoute(docs, route) EXCEPT
                            !.lists = @ + 1, !.searching = FALSE], route))
    /\ UNCHANGED library

\* The page stays mounted when only the document changes.
Open(route) ==
    /\ Mounted
    /\ route # docs.route
    /\ route = Catalog \/ FreeNumbers # {}
    /\ Render(HandleRoute(AtRoute(docs, route), route))
    /\ UNCHANGED library

Unmount ==
    /\ docs' = Rendered([docs EXCEPT !.route = Away])
    /\ UNCHANGED library

\* The whole interface is loaded anew: only localStorage survives.
Restart ==
    /\ docs' = [Fresh EXCEPT !.sidebarCollapsed = docs.sidebarCollapsed]
    /\ UNCHANGED library

Arrived(l, content, dirs) ==
    Render([docs EXCEPT !.loads = @ \ {l}, !.loading = FALSE,
                        !.currentDocName = l.name, !.currentDocContent = content,
                        !.expandedDirs = @ \cup dirs])

LoadFoundButLast(l) ==
    /\ l \in docs.loads
    /\ l.name \in library
    /\ Arrived(l, l.name, ParentsButLast(l.name))
    /\ UNCHANGED library

\* The text arrives; the directories above it are expanded.
LoadFound(l) ==
    /\ l \in docs.loads
    /\ l.name \in library
    /\ Arrived(l, l.name, Parents(l.name))
    /\ UNCHANGED library

\* A failure that returns before `finally`.
LoadFailedStillLoading(l) ==
    /\ l \in docs.loads
    /\ Render([docs EXCEPT !.loads = @ \ {l}, !.currentDocName = l.name,
                           !.currentDocContent = None])
    /\ UNCHANGED library

\* 404, or fetch rejects: the name is set and the content emptied.
LoadFailed(l) ==
    /\ l \in docs.loads
    /\ Arrived(l, None, {})
    /\ UNCHANGED library

\* The list of the moment, or none at all when the request fails.
ListArrived(tree) ==
    /\ docs.lists > 0
    /\ Render([docs EXCEPT !.lists = @ - 1, !.docTree = tree])
    /\ UNCHANGED library

-----------------------------------------------------------------------------
(* The sidebar.                                                            *)

ToggleDir(dir) ==
    /\ Mounted
    /\ dir \in Toggles
    /\ Render([docs EXCEPT
        !.expandedDirs = IF dir \in @ THEN @ \ {dir} ELSE @ \cup {dir}])
    /\ UNCHANGED library

ToggleSidebar ==
    /\ Mounted
    /\ Render([docs EXCEPT !.sidebarCollapsed = ~@])
    /\ UNCHANGED library

Search(on) ==
    /\ Mounted /\ ~docs.sidebarCollapsed
    /\ on # docs.searching
    /\ Render([docs EXCEPT !.searching = on])
    /\ UNCHANGED library

\* Dragging the sidebar's edge only changes its width, but renders the page.
Resize ==
    /\ Mounted /\ ~docs.sidebarCollapsed
    /\ Render(docs)
    /\ UNCHANGED library

-----------------------------------------------------------------------------
Gesture ==
    \/ \E dir \in Directories : ToggleDir(dir)
    \/ ToggleSidebar
    \/ \E on \in BOOLEAN : Search(on)
    \/ Resize

Arrival ==
    \/ \E l \in Load : LoadFound(l)
    \/ \E l \in Load : LoadFailed(l)
    \/ \E tree \in {library, {}} : ListArrived(tree)
    \/ DrawDiagrams

Next ==
    \/ \E route \in Names \cup {Catalog} : Mount(route)
    \/ \E route \in Names \cup {Catalog} : Open(route)
    \/ Unmount
    \/ Restart
    \/ Gesture
    \/ Arrival

Spec == Init /\ library \in SUBSET Docs /\ [][Next]_<<docs, library>>

-----------------------------------------------------------------------------
(* Properties.                                                             *)

\* Unless a document was still being fetched when the route last changed, the
\* page ends on what the address names: the catalog, or the document and its
\* text (no text if the fetch failed).  The store may hold anything before.
DocsShowRoute ==
    Mounted /\ docs.loads = {} /\ ~docs.crossed =>
        /\ ~docs.loading
        /\ IF docs.route = Catalog
           THEN docs.currentDocName = None /\ docs.currentDocContent = None
           ELSE /\ docs.currentDocName = docs.route
                /\ docs.currentDocContent \in {docs.route, None}

\* The spinner turns only while a document is being fetched.
SpinnerMeansLoad == docs.loading => docs.loads # {}

\* A diagram whose timer has run is drawn, unless the page was rendered again
\* without a change of its text, which puts the source back for good.
DiagramsDrawn ==
    docs.timers = 0 /\ docs.diagram = "source" => docs.rerendered

\* A document of the two levels the sidebar shows is in view there as soon as
\* it has arrived, in whatever directory and however it was reached.
ArrivalListed ==
    [][\A l \in docs.loads :
        l \notin docs'.loads /\ docs'.currentDocContent = l.name
            /\ l.name \in docs'.docTree /\ Len(l.name) <= 2
        => l.name \in Listed(docs.docTree)']_docs
=============================================================================
