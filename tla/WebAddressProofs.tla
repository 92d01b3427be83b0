-------------------------- MODULE WebAddressProofs --------------------------
(***************************************************************************)
(* Proofs about the documentation page and the address bar in WebApp.      *)
(***************************************************************************)
EXTENDS WebPagesProofs, SequenceTheorems

-----------------------------------------------------------------------------
(* The documentation page.                                                 *)

\* The route is shown, or is about to be: unless a document was on its way
\* when the route changed, the only one on its way is that of the route.
RouteOnItsWay ==
    Documentation!Mounted /\ ~docs.crossed =>
        \/ /\ docs.loads = {}
           /\ IF docs.route = Catalog
              THEN docs.currentDocName = None /\ docs.currentDocContent = None
              ELSE /\ docs.currentDocName = docs.route
                   /\ docs.currentDocContent \in {docs.route, None}
        \/ /\ docs.route # Catalog
           /\ \A l \in docs.loads : docs.loads = {l} /\ l.name = docs.route
           /\ docs.loads # {}

DocsInv ==
    /\ Documentation!TypeOK
    /\ library \subseteq Docs
    /\ Documentation!SpinnerMeansLoad
    /\ Documentation!DiagramsDrawn
    /\ RouteOnItsWay

\* What a rendering leaves of the state it renders.
SameBut(d) ==
    /\ docs'.route = d.route
    /\ docs'.docTree = d.docTree
    /\ docs'.currentDocName = d.currentDocName
    /\ docs'.currentDocContent = d.currentDocContent
    /\ docs'.loading = d.loading
    /\ docs'.loads = d.loads
    /\ docs'.expandedDirs = d.expandedDirs
    /\ docs'.crossed = d.crossed

\* Rendering touches the diagrams only, and either starts their timer or is
\* known to history.
LEMMA RenderKeeps ==
    ASSUME NEW d \in Documentation!Page, Documentation!Render(d)
    PROVE  SameBut(d) /\ Documentation!TypeOK' /\ Documentation!DiagramsDrawn'
  <1> USE DEF Documentation!Page
  <1> DEFINE r == Documentation!Rendered(d)
  <1>1. r \in Documentation!Page /\ r.rerendered
        /\ r = [d EXCEPT !.diagram = r.diagram, !.rerendered = TRUE]
    BY DEF Documentation!Rendered
  <1>2. CASE docs' = r
    BY <1>1, <1>2 DEF SameBut, Documentation!TypeOK, Documentation!DiagramsDrawn
  <1>3. CASE d.timers < MaxTimers /\ docs' = Documentation!RenderedNew(d)
    <2>1. d.timers + 1 \in 0..MaxTimers /\ d.timers + 1 # 0
      BY <1>3, DocsAssumption
    <2>2. docs' = [r EXCEPT !.rerendered = FALSE, !.timers = d.timers + 1]
      BY <1>3, <1>1 DEF Documentation!RenderedNew
    <2> HIDE DEF r
    <2>3. docs'.timers = d.timers + 1 /\ Documentation!TypeOK'
      BY <1>1, <2>1, <2>2 DEF Documentation!TypeOK
    <2>4. SameBut(d)
      BY <1>1, <2>2 DEF SameBut
    <2> QED BY <2>1, <2>3, <2>4 DEF Documentation!DiagramsDrawn
  <1> QED BY <1>2, <1>3 DEF Documentation!Render

\* A route is entered: the catalog at once, or a document once it is loaded.
LEMMA RouteEntered ==
    ASSUME DocsInv, NEW route \in Documentation!Names \cup {Catalog},
           NEW d \in Documentation!Page,
           d.route = route, d.crossed = (docs.loads # {}), d.loads = docs.loads,
           d.loading = docs.loading,
           route = Catalog \/ Documentation!FreeNumbers # {},
           Documentation!Render(Documentation!HandleRoute(d, route)),
           library' = library
    PROVE  DocsInv' /\ docs'.route = route /\ docs.loads \subseteq docs'.loads
  <1> USE DEF DocsInv
  <1>1. CASE route = Catalog
    <2> DEFINE e == [d EXCEPT !.currentDocContent = None, !.currentDocName = None]
    <2>1. e \in Documentation!Page /\ Documentation!Render(e)
      BY <1>1 DEF Documentation!HandleRoute, Documentation!Cleared, Documentation!Page
    <2>2. /\ e.route = Catalog /\ e.crossed = (docs.loads # {}) /\ e.loads = docs.loads
          /\ e.loading = docs.loading
          /\ e.currentDocContent = None /\ e.currentDocName = None
      BY <1>1 DEF Documentation!Page
    <2> HIDE DEF e
    <2>3. SameBut(e) /\ Documentation!TypeOK' /\ Documentation!DiagramsDrawn'
      BY <2>1, RenderKeeps
    <2>4. Documentation!SpinnerMeansLoad' /\ RouteOnItsWay'
      BY <2>2, <2>3 DEF SameBut, Documentation!SpinnerMeansLoad, RouteOnItsWay
    <2> QED BY <1>1, <2>2, <2>3, <2>4 DEF SameBut
  <1>2. CASE route # Catalog
    <2> DEFINE no == CHOOSE n \in Documentation!FreeNumbers : TRUE
               l == [no |-> no, name |-> route]
               e == [d EXCEPT !.loading = TRUE, !.loads = d.loads \cup {l}]
    <2>1. l \in Documentation!Load /\ l.name = route
      <3>1. no \in Documentation!FreeNumbers
        BY <1>2
      <3>2. no \in 1..MaxLoads
        BY <3>1 DEF Documentation!FreeNumbers
      <3>3. route \in Documentation!Names
        BY <1>2
      <3> QED BY <3>2, <3>3 DEF Documentation!Load
    <2>2. Documentation!Render(e)
      BY <1>2 DEF Documentation!HandleRoute, Documentation!Requested
    <2> HIDE DEF l
    <2>3. d.loads \cup {l} \subseteq Documentation!Load
      BY <2>1 DEF Documentation!Page
    <2>4. /\ e \in Documentation!Page
          /\ e.route = route /\ e.crossed = (docs.loads # {})
          /\ e.loads = docs.loads \cup {l}
      BY <2>3 DEF Documentation!Page
    <2> HIDE DEF e
    <2>5. SameBut(e) /\ Documentation!TypeOK' /\ Documentation!DiagramsDrawn'
      BY <2>2, <2>4, RenderKeeps
    <2>6. Documentation!SpinnerMeansLoad'
      BY <2>4, <2>5 DEF SameBut, Documentation!SpinnerMeansLoad
    <2>7. RouteOnItsWay'
      BY <1>2, <2>1, <2>4, <2>5 DEF SameBut, RouteOnItsWay
    <2> QED BY <2>4, <2>5, <2>6, <2>7 DEF SameBut
  <1> QED BY <1>1, <1>2

LEMMA RouteKeepsInv ==
    ASSUME DocsInv, NEW route \in Documentation!Names \cup {Catalog},
           Documentation!Mount(route) \/ Documentation!Open(route)
    PROVE  DocsInv' /\ docs'.route = route /\ docs.loads \subseteq docs'.loads
  <1>1. docs \in Documentation!Page /\ {MaxLists} \subseteq Nat
    BY DocsAssumption DEF DocsInv, Documentation!TypeOK
  <1>2. CASE Documentation!Mount(route)
    <2> DEFINE d == [docs EXCEPT !.route = route, !.crossed = docs.loads # {},
                                 !.lists = docs.lists + 1, !.searching = FALSE]
    <2>1. docs.lists + 1 \in 0..MaxLists
      BY <1>1, <1>2 DEF Documentation!Mount, Documentation!Page
    <2>2. /\ d \in Documentation!Page
          /\ d.route = route /\ d.crossed = (docs.loads # {}) /\ d.loads = docs.loads
          /\ d.loading = docs.loading
      BY <1>1, <2>1 DEF Documentation!Page
    <2>3. Documentation!Render(Documentation!HandleRoute(d, route)) /\ library' = library
      BY <1>1, <1>2 DEF Documentation!Mount, Documentation!AtRoute, Documentation!Page
    <2> HIDE DEF d
    <2> QED BY <1>2, <2>2, <2>3, RouteEntered DEF Documentation!Mount
  <1>3. CASE Documentation!Open(route)
    <2> DEFINE d == [docs EXCEPT !.route = route, !.crossed = docs.loads # {}]
    <2>1. /\ d \in Documentation!Page
          /\ d.route = route /\ d.crossed = (docs.loads # {}) /\ d.loads = docs.loads
          /\ d.loading = docs.loading
      BY <1>1 DEF Documentation!Page
    <2>2. Documentation!Render(Documentation!HandleRoute(d, route)) /\ library' = library
      BY <1>3 DEF Documentation!Open, Documentation!AtRoute
    <2> HIDE DEF d
    <2> QED BY <1>3, <2>1, <2>2, RouteEntered DEF Documentation!Open
  <1> QED BY <1>2, <1>3

\* A document arrives, or is found missing.
LEMMA LoadKeepsInv ==
    ASSUME DocsInv, NEW l \in Documentation!Load,
           Documentation!LoadFound(l) \/ Documentation!LoadFailed(l)
    PROVE  /\ DocsInv' /\ docs'.route = docs.route
           /\ docs'.loads = docs.loads \ {l}
           /\ \/ docs'.currentDocContent = None
              \/ Documentation!Parents(l.name) \subseteq docs'.expandedDirs
  <1> USE DEF DocsInv
  <1>1. docs \in Documentation!Page /\ l.name \in Documentation!Names /\ l \in docs.loads
    BY DEF Documentation!TypeOK, Documentation!Load, Documentation!LoadFound,
           Documentation!LoadFailed
  <1>2. PICK content \in {l.name, None}, dirs \in SUBSET Documentation!Directories :
          /\ content \in Docs \cup {None} /\ Documentation!Arrived(l, content, dirs)
          /\ content = None \/ dirs = Documentation!Parents(l.name)
    <2>1. CASE Documentation!LoadFound(l)
      <3>1. Documentation!Parents(l.name) \subseteq Documentation!Directories
        BY <1>1 DEF Documentation!Directories
      <3>2. l.name \in Docs
        BY <2>1 DEF Documentation!LoadFound
      <3> QED BY <2>1, <3>1, <3>2 DEF Documentation!LoadFound
    <2>2. CASE Documentation!LoadFailed(l)
      BY <2>2 DEF Documentation!LoadFailed
    <2> QED BY <2>1, <2>2
  <1> DEFINE d == [docs EXCEPT !.loads = docs.loads \ {l}, !.loading = FALSE,
                     !.currentDocName = l.name, !.currentDocContent = content,
                     !.expandedDirs = docs.expandedDirs \cup dirs]
  <1>3. docs.loads \ {l} \subseteq Documentation!Load
        /\ docs.expandedDirs \cup dirs \subseteq Documentation!Directories
    BY <1>1 DEF Documentation!Page
  <1>4. /\ d \in Documentation!Page
        /\ d.route = docs.route /\ d.loads = docs.loads \ {l} /\ d.loading = FALSE
        /\ d.currentDocName = l.name /\ d.currentDocContent = content
        /\ d.crossed = docs.crossed /\ d.expandedDirs = docs.expandedDirs \cup dirs
    BY <1>1, <1>2, <1>3 DEF Documentation!Page
  <1>5. Documentation!Render(d)
    BY <1>2 DEF Documentation!Arrived
  <1> HIDE DEF d
  <1>6. SameBut(d) /\ Documentation!TypeOK' /\ Documentation!DiagramsDrawn'
    BY <1>4, <1>5, RenderKeeps
  <1>7. Documentation!SpinnerMeansLoad'
    BY <1>4, <1>6 DEF SameBut, Documentation!SpinnerMeansLoad
  <1>8. RouteOnItsWay'
    <2>1. docs'.route = docs.route /\ docs'.crossed = docs.crossed
          /\ docs'.loads = docs.loads \ {l}
          /\ docs'.currentDocName = l.name /\ docs'.currentDocContent = content
      BY <1>4, <1>6 DEF SameBut
    <2>2. Documentation!Mounted /\ ~docs.crossed =>
            docs.route # Catalog /\ docs.loads = {l} /\ l.name = docs.route
      BY <1>1 DEF RouteOnItsWay
    <2> QED BY <1>2, <2>1, <2>2 DEF RouteOnItsWay, Documentation!Mounted
  <1>9. library' = library
    BY DEF Documentation!LoadFound, Documentation!LoadFailed
  <1> QED BY <1>2, <1>4, <1>6, <1>7, <1>8, <1>9 DEF SameBut

\* A step that renders the page with the same route, loads and document.
LEMMA QuietRendering ==
    ASSUME DocsInv, NEW d \in Documentation!Page, Documentation!Render(d),
           d.route = docs.route, d.crossed = docs.crossed, d.loads = docs.loads,
           d.loading = docs.loading, d.currentDocName = docs.currentDocName,
           d.currentDocContent = docs.currentDocContent, library' = library
    PROVE  DocsInv' /\ docs'.route = docs.route /\ docs'.loads = docs.loads
  <1>1. SameBut(d) /\ Documentation!TypeOK' /\ Documentation!DiagramsDrawn'
    BY RenderKeeps
  <1>2. Documentation!SpinnerMeansLoad' /\ RouteOnItsWay'
    BY <1>1 DEF DocsInv, SameBut, Documentation!SpinnerMeansLoad, RouteOnItsWay,
                Documentation!Mounted
  <1> QED BY <1>1, <1>2 DEF DocsInv, SameBut

LEMMA SidebarKeepsInv ==
    ASSUME DocsInv,
           \/ \E tree \in {library, {}} : Documentation!ListArrived(tree)
           \/ \E dir \in Documentation!Directories : Documentation!ToggleDir(dir)
           \/ Documentation!ToggleSidebar
           \/ \E on \in BOOLEAN : Documentation!Search(on)
           \/ Documentation!Resize
    PROVE  DocsInv' /\ docs'.route = docs.route /\ docs'.loads = docs.loads
  <1>0. docs \in Documentation!Page
    BY DEF DocsInv, Documentation!TypeOK
  <1>1. ASSUME NEW tree \in {library, {}}, Documentation!ListArrived(tree)
        PROVE  DocsInv' /\ docs'.route = docs.route /\ docs'.loads = docs.loads
    <2> DEFINE d == [docs EXCEPT !.lists = docs.lists - 1, !.docTree = tree]
    <2>1. docs.lists - 1 \in 0..MaxLists /\ tree \subseteq Docs
      BY <1>0, <1>1, DocsAssumption
         DEF Documentation!ListArrived, Documentation!Page, DocsInv
    <2>2. /\ d \in Documentation!Page
          /\ d.route = docs.route /\ d.crossed = docs.crossed /\ d.loads = docs.loads
          /\ d.loading = docs.loading /\ d.currentDocName = docs.currentDocName
          /\ d.currentDocContent = docs.currentDocContent
      BY <1>0, <2>1 DEF Documentation!Page
    <2>3. Documentation!Render(d) /\ library' = library
      BY <1>1 DEF Documentation!ListArrived
    <2> HIDE DEF d
    <2> QED BY <2>2, <2>3, QuietRendering
  <1>2. ASSUME NEW dir \in Documentation!Directories, Documentation!ToggleDir(dir)
        PROVE  DocsInv' /\ docs'.route = docs.route /\ docs'.loads = docs.loads
    <2> DEFINE dirs == IF dir \in docs.expandedDirs THEN docs.expandedDirs \ {dir}
                                                    ELSE docs.expandedDirs \cup {dir}
               d == [docs EXCEPT !.expandedDirs = dirs]
    <2>1. dirs \subseteq Documentation!Directories
      BY <1>0 DEF Documentation!Page
    <2>2. Documentation!Render(d) /\ library' = library
      BY <1>2 DEF Documentation!ToggleDir
    <2> HIDE DEF dirs
    <2>3. /\ d \in Documentation!Page
          /\ d.route = docs.route /\ d.crossed = docs.crossed /\ d.loads = docs.loads
          /\ d.loading = docs.loading /\ d.currentDocName = docs.currentDocName
          /\ d.currentDocContent = docs.currentDocContent
      BY <1>0, <2>1 DEF Documentation!Page
    <2> HIDE DEF d
    <2> QED BY <2>2, <2>3, QuietRendering
  <1>3. CASE Documentation!ToggleSidebar
    <2> DEFINE d == [docs EXCEPT !.sidebarCollapsed = ~docs.sidebarCollapsed]
    <2>1. /\ d \in Documentation!Page
          /\ d.route = docs.route /\ d.crossed = docs.crossed /\ d.loads = docs.loads
          /\ d.loading = docs.loading /\ d.currentDocName = docs.currentDocName
          /\ d.currentDocContent = docs.currentDocContent
      BY <1>0 DEF Documentation!Page
    <2>2. Documentation!Render(d) /\ library' = library
      BY <1>3 DEF Documentation!ToggleSidebar
    <2> HIDE DEF d
    <2> QED BY <2>1, <2>2, QuietRendering
  <1>4. ASSUME NEW on \in BOOLEAN, Documentation!Search(on)
        PROVE  DocsInv' /\ docs'.route = docs.route /\ docs'.loads = docs.loads
    <2> DEFINE d == [docs EXCEPT !.searching = on]
    <2>1. /\ d \in Documentation!Page
          /\ d.route = docs.route /\ d.crossed = docs.crossed /\ d.loads = docs.loads
          /\ d.loading = docs.loading /\ d.currentDocName = docs.currentDocName
          /\ d.currentDocContent = docs.currentDocContent
      BY <1>0 DEF Documentation!Page
    <2>2. Documentation!Render(d) /\ library' = library
      BY <1>4 DEF Documentation!Search
    <2> HIDE DEF d
    <2> QED BY <2>1, <2>2, QuietRendering
  <1>5. CASE Documentation!Resize
    BY <1>0, <1>5, QuietRendering DEF Documentation!Resize
  <1> QED BY <1>1, <1>2, <1>3, <1>4, <1>5

\* The page left or loaded anew, and the timer of the diagrams.
LEMMA LeavingKeepsInv ==
    ASSUME DocsInv,
           Documentation!Unmount \/ Documentation!Restart \/ Documentation!DrawDiagrams
    PROVE  DocsInv' /\ (docs'.loads = docs.loads \/ docs'.currentDocContent = None)
  <1> USE DEF DocsInv
  <1>0. docs \in Documentation!Page /\ 0 \in 0..MaxTimers /\ 0 \in 0..MaxLists
    BY DocsAssumption DEF Documentation!TypeOK
  <1>1. CASE Documentation!Unmount
    <2>1. /\ docs' \in Documentation!Page /\ docs'.rerendered
          /\ docs'.route = Away /\ docs'.loading = docs.loading /\ docs'.loads = docs.loads
          /\ library' = library
      BY <1>0, <1>1 DEF Documentation!Unmount, Documentation!Rendered, Documentation!Page
    <2> QED BY <2>1 DEF Documentation!TypeOK, Documentation!SpinnerMeansLoad, RouteOnItsWay,
                        Documentation!Mounted, Documentation!DiagramsDrawn
  <1>2. CASE Documentation!Restart
    <2>1. docs' = [route |-> Away, docTree |-> {}, currentDocName |-> None,
                   currentDocContent |-> None, loading |-> FALSE, loads |-> {}, lists |-> 0,
                   expandedDirs |-> {}, searching |-> FALSE,
                   sidebarCollapsed |-> docs.sidebarCollapsed,
                   diagram |-> "none", timers |-> 0, crossed |-> FALSE, rerendered |-> FALSE]
          /\ library' = library
      BY <1>2 DEF Documentation!Restart, Documentation!Fresh
    <2>2. docs' \in Documentation!Page
      BY <1>0, <2>1 DEF Documentation!Page
    <2>3. docs'.route = Away /\ docs'.loading = FALSE /\ docs'.diagram = "none"
      BY <2>1
    <2> QED BY <2>1, <2>2, <2>3 DEF Documentation!TypeOK, Documentation!SpinnerMeansLoad,
               RouteOnItsWay, Documentation!Mounted, Documentation!DiagramsDrawn
  <1>3. CASE Documentation!DrawDiagrams
    <2>1. docs.timers - 1 \in 0..MaxTimers
      BY <1>0, <1>3, DocsAssumption DEF Documentation!DrawDiagrams, Documentation!Page
    <2>2. /\ docs' = [docs EXCEPT !.timers = docs.timers - 1,
                       !.diagram = IF docs.diagram = "source" THEN "drawn" ELSE docs.diagram]
          /\ library' = library
      BY <1>3 DEF Documentation!DrawDiagrams
    <2>3. docs' \in Documentation!Page /\ docs'.diagram # "source"
      BY <1>0, <2>1, <2>2 DEF Documentation!Page
    <2>4. /\ docs'.route = docs.route /\ docs'.crossed = docs.crossed
          /\ docs'.loads = docs.loads /\ docs'.loading = docs.loading
          /\ docs'.currentDocName = docs.currentDocName
          /\ docs'.currentDocContent = docs.currentDocContent
      BY <1>0, <2>2 DEF Documentation!Page
    <2> QED BY <2>2, <2>3, <2>4 DEF Documentation!TypeOK, Documentation!SpinnerMeansLoad,
               RouteOnItsWay, Documentation!Mounted, Documentation!DiagramsDrawn
  <1> QED BY <1>1, <1>2, <1>3

\* While the page rests, documents may be uploaded.
LEMMA DocsInvStep ==
    ASSUME DocsInv, [Documentation!Next]_docs, library' \subseteq Docs
    PROVE  DocsInv'
  <1>1. ASSUME NEW l \in Documentation!Load, Documentation!LoadFound(l)
        PROVE  DocsInv'
    BY <1>1, LoadKeepsInv
  <1>2. ASSUME NEW l \in Documentation!Load, Documentation!LoadFailed(l)
        PROVE  DocsInv'
    BY <1>2, LoadKeepsInv
  <1>3. CASE UNCHANGED docs
    BY <1>3 DEF DocsInv, Documentation!TypeOK, Documentation!SpinnerMeansLoad,
                RouteOnItsWay, Documentation!Mounted, Documentation!DiagramsDrawn
  <1> QED BY <1>1, <1>2, <1>3, RouteKeepsInv, SidebarKeepsInv, LeavingKeepsInv
          DEF Documentation!Next, Documentation!Gesture, Documentation!Arrival

-----------------------------------------------------------------------------
(* Routes.                                                                 *)

LEMMA SingletonSeq ==
    ASSUME NEW S, NEW x \in S
    PROVE  <<x>> \in Seq(S)
  OBVIOUS

LEMMA PrefixedSeq ==
    ASSUME NEW S, NEW x \in S, NEW seq \in Seq(S)
    PROVE  <<x>> \o seq \in Seq(S)
  OBVIOUS

LEMMA MoreThanOne ==
    ASSUME NEW n \in Nat, n # 0, n # 1
    PROVE  n > 1
  OBVIOUS

\* The catalog's path.
LEMMA CatalogPath == <<"docs">> \in Paths /\ Matches(<<"docs">>)
  <1>1. <<"docs">> \in Seq(STRING)
    <2>1. "docs" \in STRING
      BY AddressAssumption DEF Pages
    <2> QED BY <2>1, SingletonSeq
  <1>2. Len(<<"docs">>) = 1 /\ <<"docs">>[1] = "docs" /\ <<"docs">> # <<>>
    OBVIOUS
  <1>3. ~(Len(<<"docs">>) > 1)
    BY <1>2
  <1>4. Matches(<<"docs">>)
    BY <1>2, <1>3 DEF Matches, Pages
  <1>5. <<"docs">> \in Paths
    BY <1>1, <1>3 DEF Paths
  <1> QED BY <1>4, <1>5

\* Whatever path is resolved, a page is found, and a document it knows.
LEMMA ResolveFinds ==
    ASSUME NEW p \in Paths
    PROVE  Resolve(p) \in Paths /\ Matches(Resolve(p))
  BY CatalogPath DEF Resolve

LEMMA RouteKnown ==
    ASSUME NEW p \in Paths, Matches(p)
    PROVE  /\ PageOf(p) \in Pages
           /\ NameOf(p) \in Documentation!Names \cup {Catalog}
  <1>1. PageOf(p) \in Pages
    BY DEF Matches, PageOf
  <1>2. CASE Len(p) = 1
    BY <1>1, <1>2 DEF NameOf
  <1>3. CASE Len(p) # 1
    <2>0. p \in Seq(STRING) /\ p # <<>>
      BY DEF Paths, Matches
    <2>1. Len(p) \in Nat /\ Len(p) # 0
      BY <2>0
    <2>2. Len(p) > 1
      BY <1>3, <2>1, MoreThanOne
    <2> QED BY <1>1, <1>3, <2>2 DEF Paths, NameOf
  <1> QED BY <1>2, <1>3

\* The sidebar and the cards lead to documents, to the catalog, or to a
\* directory's card, whose name the page may be asked for.
LEMMA ClickableKnown ==
    ASSUME DocsInv, NEW name \in Documentation!Clickable
    PROVE  LET to == IF name = Catalog THEN <<"docs">> ELSE <<"docs">> \o name IN
           to \in Paths /\ Matches(to)
  <1>1. name \in Documentation!Names \cup {Catalog}
    <2>1. docs.docTree \subseteq Docs
      BY DEF DocsInv, Documentation!TypeOK, Documentation!Page
    <2>2. Documentation!Sidebar \subseteq Docs
      BY <2>1 DEF Documentation!Sidebar, Documentation!Listed, Documentation!FilteredTree
    <2>3. Documentation!SubdirectoryCards \subseteq Documentation!Names
      BY <2>1, AddressAssumption DEF Documentation!SubdirectoryCards
    <2>4. Documentation!CatalogCards \subseteq Documentation!Names
      BY <2>1, <2>3 DEF Documentation!CatalogCards, Documentation!Listed, Documentation!Names
    <2> QED BY <2>2, <2>4 DEF Documentation!Clickable, Documentation!Names
  <1>2. CASE name = Catalog
    BY <1>2, CatalogPath
  <1>3. CASE name # Catalog
    <2>1. name \in Seq(STRING) /\ name # <<>> /\ name \in Documentation!Names
      BY <1>1, <1>3, DocsAssumption DEF Documentation!Names
    <2> DEFINE to == <<"docs">> \o name
    <2>2. to \in Seq(STRING)
      <3>1. "docs" \in STRING
        BY AddressAssumption DEF Pages
      <3> QED BY <2>1, <3>1, PrefixedSeq
    <2>3. Len(to) = 1 + Len(name) /\ Len(name) \in Nat
      BY <2>1
    <2>4. to # <<>> /\ to[1] = "docs"
      BY <2>1, <2>3
    <2>5. Tail(to) = name
      BY <2>1
    <2> QED BY <1>3, <2>1, <2>2, <2>4, <2>5 DEF Paths, Matches, Pages
  <1> QED BY <1>2, <1>3

-----------------------------------------------------------------------------
(* The address bar.                                                        *)

\* One page, that of a path, is mounted, and none other.
MountedAs(page, path) ==
    /\ convert.mounted <=> page = "convert"
    /\ check.mounted <=> page = "check"
    /\ documents.mounted <=> page = "documents"
    /\ admin.mounted <=> page = "admin"
    /\ docs.route = IF page = "docs" THEN NameOf(path) ELSE Away

LocationTypeOK ==
    /\ location \in [path : Paths, hash : Paths \cup {NoHash},
                     routed : Paths \cup {NoHash}, wanted : Paths,
                     section : BOOLEAN, misled : BOOLEAN]
    /\ shown \in Pages \cup {"none"}

\* A hash that is no section has yet to be obeyed, when the program starts.
LegacyObeyed ==
    ~location.section /\ location.hash # NoHash =>
        /\ shown = "none"
        /\ Matches(location.hash)
        /\ location.hash # Resolve(location.path)

AddressInv ==
    /\ LocationTypeOK
    /\ LegacyObeyed
    /\ NavigationLands
    /\ shown # "none" => Matches(location.path) /\ shown = PageOf(location.path)
    /\ MountedAs(shown, location.path)

\* The page of a path takes the place of the one shown.
LEMMA ShowMounts ==
    ASSUME ConvertInv, DocsInv, AddressInv, NEW p \in Paths, Matches(p), Show(p)
    PROVE  /\ shown' = PageOf(p)
           /\ MountedAs(PageOf(p), p)'
           /\ [Documentation!Next]_docs
           /\ library' = library
  <1>0. /\ shown' = PageOf(p) /\ PageOf(p) \in Pages
        /\ NameOf(p) \in Documentation!Names \cup {Catalog}
    BY RouteKnown DEF Show
  <1>1. CASE PageOf(p) = shown
    <2>1. Keep(PageOf(p), NameOf(p))
      BY <1>1 DEF Show
    <2>2. CASE PageOf(p) = "docs" /\ NameOf(p) # docs.route
      <3>1. Documentation!Open(NameOf(p))
        BY <2>1, <2>2 DEF Keep
      <3>2. docs'.route = NameOf(p) /\ library' = library
        BY <1>0, <3>1, RouteKeepsInv DEF Documentation!Open
      <3> QED BY <1>0, <1>1, <2>1, <2>2, <3>1, <3>2
              DEF Keep, AddressInv, MountedAs, Documentation!Next
    <2>3. CASE ~(PageOf(p) = "docs" /\ NameOf(p) # docs.route)
      BY <1>0, <1>1, <2>1, <2>3 DEF Keep, AddressInv, MountedAs
    <2> QED BY <2>2, <2>3
  <1>2. CASE PageOf(p) # shown
    <2>1. Replace(PageOf(p), NameOf(p))
      BY <1>2 DEF Show
    <2>2. convert'.mounted <=> PageOf(p) = "convert"
      BY <2>1 DEF Replace, Convert!Mount, Convert!Unmount, ConvertInv, Convert!TypeOK
    <2>3. check'.mounted <=> PageOf(p) = "check"
      BY <2>1 DEF Replace, Check!Mount, Check!Unmount, Check!Fresh
    <2>4. documents'.mounted <=> PageOf(p) = "documents"
      BY <2>1 DEF Replace, Manager!Mount, Manager!Unmount, Manager!Fresh
    <2>5. admin'.mounted <=> PageOf(p) = "admin"
      <3>1. ASSUME Admin!Mount PROVE admin'.mounted = TRUE
        <4>1. admin' = [mounted |-> TRUE, rows |-> {}, showForm |-> FALSE,
                        complete |-> FALSE, saving |-> FALSE, saves |-> {}, lists |-> 1,
                        deletes |-> 0]
          BY <3>1 DEF Admin!Mount, Admin!Fresh
        <4> QED BY <4>1
      <3>2. ASSUME Admin!Unmount PROVE admin'.mounted = FALSE
        BY <3>2 DEF Admin!Unmount, Admin!Fresh
      <3> QED BY <2>1, <3>1, <3>2 DEF Replace
    <2>6. /\ docs'.route = IF PageOf(p) = "docs" THEN NameOf(p) ELSE Away
          /\ [Documentation!Next]_docs
          /\ library' = library
      <3>1. CASE PageOf(p) = "docs"
        <4>1. Documentation!Mount(NameOf(p))
          BY <2>1, <3>1 DEF Replace
        <4> QED BY <1>0, <3>1, <4>1, RouteKeepsInv
                DEF Documentation!Mount, Documentation!Next
      <3>2. CASE PageOf(p) # "docs"
        <4>1. Documentation!Unmount
          BY <2>1, <3>2 DEF Replace
        <4> QED BY <3>2, <4>1 DEF Documentation!Unmount, Documentation!Rendered,
                   Documentation!Next, DocsInv, Documentation!TypeOK, Documentation!Page
      <3> QED BY <3>1, <3>2
    <2> QED BY <1>0, <2>2, <2>3, <2>4, <2>5, <2>6 DEF MountedAs
  <1> QED BY <1>1, <1>2

\* A navigation: it passes the guard, is diverted by it, or is lost to the
\* browser's own.
LEMMA PushLands ==
    ASSUME ConvertInv, DocsInv, AddressInv, NEW to \in Paths, Matches(to),
           NEW hash \in Paths \cup {NoHash}, Push(to, hash)
    PROVE  AddressInv' /\ [Documentation!Next]_docs /\ library' = library
  <1>0. shown # "none" /\ LocationTypeOK
    BY DEF Push, AddressInv
  <1>1. CASE Proceed(to, hash)
    <2>1. Show(to) /\ location' = [path |-> to, hash |-> hash, routed |-> hash, wanted |-> to,
                                   section |-> (hash # NoHash), misled |-> FALSE]
      BY <1>1 DEF Proceed
    <2>2. /\ shown' = PageOf(to) /\ MountedAs(PageOf(to), to)'
          /\ [Documentation!Next]_docs /\ library' = library
      BY <2>1, ShowMounts
    <2>3. shown' \in Pages
      BY <2>2, RouteKnown
    <2>4. LocationTypeOK'
      BY <2>1, <2>3 DEF LocationTypeOK
    <2>5. LegacyObeyed' /\ NavigationLands'
      BY <2>1 DEF LegacyObeyed, NavigationLands
    <2>6. location'.path = to
      BY <2>1
    <2>7. MountedAs(shown, location.path)'
      BY <2>2, <2>6 DEF MountedAs
    <2> QED BY <2>2, <2>4, <2>5, <2>6, <2>7 DEF AddressInv
  <1>2. CASE Divert(to)
    <2>1. location.hash \in Paths /\ location.section
      BY <1>0, <1>2 DEF Divert, Misreads, LocationTypeOK, AddressInv, LegacyObeyed
    <2>2. PICK p \in Paths : p = Resolve(location.hash) /\ Matches(p)
      BY <2>1, ResolveFinds
    <2>3. Show(p) /\ location' = [path |-> p, hash |-> NoHash, routed |-> NoHash,
                                  wanted |-> to, section |-> FALSE,
                                  misled |-> location.section]
      BY <1>2, <2>2 DEF Divert
    <2>4. /\ shown' = PageOf(p) /\ MountedAs(PageOf(p), p)'
          /\ [Documentation!Next]_docs /\ library' = library
      BY <2>2, <2>3, ShowMounts
    <2>5. shown' \in Pages
      BY <2>2, <2>4, RouteKnown
    <2>6. LocationTypeOK'
      BY <1>0, <2>2, <2>3, <2>5 DEF LocationTypeOK
    <2>7. LegacyObeyed' /\ NavigationLands'
      BY <2>1, <2>3 DEF LegacyObeyed, NavigationLands
    <2>8. location'.path = p
      BY <2>3
    <2>9. MountedAs(shown, location.path)'
      BY <2>4, <2>8 DEF MountedAs
    <2> QED BY <2>2, <2>4, <2>6, <2>7, <2>8, <2>9 DEF AddressInv
  <1>3. CASE Return(to)
    <2>1. location.section
      BY <1>0, <1>3 DEF Return, Misreads, LocationTypeOK, AddressInv, LegacyObeyed
    <2>2. location' = [location EXCEPT !.hash = NoHash, !.routed = NoHash, !.wanted = to,
                                       !.section = FALSE, !.misled = location.section]
          /\ UNCHANGED <<convert, check, docs, documents, admin, library, shown>>
      BY <1>3 DEF Return, pageVars
    <2>3. LocationTypeOK' /\ LegacyObeyed' /\ NavigationLands' /\ location'.path = location.path
      BY <1>0, <2>1, <2>2 DEF LocationTypeOK, LegacyObeyed, NavigationLands
    <2> QED BY <2>2, <2>3 DEF AddressInv, MountedAs
  <1> QED BY <1>1, <1>2, <1>3 DEF Push

\* The program's start obeys the hash it finds.
LEMMA StartLands ==
    ASSUME ConvertInv, DocsInv, AddressInv, Start
    PROVE  AddressInv' /\ [Documentation!Next]_docs /\ library' = library
  <1>0. shown = "none" /\ LocationTypeOK /\ LegacyObeyed
    BY DEF Start, AddressInv
  <1>1. PICK to \in Paths : to = Resolve(location.path) /\ Matches(to)
    BY <1>0, ResolveFinds DEF LocationTypeOK
  <1>2. PICK p \in Paths :
          /\ p = IF Misreads(to, location.hash) THEN Resolve(location.hash) ELSE to
          /\ Matches(p)
    BY <1>0, <1>1, ResolveFinds DEF LocationTypeOK, Misreads
  <1>3. PICK wanted \in Paths :
          wanted = Legacy([path |-> location.path, hash |-> location.hash])
    <2>1. CASE location.hash # NoHash /\ Matches(location.hash)
      BY <1>0, <2>1 DEF Legacy, LocationTypeOK
    <2>2. CASE ~(location.hash # NoHash /\ Matches(location.hash))
      BY <1>1, <2>2 DEF Legacy
    <2> QED BY <2>1, <2>2
  <1>4. PICK hash \in Paths \cup {NoHash} :
          hash = IF Misreads(to, location.hash) THEN NoHash ELSE location.hash
    BY <1>0 DEF LocationTypeOK
  <1>5. /\ Show(p)
        /\ location' = [path |-> p, hash |-> hash, routed |-> hash, wanted |-> wanted,
                        section |-> (hash # NoHash),
                        misled |-> (location.section /\ ~Matches(location.hash))]
    BY <1>1, <1>2, <1>3, <1>4 DEF Start
  <1>6. /\ shown' = PageOf(p) /\ MountedAs(PageOf(p), p)'
        /\ [Documentation!Next]_docs /\ library' = library
    BY <1>2, <1>5, ShowMounts
  <1>7. shown' \in Pages
    BY <1>2, <1>6, RouteKnown
  <1>8. LocationTypeOK' /\ LegacyObeyed'
    BY <1>0, <1>5, <1>7 DEF LocationTypeOK, LegacyObeyed
  <1>9. NavigationLands'
    <2> SUFFICES ASSUME ~(location.section /\ ~Matches(location.hash))
                 PROVE  p = wanted
      BY <1>5 DEF NavigationLands
    <2>1. CASE location.hash = NoHash
      BY <1>1, <1>2, <1>3, <2>1 DEF Misreads, Legacy
    <2>2. CASE location.hash # NoHash
      <3>1. Matches(location.hash) /\ location.hash # <<>>
        BY <1>0, <2>2 DEF LegacyObeyed, LocationTypeOK, Matches
      <3>2. wanted = location.hash /\ Resolve(location.hash) = location.hash
        BY <1>3, <2>2, <3>1 DEF Legacy, Resolve
      <3> QED BY <1>2, <2>2, <3>1, <3>2 DEF Misreads
    <2> QED BY <2>1, <2>2
  <1>10. location'.path = p
    BY <1>5
  <1>11. MountedAs(shown, location.path)'
    BY <1>6, <1>10 DEF MountedAs
  <1> QED BY <1>2, <1>6, <1>8, <1>9, <1>10, <1>11 DEF AddressInv

\* The program loaded anew shows no page yet.
LEMMA LoadLands ==
    ASSUME ConvertInv, DocsInv, AddressInv, NEW url \in Url, Load(url)
    PROVE  AddressInv' /\ [Documentation!Next]_docs /\ library' = library
  <1>1. url.path \in Paths /\ url.hash \in Paths \cup {NoHash}
    BY DEF Url
  <1>2. PICK section \in BOOLEAN :
          section = (url.hash # NoHash
                       /\ ~(Matches(url.hash) /\ url.hash # Resolve(url.path)))
    OBVIOUS
  <1>3. /\ location' = [path |-> url.path, hash |-> url.hash, routed |-> url.hash,
                        wanted |-> url.path, section |-> section, misled |-> FALSE]
        /\ shown' = "none"
    BY <1>2 DEF Load, Loaded
  <1>4. LocationTypeOK' /\ NavigationLands'
    BY <1>1, <1>3 DEF LocationTypeOK, NavigationLands
  <1>5. LegacyObeyed'
    BY <1>2, <1>3 DEF LegacyObeyed
  <1>6. /\ convert'.mounted = FALSE /\ check'.mounted = FALSE
        /\ documents'.mounted = FALSE /\ admin'.mounted = FALSE
    BY DEF Load, Convert!Restart, Convert!Fresh, Check!Unmount, Check!Fresh,
           Manager!Unmount, Manager!Fresh, Admin!Unmount, Admin!Fresh
  <1>7. docs'.route = Away /\ [Documentation!Next]_docs /\ library' = library
    BY DEF Load, Documentation!Restart, Documentation!Fresh, Documentation!Next
  <1> QED BY <1>3, <1>4, <1>5, <1>6, <1>7 DEF AddressInv, MountedAs

\* What a user does on a page, and what arrives for it, leaves it mounted.
LEMMA PagesStay ==
    ASSUME ConvertInv, CheckInv, AdminInv, DocumentsInv, DocsInv
    PROVE  /\ Convert!Gesture \/ Convert!Arrival => convert'.mounted = convert.mounted
           /\ Check!Gesture \/ Check!Arrival => check'.mounted = check.mounted
           /\ Admin!Gesture \/ Admin!Arrival => admin'.mounted = admin.mounted
           /\ Manager!Gesture \/ Manager!Arrival => documents'.mounted = documents.mounted
           /\ Documentation!Gesture \/ Documentation!Arrival =>
                docs'.route = docs.route /\ library' = library
  <1>1. Convert!Gesture \/ Convert!Arrival => convert'.mounted = convert.mounted
    BY DEF ConvertInv, Convert!TypeOK, Convert!Gesture, Convert!Arrival, Convert!Type,
           Convert!LoadExample, Convert!SetOptions, Convert!ChooseFile, Convert!FileRead,
           Convert!PressConvert, Convert!ShortcutConvert, Convert!Send, Convert!Clear,
           Convert!Converted, Convert!Refused, Convert!Failed, Convert!Finished
  <1>2. Check!Gesture \/ Check!Arrival => check'.mounted = check.mounted
    BY DEF CheckInv, Check!TypeOK, Check!Gesture, Check!Arrival, Check!Type,
           Check!LoadExample, Check!ChooseFile, Check!FileRead, Check!PressCheck, Check!Sent,
           Check!Clear, Check!Reported, Check!Failed, Check!Finished
  <1>3. Admin!Gesture \/ Admin!Arrival => admin'.mounted = admin.mounted
    BY DEF AdminInv, Admin!TypeOK, Admin!Gesture, Admin!Arrival, Admin!Refresh,
           Admin!ShowNewForm, Admin!EditAnnouncement, Admin!FillForm, Admin!Cancel,
           Admin!SaveAnnouncement, Admin!Posted, Admin!SaveAccepted, Admin!SaveRejected,
           Admin!SaveListed, Admin!Listed, Admin!DeleteAnnouncement, Admin!DeleteRejected
  <1>4. Manager!Gesture \/ Manager!Arrival => documents'.mounted = documents.mounted
    BY DEF DocumentsInv, Manager!TypeOK, Manager!Gesture, Manager!Arrival,
           Manager!UploadFiles, Manager!Uploaded, Manager!UploadFailed,
           Manager!OrphanStored, Manager!ToggleSelect, Manager!SelectAll,
           Manager!DeleteSelected, Manager!OpenDoc, Manager!ClosePreview,
           Manager!SetCategory, Manager!Search
  <1>5. ASSUME Documentation!Gesture \/ Documentation!Arrival
        PROVE  docs'.route = docs.route /\ library' = library
    <2>1. ASSUME NEW l \in Documentation!Load,
                 Documentation!LoadFound(l) \/ Documentation!LoadFailed(l)
          PROVE  docs'.route = docs.route /\ library' = library
      BY <2>1, LoadKeepsInv DEF Documentation!LoadFound, Documentation!LoadFailed
    <2>2. CASE Documentation!DrawDiagrams
      BY <2>2 DEF Documentation!DrawDiagrams, DocsInv, Documentation!TypeOK,
                  Documentation!Page
    <2>3. CASE \/ \E tree \in {library, {}} : Documentation!ListArrived(tree)
               \/ \E dir \in Documentation!Directories : Documentation!ToggleDir(dir)
               \/ Documentation!ToggleSidebar
               \/ \E on \in BOOLEAN : Documentation!Search(on)
               \/ Documentation!Resize
      BY <2>3, SidebarKeepsInv
         DEF Documentation!ListArrived, Documentation!ToggleDir,
             Documentation!ToggleSidebar, Documentation!Search, Documentation!Resize
    <2> QED BY <1>5, <2>1, <2>2, <2>3 DEF Documentation!Gesture, Documentation!Arrival
  <1> QED BY <1>1, <1>2, <1>3, <1>4, <1>5

\* A step that leaves the address and the pages where they are.
LEMMA AddressStays ==
    ASSUME AddressInv, UNCHANGED <<location, shown>>,
           convert'.mounted = convert.mounted, check'.mounted = check.mounted,
           admin'.mounted = admin.mounted, documents'.mounted = documents.mounted,
           docs'.route = docs.route
    PROVE  AddressInv'
  BY DEF AddressInv, MountedAs, LocationTypeOK, LegacyObeyed, NavigationLands

PagesInv == ConvertInv /\ CheckInv /\ AdminInv /\ DocumentsInv /\ DocsInv

LEMMA AddressStep ==
    ASSUME PagesInv, AddressInv, [Next]_vars
    PROVE  AddressInv' /\ [Documentation!Next]_docs
  <1> USE DEF PagesInv, Elsewhere, pageVars
  <1>0. <<"docs">> \in Paths /\ Matches(<<"docs">>) /\ NoHash \in Paths \cup {NoHash}
    BY CatalogPath
  <1>1. CASE Start
    BY <1>1, StartLands
  <1>2. CASE ClickTab
    <2>1. ASSUME NEW page \in {"convert", "check", "docs"}
          PROVE  <<page>> \in Paths /\ Matches(<<page>>)
      <3>1. page \in STRING /\ page \in Pages
        BY AddressAssumption DEF Pages
      <3>2. <<page>> \in Seq(STRING) /\ Len(<<page>>) = 1 /\ <<page>>[1] = page
            /\ <<page>> # <<>>
        BY <3>1, SingletonSeq
      <3>3. ~(Len(<<page>>) > 1)
        BY <3>2
      <3> QED BY <3>1, <3>2, <3>3 DEF Paths, Matches
    <2> QED BY <1>0, <1>2, <2>1, PushLands DEF ClickTab
  <1>3. CASE SelectDoc
    BY <1>0, <1>3, ClickableKnown, PushLands DEF SelectDoc
  <1>4. CASE ClickDocLink
    <2>1. PICK link \in Links : Push(link.path, link.hash)
      BY <1>4 DEF ClickDocLink
    <2>2. link.path \in Paths /\ Matches(link.path) /\ link.hash \in Paths \cup {NoHash}
      BY AddressAssumption DEF Url
    <2> QED BY <2>1, <2>2, PushLands
  <1>5. CASE ClickSection
    <2>1. PICK id \in Sections : location' = [location EXCEPT !.hash = id, !.section = TRUE]
      BY <1>5 DEF ClickSection
    <2>2. id \in Paths
      BY AddressAssumption
    <2>3. UNCHANGED <<convert, check, docs, documents, admin, shown>>
      BY <1>5 DEF ClickSection
    <2>4. LocationTypeOK'
      BY <2>1, <2>2, <2>3 DEF AddressInv, LocationTypeOK
    <2>5. location'.path = location.path /\ location'.wanted = location.wanted
          /\ location'.misled = location.misled /\ location'.section = TRUE
      BY <2>1 DEF AddressInv, LocationTypeOK
    <2> QED BY <2>3, <2>4, <2>5 DEF AddressInv, LegacyObeyed, NavigationLands, MountedAs
  <1>6. CASE Reload \/ Unauthorized
    <2>1. [path |-> location.path, hash |-> location.hash] \in Url
      BY DEF AddressInv, LocationTypeOK, Url
    <2>2. CASE Reload
      BY <2>1, <2>2, LoadLands, AddressAssumption DEF Reload
    <2>3. CASE Unauthorized
      <3>1. "login" \in STRING /\ "login" \in Pages
        BY AddressAssumption DEF Pages
      <3>2. <<"login">> \in Seq(STRING) /\ Len(<<"login">>) = 1
        BY <3>1, SingletonSeq
      <3>3. ~(Len(<<"login">>) > 1)
        BY <3>2
      <3>4. [path |-> <<"login">>, hash |-> NoHash] \in Url
        BY <3>2, <3>3 DEF Paths, Url
      <3> QED BY <2>3, <3>4, LoadLands DEF Unauthorized
    <2> QED BY <1>6, <2>2, <2>3
  <1>7. CASE ToggleTheme \/ UseLogin \/ LoginFailed
    BY <1>7, AddressStays DEF ToggleTheme, UseLogin, LoginFailed
  <1>8. CASE UseConvert \/ ConvertArrival
    BY <1>8, PagesStay, AddressStays DEF UseConvert, ConvertArrival
  <1>9. CASE UseCheck \/ CheckArrival
    BY <1>9, PagesStay, AddressStays DEF UseCheck, CheckArrival
  <1>10. CASE UseAdmin \/ AdminArrival
    BY <1>10, PagesStay, AddressStays DEF UseAdmin, AdminArrival
  <1>11. CASE UseManager \/ ManagerArrival
    BY <1>11, PagesStay, AddressStays DEF UseManager, ManagerArrival
  <1>12. CASE UseDocs \/ DocsArrival
    BY <1>12, PagesStay, AddressStays DEF UseDocs, DocsArrival, Documentation!Next
  <1>13. CASE LoginAccepted
    BY <1>0, <1>13, PushLands, AddressStays DEF LoginAccepted
  <1>14. CASE UNCHANGED vars
    BY <1>14, AddressStays DEF vars
  <1> QED BY <1>1, <1>2, <1>3, <1>4, <1>5, <1>6, <1>7, <1>8, <1>9, <1>10, <1>11, <1>12,
             <1>13, <1>14 DEF Next

-----------------------------------------------------------------------------
(* The whole program.                                                      *)

\* A login that is out leaves room for itself among those of forms left.
ShellInv ==
    /\ Shell!TypeOK
    /\ shell.signing => shell.strays < MaxLogins

LEMMA LeftFits ==
    ASSUME ShellInv
    PROVE  Shell!Left(shell) \in [theme : Shell!Themes, saved : Shell!Themes \cup {NoTheme},
                                  token : BOOLEAN, filled : BOOLEAN, signing : {FALSE},
                                  failed : BOOLEAN, strays : 0..MaxLogins]
  <1>1. shell.signing => shell.strays + 1 \in 0..MaxLogins
    BY ShellAssumption DEF ShellInv, Shell!TypeOK
  <1> QED BY <1>1 DEF ShellInv, Shell!TypeOK, Shell!Left

LEMMA ShellInvStep ==
    ASSUME ShellInv, [Shell!Next]_shell
    PROVE  ShellInv'
  <1> USE ShellAssumption DEF ShellInv, Shell!TypeOK
  <1>1. CASE Shell!Restart \/ Shell!SignOut
    <2>1. PICK token \in BOOLEAN :
            shell' = [theme |-> Shell!InitTheme(shell.saved), saved |-> shell.saved,
                      token |-> token, filled |-> FALSE, signing |-> FALSE,
                      failed |-> FALSE, strays |-> 0]
      BY <1>1 DEF Shell!Restart, Shell!SignOut, Shell!Started
    <2>2. Shell!InitTheme(shell.saved) \in Shell!Themes
      BY DEF Shell!InitTheme, Shell!Themes
    <2>3. 0 \in 0..MaxLogins
      OBVIOUS
    <2> QED BY <2>1, <2>2, <2>3
  <1>2. CASE Shell!ToggleTheme
    BY <1>2 DEF Shell!ToggleTheme, Shell!OtherTheme, Shell!Themes
  <1>3. CASE Shell!LeaveLogin
    BY <1>3, LeftFits DEF Shell!LeaveLogin
  <1>4. ASSUME NEW done \in BOOLEAN, Shell!FillIn(done)
        PROVE  ShellInv'
    BY <1>4 DEF Shell!FillIn
  <1>5. CASE Shell!DoLogin
    BY <1>5 DEF Shell!DoLogin
  <1>6. ASSUME NEW away \in BOOLEAN, Shell!LoginAccepted(away)
        PROVE  ShellInv'
    <2>1. PICK s \in Shell!Answered :
            LET signedIn == [s EXCEPT !.token = TRUE] IN
            shell' = IF away THEN Shell!Left(signedIn) ELSE signedIn
      BY <1>6 DEF Shell!LoginAccepted
    <2>2. /\ s \in [theme : Shell!Themes, saved : Shell!Themes \cup {NoTheme},
                    token : BOOLEAN, filled : BOOLEAN, signing : BOOLEAN,
                    failed : BOOLEAN, strays : 0..MaxLogins]
          /\ s.signing => s.strays < MaxLogins
      <3>1. CASE shell.signing /\ s = [shell EXCEPT !.signing = FALSE]
        BY <3>1
      <3>2. CASE shell.strays > 0 /\ s = [shell EXCEPT !.strays = shell.strays - 1]
        <4>1. shell.strays - 1 \in 0..MaxLogins /\ shell.strays - 1 < MaxLogins
          BY <3>2
        <4> QED BY <3>2, <4>1
      <3> QED BY <2>1, <3>1, <3>2 DEF Shell!Answered
    <2>3. s.signing => s.strays + 1 \in 0..MaxLogins
      BY <2>2
    <2>4. CASE away
      BY <2>1, <2>2, <2>3, <2>4 DEF Shell!Left
    <2>5. CASE ~away
      BY <2>1, <2>2, <2>5
    <2> QED BY <2>4, <2>5
  <1>7. CASE Shell!LoginFailed
    <2>1. CASE shell.signing /\ shell' = [shell EXCEPT !.signing = FALSE, !.failed = TRUE]
      BY <2>1
    <2>2. CASE shell.strays > 0 /\ shell' = [shell EXCEPT !.strays = shell.strays - 1]
      <3>1. shell.strays - 1 \in 0..MaxLogins /\ shell.strays - 1 < MaxLogins
        BY <2>2
      <3> QED BY <2>2, <3>1
    <2> QED BY <1>7, <2>1, <2>2 DEF Shell!LoginFailed
  <1>8. CASE UNCHANGED shell
    BY <1>8
  <1> HIDE DEF ShellInv
  <1> QED BY <1>1, <1>2, <1>3, <1>4, <1>5, <1>6, <1>7, <1>8 DEF Shell!Next

LEMMA ShellSteps ==
    ASSUME [Next]_vars
    PROVE  [Shell!Next]_shell /\ (gestures \in 0..MaxGestures => gestures' \in 0..MaxGestures)
  <1>1. Gesture => (gestures \in 0..MaxGestures => gestures' \in 0..MaxGestures)
    BY AddressAssumption DEF Gesture
  <1>2. UNCHANGED gestures => (gestures \in 0..MaxGestures => gestures' \in 0..MaxGestures)
    OBVIOUS
  <1>3. CASE Start \/ UNCHANGED vars
    BY <1>2, <1>3 DEF Start, vars
  <1>4. CASE SelectDoc \/ ClickDocLink \/ ClickSection
    BY <1>1, <1>4 DEF SelectDoc, ClickDocLink, ClickSection
  <1>5. CASE UseConvert \/ UseCheck \/ UseDocs \/ UseManager \/ UseAdmin
    BY <1>1, <1>5 DEF UseConvert, UseCheck, UseDocs, UseManager, UseAdmin
  <1>6. CASE ConvertArrival \/ CheckArrival \/ DocsArrival \/ ManagerArrival \/ AdminArrival
    <2>1. UNCHANGED Elsewhere
      BY <1>6 DEF ConvertArrival, CheckArrival, DocsArrival, ManagerArrival, AdminArrival,
                  Elsewhere
    <2> QED BY <1>2, <2>1 DEF Elsewhere
  <1>7. CASE ClickTab
    BY <1>1, <1>7 DEF ClickTab, Left, Shell!Next
  <1>8. CASE Reload \/ ToggleTheme
    BY <1>1, <1>8 DEF Reload, ToggleTheme, Shell!Next
  <1>9. CASE UseLogin
    BY <1>1, <1>9 DEF UseLogin, Shell!Next
  <1>10. CASE LoginAccepted
    <2>1. (shown = "login" /\ shown' # "login") \in BOOLEAN
      OBVIOUS
    <2>2. Shell!LoginAccepted(shown = "login" /\ shown' # "login")
      BY <1>10 DEF LoginAccepted
    <2>3. \E away \in BOOLEAN : Shell!LoginAccepted(away)
      BY <2>1, <2>2, Zenon
    <2>4. UNCHANGED gestures
      BY <1>10 DEF LoginAccepted
    <2> QED BY <1>2, <2>3, <2>4 DEF Shell!Next
  <1>11. CASE LoginFailed \/ Unauthorized
    BY <1>2, <1>11 DEF LoginFailed, Unauthorized, Shell!Next
  <1> QED BY <1>3, <1>4, <1>5, <1>6, <1>7, <1>8, <1>9, <1>10, <1>11 DEF Next

\* Only uploads change the documents, by Markdown files.
LEMMA LibraryGrows ==
    ASSUME DocsInv, [Manager!Next]_<<documents, library>>
    PROVE  library' \subseteq Docs
  <1> USE AddressAssumption DEF DocsInv, Manager!Upload
  <1>1. ASSUME NEW u \in Manager!Upload, NEW stored \in SUBSET u.files,
               Manager!Uploaded(u, stored)
        PROVE  library' \subseteq Docs
    BY <1>1 DEF Manager!Uploaded
  <1>2. ASSUME NEW files \in SUBSET Markdown, NEW stored \in SUBSET files,
               Manager!OrphanStored(files, stored)
        PROVE  library' \subseteq Docs
    BY <1>2 DEF Manager!OrphanStored
  <1>3. CASE Manager!Mount \/ Manager!Unmount \/ Manager!Gesture
             \/ \E u \in Manager!Upload : Manager!UploadFailed(u)
    BY <1>3 DEF Manager!Mount, Manager!Unmount, Manager!Gesture, Manager!UploadFiles,
                Manager!UploadFailed, Manager!ToggleSelect, Manager!SelectAll,
                Manager!DeleteSelected, Manager!OpenDoc, Manager!ClosePreview,
                Manager!SetCategory, Manager!Search
  <1> QED BY <1>1, <1>2, <1>3 DEF Manager!Next, Manager!Arrival

WebInv == PagesInv /\ AddressInv /\ ShellInv /\ gestures \in 0..MaxGestures

LEMMA WebInvInit ==
    ASSUME Init
    PROVE  WebInv
  <1>1. ConvertInv
    BY ConvertInvInit DEF Init
  <1>2. CheckInv
    BY CheckInvInit DEF Init, Check!Init
  <1>3. AdminInv
    <2>1. 0 \in 0..MaxLists /\ 0 \in 0..MaxDeletes
      BY AdminAssumption, DocsAssumption
    <2> QED BY <2>1 DEF Init, Admin!Init, Admin!Fresh, AdminInv, Admin!TypeOK
  <1>4. DocumentsInv
    <2>1. documents = [mounted |-> FALSE, list |-> {}, selected |-> {},
                       preview |-> Nothing, category |-> "All", searching |-> FALSE,
                       uploading |-> FALSE, uploads |-> {}, orphans |-> {},
                       sent |-> 0, crossed |-> FALSE, skipped |-> {}]
      BY DEF Init, Manager!Init, Manager!Fresh
    <2> QED BY <2>1, DocumentsInvFresh
  <1>5. DocsInv
    <2>1. docs = [route |-> Away, docTree |-> {}, currentDocName |-> None,
                  currentDocContent |-> None, loading |-> FALSE, loads |-> {}, lists |-> 0,
                  expandedDirs |-> {}, searching |-> FALSE, sidebarCollapsed |-> FALSE,
                  diagram |-> "none", timers |-> 0, crossed |-> FALSE,
                  rerendered |-> FALSE]
      BY DEF Init, Documentation!Init, Documentation!Fresh
    <2>2. 0 \in 0..MaxLists /\ 0 \in 0..MaxTimers
      BY DocsAssumption
    <2>3. Documentation!TypeOK
      BY <2>1, <2>2 DEF Documentation!TypeOK, Documentation!Page
    <2>4. docs.route = Away /\ docs.loading = FALSE /\ docs.diagram = "none"
      BY <2>1
    <2>5. library \subseteq Docs
      BY DEF Init
    <2> QED BY <2>3, <2>4, <2>5 DEF DocsInv, Documentation!SpinnerMeansLoad,
               Documentation!DiagramsDrawn, RouteOnItsWay, Documentation!Mounted
  <1>6. AddressInv
    <2>1. PICK url \in Urls : location = Loaded(url)
      BY DEF Init
    <2>2. url.path \in Paths /\ url.hash \in Paths \cup {NoHash} /\ shown = "none"
      BY AddressAssumption DEF Url, Init
    <2>3. PICK section \in BOOLEAN :
            section = (url.hash # NoHash
                         /\ ~(Matches(url.hash) /\ url.hash # Resolve(url.path)))
      OBVIOUS
    <2>4. location = [path |-> url.path, hash |-> url.hash, routed |-> url.hash,
                      wanted |-> url.path, section |-> section, misled |-> FALSE]
      BY <2>1, <2>3 DEF Loaded
    <2>5. LocationTypeOK /\ NavigationLands
      BY <2>2, <2>4 DEF LocationTypeOK, NavigationLands
    <2>6. LegacyObeyed
      BY <2>2, <2>3, <2>4 DEF LegacyObeyed
    <2>7. MountedAs(shown, location.path)
      BY <2>2 DEF Init, Convert!Init, Convert!Fresh, Check!Init, Check!Fresh,
                  Documentation!Init, Documentation!Fresh, Manager!Init, Manager!Fresh,
                  Admin!Init, Admin!Fresh, MountedAs
    <2> QED BY <2>2, <2>5, <2>6, <2>7 DEF AddressInv
  <1>7. ShellInv
    <2>1. 0 \in 0..MaxLogins
      BY ShellAssumption
    <2> QED BY <2>1 DEF Init, Shell!Init, Shell!Started, Shell!InitTheme, Shell!Themes,
                        ShellInv, Shell!TypeOK
  <1>8. gestures \in 0..MaxGestures
    BY AddressAssumption DEF Init
  <1> QED BY <1>1, <1>2, <1>3, <1>4, <1>5, <1>6, <1>7, <1>8 DEF WebInv, PagesInv

LEMMA WebInvStep ==
    ASSUME WebInv, [Next]_vars
    PROVE  WebInv' /\ [Documentation!Next]_docs
  <1>1. PagesInv /\ AddressInv /\ PagesStep
    BY PageSteps DEF WebInv
  <1>2. AddressInv' /\ [Documentation!Next]_docs
    BY <1>1, AddressStep
  <1>3. ConvertInv' /\ CheckInv' /\ AdminInv' /\ DocumentsInv'
    BY <1>1, ConvertInvStep, CheckInvStep, AdminInvStep, DocumentsInvStep
       DEF PagesInv, PagesStep
  <1>4. DocsInv'
    BY <1>1, <1>2, DocsInvStep, LibraryGrows DEF PagesInv, PagesStep
  <1>5. ShellInv' /\ gestures' \in 0..MaxGestures
    BY ShellSteps, ShellInvStep DEF WebInv
  <1> QED BY <1>2, <1>3, <1>4, <1>5 DEF WebInv, PagesInv

LEMMA WebInvAlways == Spec => []WebInv
  BY WebInvInit, WebInvStep, PTL DEF Spec
-----------------------------------------------------------------------------
(* The theorems.                                                           *)

\* Whatever the user does and in whatever order answers come, every page's
\* state, the address and the documents of the server have their types.
THEOREM WebTypeCorrect == Spec => []TypeOK
  <1>1. WebInv => TypeOK
    <2> SUFFICES ASSUME WebInv
                 PROVE  TypeOK
      OBVIOUS
    <2>1. Convert!TypeOK /\ Check!TypeOK /\ Documentation!TypeOK /\ Manager!TypeOK
            /\ Admin!TypeOK /\ Shell!TypeOK
      BY DEF WebInv, PagesInv, ConvertInv, CheckInv, DocsInv, DocumentsInv, AdminInv, ShellInv
    <2>2. library \subseteq Docs
      BY DEF WebInv, PagesInv, DocsInv
    <2>3. LocationTypeOK /\ shown \in Pages \cup {"none"}
      BY RouteKnown DEF WebInv, AddressInv, LocationTypeOK
    <2>4. gestures \in 0..MaxGestures
      BY DEF WebInv
    <2> QED BY <2>1, <2>2, <2>3, <2>4 DEF TypeOK, LocationTypeOK
  <1> QED BY <1>1, WebInvAlways, PTL

\* A navigation ends where the user asked, unless a section's hash or a legacy hash
\* that was left in the address bar diverts it (router/index.ts:98).
THEOREM NavigationAlwaysLands == Spec => []NavigationLands
  <1>1. WebInv => NavigationLands
    BY DEF WebInv, AddressInv
  <1> QED BY <1>1, WebInvAlways, PTL

\* Through all of the router's detours, the page on screen is that of the
\* address with its route, and no other page is mounted.
THEOREM PageAlwaysFollowsAddress == Spec => []PageFollowsAddress
  <1>1. WebInv => PageFollowsAddress
    BY DEF WebInv, AddressInv, MountedAs, PageFollowsAddress
  <1> QED BY <1>1, WebInvAlways, PTL

\* The documentation ends on the document of its route, unless one was still
\* being fetched when the route changed.
THEOREM DocsAlwaysShowRoute == Spec => []DocsShowRoute
  <1>1. WebInv => DocsShowRoute
    BY DEF WebInv, PagesInv, DocsInv, RouteOnItsWay, DocsShowRoute,
           Documentation!DocsShowRoute, Documentation!SpinnerMeansLoad
  <1> QED BY <1>1, WebInvAlways, PTL

\* Once its timers have run, every diagram of the documentation is drawn,
\* unless the page was rendered again without a new text.
THEOREM DiagramsAlwaysDrawn == Spec => []DiagramsDrawn
  <1>1. WebInv => DiagramsDrawn
    BY DEF WebInv, PagesInv, DocsInv, DiagramsDrawn
  <1> QED BY <1>1, WebInvAlways, PTL

\* No page of the program spins without a request of its own to answer.
THEOREM SpinnersAlwaysMeanCalls == Spec => []SpinnersMeanCalls
  <1>1. WebInv => SpinnersMeanCalls
    BY DEF WebInv, PagesInv, ConvertInv, DocsInv, DocumentsInv, SpinnersMeanCalls
  <1> QED BY <1>1, WebInvAlways, PTL

LEMMA AtMostTwo ==
    ASSUME NEW n \in Nat, n # 0, n <= 2
    PROVE  n = 1 \/ n = 2
  OBVIOUS

LEMMA OneOrTwo ==
    ASSUME NEW S, NEW p \in Seq(S), p # <<>>, Len(p) <= 2
    PROVE  Len(p) = 1 \/ Len(p) = 2
  <1>1. Len(p) \in Nat
    OBVIOUS
  <1>2. Len(p) # 0
    BY EmptySeq
  <1> QED BY <1>1, <1>2, AtMostTwo

LEMMA ParentOfTwo ==
    ASSUME NEW S, NEW p \in Seq(S), Len(p) = 2
    PROVE  <<p[1]>> \in Documentation!Parents(p)
  <1>1. SubSeq(p, 1, 1) = <<p[1]>> \o SubSeq(p, 2, 1)
    BY SubSeqRecursiveFirst
  <1>2. SubSeq(p, 2, 1) = <<>>
    <2>1. 2 \in Int /\ 1 \in Int /\ 1 < 2
      OBVIOUS
    <2> QED BY <2>1, SubSeqEmpty
  <1>3. <<p[1]>> \o <<>> = <<p[1]>>
    <2>1. p[1] \in S
      OBVIOUS
    <2> QED BY <2>1, SingletonSeq, ConcatEmptySeq
  <1> QED BY <1>1, <1>2, <1>3 DEF Documentation!Parents

\* A load that ends with its text shown has found it.
LEMMA ArrivalExpands ==
    ASSUME DocsInv, [Documentation!Next]_docs, NEW l \in docs.loads, l \notin docs'.loads,
           docs'.currentDocContent = l.name
    PROVE  Documentation!Parents(l.name) \subseteq docs'.expandedDirs
  <1>0. l.name # None
    BY DocsAssumption DEF DocsInv, Documentation!TypeOK, Documentation!Page,
                          Documentation!Load, Documentation!Names
  <1>1. ASSUME NEW k \in Documentation!Load,
               Documentation!LoadFound(k) \/ Documentation!LoadFailed(k)
        PROVE  Documentation!Parents(l.name) \subseteq docs'.expandedDirs
    BY <1>0, <1>1, LoadKeepsInv
  <1>2. ASSUME NEW route \in Documentation!Names \cup {Catalog},
               Documentation!Mount(route) \/ Documentation!Open(route)
        PROVE  FALSE
    BY <1>2, RouteKeepsInv
  <1>3. CASE Documentation!Unmount \/ Documentation!Restart \/ Documentation!DrawDiagrams
    BY <1>0, <1>3, LeavingKeepsInv
  <1>4. CASE \/ \E tree \in {library, {}} : Documentation!ListArrived(tree)
             \/ Documentation!Gesture
    BY <1>4, SidebarKeepsInv DEF Documentation!Gesture
  <1>5. CASE UNCHANGED docs
    BY <1>5
  <1> QED BY <1>1, <1>2, <1>3, <1>4, <1>5 DEF Documentation!Next, Documentation!Arrival

\* A document that has been fetched, whatever else the page was doing, is in
\* view in the sidebar: loadDoc() expands every directory above it.
THEOREM ArrivalAlwaysListed == Spec => ArrivalListed
  <1> DEFINE Arrives ==
        \A l \in docs.loads :
            l \notin docs'.loads /\ docs'.currentDocContent = l.name
                /\ l.name \in docs'.docTree /\ Len(l.name) <= 2
            => l.name \in Documentation!Listed(docs.docTree)'
  <1>1. ASSUME WebInv, [Next]_vars
        PROVE  [Arrives]_docs
    <2>1. DocsInv /\ DocsInv' /\ [Documentation!Next]_docs
      BY <1>1, WebInvStep DEF WebInv, PagesInv
    <2> SUFFICES ASSUME NEW l \in docs.loads, l \notin docs'.loads,
                        docs'.currentDocContent = l.name,
                        l.name \in docs'.docTree, Len(l.name) <= 2
                 PROVE  l.name \in Documentation!Listed(docs.docTree)'
      OBVIOUS
    <2>2. Documentation!Parents(l.name) \subseteq docs'.expandedDirs
      BY <2>1, ArrivalExpands
    <2>3. l.name \in Seq(STRING) /\ l.name # <<>>
      BY <2>1, DocsAssumption DEF DocsInv, Documentation!TypeOK, Documentation!Page
    <2>4. Len(l.name) = 1 \/ Len(l.name) = 2
      BY <2>3, OneOrTwo
    <2>5. Len(l.name) = 2 => <<l.name[1]>> \in docs'.expandedDirs
      BY <2>2, <2>3, ParentOfTwo
    <2> QED BY <2>4, <2>5 DEF Documentation!Listed
  <1>2. WebInv /\ [Next]_vars => [Arrives]_docs
    BY <1>1
  <1> QED BY <1>2, WebInvAlways, PTL DEF Spec, ArrivalListed, Documentation!ArrivalListed
=============================================================================
