------------------------------- MODULE WebApp -------------------------------
(***************************************************************************)
(* The web interface as one program (web/src): the pages of ConvertPage,   *)
(* CheckPage, DocsPage, DocumentsPage and AdminPage, the router that       *)
(* mounts one of them at a time (router/index.ts, App.vue), the address    *)
(* bar it shares with the section links of the documentation, and the      *)
(* server's documents, which the document manager adds to and the          *)
(* documentation shows.                                                    *)
(*                                                                         *)
(* A path is the sequence of its segments.  A hash is represented by the   *)
(* path the router's guard reads in it: #intro and #/intro by <<"intro">>, *)
(* #/docs/a#b by <<"docs", "a">> (the section is lost).                    *)
(***************************************************************************)
EXTENDS Naturals, Sequences

CONSTANTS
    Texts, Example, Annotated, Bare, Blank, Options, Default, None, MaxCalls,
    Docs, Missing, Illustrated, Found, Catalog, Away, MaxLoads, MaxLists, MaxTimers,
    Files, Markdown, Guides, Matching, Nothing, MaxUploads,
    MaxSaves, MaxDeletes,
    NoTheme, MaxLogins,
    NoHash,        \* nothing after # in the address bar
    Urls,          \* what may be typed in the address bar: [path, hash]
    Sections,      \* hashes of the headings in the documents
    Links,         \* links to documents in the documents' text: [path, hash]
    MaxGestures    \* bound: what the user does in a behaviour

VARIABLES
    convert, check, docs, documents, admin, shell,
    library,       \* documents in the server's docs directory
    location,      \* the address, and what the last navigation asked for
    shown,         \* the page that is mounted
    gestures       \* what the user has done so far, against MaxGestures

Convert == INSTANCE ConvertPage
Check == INSTANCE CheckPage
Documentation == INSTANCE DocsPage
Manager == INSTANCE DocumentsPage
Admin == INSTANCE AdminPage
Shell == INSTANCE AppShell

ASSUME ConvertAssumption ==
    /\ Example \in Texts
    /\ Blank \notin Texts
    /\ Default \in Options
    /\ MaxCalls \in Nat
    /\ None \notin Texts \cup Convert!Request

ASSUME CheckAssumption ==
    /\ Annotated \cup Bare \subseteq Texts
    /\ Annotated \cap Bare = {}

ASSUME DocsAssumption ==
    /\ Docs \cap Missing = {}
    /\ Illustrated \cup Found \subseteq Docs
    /\ \A d \in Docs \cup Missing : d \in Seq(STRING) /\ d # <<>>
    /\ Catalog # Away /\ Catalog # None /\ Away # None
    /\ {Catalog, Away, None} \cap (Docs \cup Missing) = {}
    /\ {MaxLoads, MaxLists, MaxTimers} \subseteq Nat

ASSUME DocumentsAssumption ==
    /\ Markdown \cup Guides \cup Matching \subseteq Files
    /\ Nothing \notin Manager!Doc
    /\ MaxUploads \in Nat

ASSUME AdminAssumption == {MaxSaves, MaxDeletes} \subseteq Nat /\ MaxLists > 0

ASSUME ShellAssumption == NoTheme \notin Shell!Themes /\ MaxLogins \in Nat

pageVars == <<convert, check, docs, documents, admin>>
vars == <<pageVars, shell, library, location, shown, gestures>>

-----------------------------------------------------------------------------
(* Routes.                                                                 *)

Pages == {"convert", "check", "docs", "documents", "admin", "login"}

Matches(path) ==
    /\ path # <<>>
    /\ path[1] \in Pages
    /\ Len(path) > 1 => path[1] = "docs"

\* / and whatever no route matches redirect to the catalog.
Resolve(path) == IF Matches(path) THEN path ELSE <<"docs">>

PageOf(path) == path[1]

\* route.params.name of a path under /docs.
NameOf(path) == IF Len(path) = 1 THEN Catalog ELSE Tail(path)

\* A guard that knows no legacy addresses.
MisreadsNever(to, hash) == FALSE

\* beforeEach takes the hash for a legacy address, unless it names the page
\* the navigation goes to.
Misreads(to, hash) == hash # NoHash /\ hash # <<>> /\ hash # to

-----------------------------------------------------------------------------
\* Paths of whatever form, those of documents among the names considered.
Paths ==
    {path \in Seq(STRING) :
        Matches(path) /\ Len(path) > 1 => Tail(path) \in Documentation!Names}

Url == [path : Paths, hash : Paths \cup {NoHash}]

ASSUME AddressAssumption ==
    /\ Pages \subseteq STRING
    /\ NoHash \notin Paths
    /\ Urls \subseteq Url
    /\ Sections \subseteq Paths
    /\ Links \subseteq {url \in Url : Matches(url.path)}
    /\ Markdown \subseteq Docs
    /\ \A d \in Docs : \A p \in Documentation!Parents(d) :
            Len(p) = 2 => p \in Documentation!Names
    /\ MaxGestures \in Nat

TypeOK ==
    /\ Convert!TypeOK
    /\ Check!TypeOK
    /\ Documentation!TypeOK
    /\ Manager!TypeOK
    /\ Admin!TypeOK
    /\ Shell!TypeOK
    /\ library \subseteq Docs
    /\ location \in [path : Paths,
                     hash : Paths \cup {NoHash},     \* window.location.hash
                     routed : Paths \cup {NoHash},   \* route.hash
                     wanted : Paths,      \* history: what was asked for last
                     section : BOOLEAN,   \* history: the bar holds a section
                     misled : BOOLEAN]    \* history: it did then
    /\ shown \in Pages \cup {"none"}
    /\ gestures \in 0..MaxGestures

\* The address the program finds.  A hash in it is a section, unless it is a
\* legacy address: that of a page, and of another than the path's.
Loaded(url) ==
    [path |-> url.path, hash |-> url.hash, routed |-> url.hash, wanted |-> url.path,
     section |-> url.hash # NoHash /\ ~(Matches(url.hash) /\ url.hash # Resolve(url.path)),
     misled |-> FALSE]

Init ==
    /\ Convert!Init
    /\ Check!Init
    /\ Documentation!Init
    /\ Manager!Init
    /\ Admin!Init
    /\ Shell!Init
    /\ library = Docs \ Files
    /\ \E url \in Urls : location = Loaded(url)
    /\ shown = "none"
    /\ gestures = 0

\* A page leaves and another takes its place; of the pages' state only the
\* stores survive.  Within /docs the page stays.
Replace(to, route) ==
    /\ IF to = "convert" THEN Convert!Mount ELSE Convert!Unmount
    /\ IF to = "check" THEN Check!Mount ELSE Check!Unmount
    /\ IF to = "docs" THEN Documentation!Mount(route) ELSE Documentation!Unmount
    /\ IF to = "documents" THEN Manager!Mount ELSE Manager!Unmount
    /\ IF to = "admin" THEN Admin!Mount ELSE Admin!Unmount

Keep(to, route) ==
    /\ IF to = "docs" /\ route # docs.route
       THEN Documentation!Open(route)
       ELSE UNCHANGED <<docs, library>>
    /\ UNCHANGED <<convert, check, documents, admin>>

Show(path) ==
    LET to == PageOf(path) IN
    /\ shown' = to
    /\ IF to = shown
       THEN Keep(to, NameOf(path))
       ELSE Replace(to, NameOf(path))

\* The navigation the guard lets pass.
Proceed(to, hash) ==
    /\ ~Misreads(to, location.hash)
    /\ location' = [path |-> to, hash |-> hash, routed |-> hash, wanted |-> to,
                    section |-> hash # NoHash, misled |-> FALSE]
    /\ Show(to)

\* The guard empties the hash and goes where it read it to point.
Divert(to) ==
    /\ Misreads(to, location.hash)
    /\ location' = [path |-> Resolve(location.hash), hash |-> NoHash,
                    routed |-> NoHash, wanted |-> to,
                    section |-> FALSE, misled |-> location.section]
    /\ Show(Resolve(location.hash))

\* Emptying the hash is a navigation of the browser's own: its popstate event
\* makes the router return to the page it is on, should it come before the
\* diverted navigation ends.
Return(to) ==
    /\ Misreads(to, location.hash)
    /\ location' = [location EXCEPT !.hash = NoHash, !.routed = NoHash, !.wanted = to,
                                    !.section = FALSE, !.misled = location.section]
    /\ UNCHANGED <<pageVars, library, shown>>

\* router.push, or a router-link: nothing happens if it leads where one is.
Push(to, hash) ==
    /\ shown # "none"
    /\ to # location.path \/ hash # location.routed
    /\ Proceed(to, hash) \/ Divert(to) \/ Return(to)

\* The page of a legacy address, as the router's comment gives it.
Legacy(url) == IF url.hash # NoHash /\ Matches(url.hash) THEN url.hash ELSE Resolve(url.path)

\* The router's first navigation, to the address it finds.
Start ==
    LET url == [path |-> location.path, hash |-> location.hash]
        to == Resolve(location.path)
        path == IF Misreads(to, url.hash) THEN Resolve(url.hash) ELSE to
        hash == IF Misreads(to, url.hash) THEN NoHash ELSE url.hash IN
    /\ shown = "none"
    /\ location' = [path |-> path, hash |-> hash, routed |-> hash,
                    wanted |-> Legacy(url),
                    section |-> hash # NoHash,
                    misled |-> location.section /\ ~Matches(url.hash)]
    /\ Show(path)
    /\ UNCHANGED <<shell, gestures>>

-----------------------------------------------------------------------------
(* What the user does.                                                     *)

Gesture == gestures < MaxGestures /\ gestures' = gestures + 1

\* What a navigation does to the login form.
Left == IF shown = "login" /\ shown' # "login" THEN Shell!LeaveLogin ELSE UNCHANGED shell

\* The three tabs of the header.
ClickTab ==
    /\ Gesture
    /\ \E page \in {"convert", "check", "docs"} : Push(<<page>>, NoHash)
    /\ Left

\* A document in the sidebar or on a card, or the catalog.
SelectDoc ==
    /\ Gesture
    /\ \E name \in Documentation!Clickable :
        Push(IF name = Catalog THEN <<"docs">> ELSE <<"docs">> \o name, NoHash)
    /\ UNCHANGED shell

\* A link in a document's text to another document.
ClickDocLink ==
    /\ Gesture
    /\ Documentation!ContentShown(docs)
    /\ \E link \in Links : Push(link.path, link.hash)
    /\ UNCHANGED shell

\* The table of contents and the links to a section of the same document
\* write the hash behind the router's back.
ClickSection ==
    /\ Gesture
    /\ docs.route # Away
    /\ docs.currentDocContent # None
    /\ \E id \in Sections : 
        location' = [location EXCEPT !.hash = id, !.section = TRUE]
    /\ UNCHANGED <<pageVars, shell, library, shown>>

\* Loading the program anew at an address; fetches are given up, though an
\* upload may still reach the server.
Load(url) ==
    /\ location' = Loaded(url)
    /\ shown' = "none"
    /\ Convert!Restart
    /\ Check!Unmount
    /\ Documentation!Restart
    /\ Manager!Unmount
    /\ Admin!Unmount

\* A new address is typed, or the page reloaded.
Reload ==
    /\ Gesture
    /\ shown # "none"
    /\ \E url \in Urls \cup {[path |-> location.path, hash |-> location.hash]} : Load(url)
    /\ Shell!Restart

ToggleTheme ==
    /\ Gesture
    /\ shown # "none"
    /\ Shell!ToggleTheme
    /\ UNCHANGED <<pageVars, library, location, shown>>

UseLogin ==
    /\ Gesture
    /\ shown = "login"
    /\ (\E done \in BOOLEAN : Shell!FillIn(done)) \/ Shell!DoLogin
    /\ UNCHANGED <<pageVars, library, location, shown>>

UseConvert ==
    /\ Gesture
    /\ Convert!Gesture
    /\ UNCHANGED <<check, docs, documents, admin, library, shell, location, shown>>

UseCheck ==
    /\ Gesture
    /\ Check!Gesture
    /\ UNCHANGED <<convert, docs, documents, admin, library, shell, location, shown>>

UseDocs ==
    /\ Gesture
    /\ Documentation!Gesture
    /\ UNCHANGED <<convert, check, documents, admin, shell, location, shown>>

UseManager ==
    /\ Gesture
    /\ Manager!Gesture
    /\ UNCHANGED <<convert, check, docs, admin, shell, location, shown>>

UseAdmin ==
    /\ Gesture
    /\ Admin!Gesture
    /\ UNCHANGED <<convert, check, docs, documents, library, shell, location, shown>>

-----------------------------------------------------------------------------
(* What comes by itself: answers, files read, timers.                      *)

Elsewhere == <<shell, location, shown, gestures>>

ConvertArrival ==
    /\ Convert!Arrival
    /\ UNCHANGED <<check, docs, documents, admin, library, Elsewhere>>

CheckArrival ==
    /\ Check!Arrival
    /\ UNCHANGED <<convert, docs, documents, admin, library, Elsewhere>>

DocsArrival ==
    /\ Documentation!Arrival
    /\ UNCHANGED <<convert, check, documents, admin, Elsewhere>>

ManagerArrival ==
    /\ Manager!Arrival
    /\ UNCHANGED <<convert, check, docs, admin, Elsewhere>>

AdminArrival ==
    /\ Admin!Arrival
    /\ UNCHANGED <<convert, check, docs, documents, library, Elsewhere>>

\* doLogin() goes on wherever the user is by now: it stores the token and
\* pushes the route /, which redirects to the catalog.
LoginAccepted ==
    /\ \/ Push(<<"docs">>, NoHash)
       \/ location.path = <<"docs">> /\ location.routed = NoHash
            /\ UNCHANGED <<pageVars, library, location, shown>>
    /\ Shell!LoginAccepted(shown = "login" /\ shown' # "login")
    /\ UNCHANGED gestures

LoginFailed ==
    /\ Shell!LoginFailed
    /\ UNCHANGED <<pageVars, library, location, shown, gestures>>

\* Every request but that for a document's text goes through request().
Asking ==
    \/ convert.calls # {}
    \/ check.calls # {}
    \/ docs.lists > 0
    \/ documents.uploads # {}
    \/ admin.saves # {} \/ admin.lists > 0 \/ admin.deletes > 0
    \/ shell.signing \/ shell.strays > 0

\* A 401 answers one of them.
Unauthorized ==
    /\ Asking
    /\ Shell!SignOut
    /\ Load([path |-> <<"login">>, hash |-> NoHash])
    /\ UNCHANGED gestures

Next ==
    \/ Start
    \/ ClickTab
    \/ SelectDoc
    \/ ClickDocLink
    \/ ClickSection
    \/ Reload
    \/ ToggleTheme
    \/ UseLogin
    \/ UseConvert
    \/ UseCheck
    \/ UseDocs
    \/ UseManager
    \/ UseAdmin
    \/ ConvertArrival
    \/ CheckArrival
    \/ DocsArrival
    \/ ManagerArrival
    \/ AdminArrival
    \/ LoginAccepted
    \/ LoginFailed
    \/ Unauthorized

\* fetch settles, files are read, timers run and the program starts; the user
\* owes nothing.
Fairness ==
    /\ WF_vars(Start)
    /\ WF_vars(ConvertArrival)
    /\ WF_vars(CheckArrival)
    /\ WF_vars(DocsArrival)
    /\ WF_vars(ManagerArrival)
    /\ WF_vars(AdminArrival)
    /\ WF_vars(LoginAccepted \/ LoginFailed)

Spec == Init /\ [][Next]_vars /\ Fairness

-----------------------------------------------------------------------------
(* Properties.                                                             *)

\* A page never spins for nothing: each spinner or disabled button stands for
\* a request that is still to answer.
SpinnersMeanCalls ==
    /\ Convert!SpinnerMeansCall
    /\ Documentation!SpinnerMeansLoad
    /\ Manager!UploadingMeansUpload

\* What ConvertPage says of a page with one conversion at a time, wherever the
\* user has been since: the store keeps answering while another page is shown.
OneAnswerShown == Convert!OneAnswerShown

\* What CheckPage says of checks, with the page left and opened again.
OneCheckAtATime == Check!OneCheckAtATime

\* What DocsPage says of the route, with every way of getting to one: tabs,
\* links, cards, typed addresses and the router's detours.
DocsShowRoute == Documentation!DocsShowRoute

\* What DocsPage says of diagrams, with documents uploaded and pages left
\* while their timers run.
DiagramsDrawn == Documentation!DiagramsDrawn

\* What DocsPage says of a document that arrives, with the list and the text
\* fetched in any order and the page left and entered in between.
ArrivalListed == Documentation!ArrivalListed

\* What DocumentsPage says of its selection and preview.
SelectionListed == Manager!SelectionListed

\* What DocumentsPage says of the files it lists, which the documentation page
\* is to show.
ListedReachedServer == Manager!ListedReachedServer

\* What AdminPage says of saves, with the page left while one is out.
OneSaveAtATime == Admin!OneSaveAtATime

\* Every navigation ends where it was asked to, and every address at the page
\* that it, or the legacy hash in it, names.  Two things only excuse the router:
\* a section that the user followed or typed is in the address bar, or the hash
\* of the very page one is on.  No legacy hash may stay there after it has been
\* obeyed.
NavigationLands ==
    shown # "none" /\ ~location.misled => location.path = location.wanted

\* The page on screen is that of the address, alone, and the documentation
\* has the document of the address for its route.
PageFollowsAddress ==
    /\ shown # "none" => shown = PageOf(location.path)
    /\ convert.mounted <=> shown = "convert"
    /\ check.mounted <=> shown = "check"
    /\ documents.mounted <=> shown = "documents"
    /\ admin.mounted <=> shown = "admin"
    /\ docs.route = IF shown = "docs" THEN NameOf(location.path) ELSE Away

Waiting ==
    \/ convert.loading \/ check.loading \/ docs.loading \/ documents.uploading
    \/ admin.saving \/ shell.signing

\* Whatever overlaps and wherever the user goes, every spinner stops.
SpinnersStop == Waiting ~> ~Waiting
=============================================================================
