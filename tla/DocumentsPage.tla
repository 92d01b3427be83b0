--------------------------- MODULE DocumentsPage ---------------------------
(***************************************************************************)
(* The document manager (web/src/views/DocumentsPage.vue).                 *)
(*                                                                         *)
(* The list is local to the component and starts empty: it only ever shows *)
(* what this opening of the page uploaded, and deleting touches nothing on *)
(* the server.  The upload button and the drop zone stay usable while an   *)
(* upload is out, so uploads overlap.                                      *)
(*                                                                         *)
(* The server (handleDocUpload) stores the .md files it can write and      *)
(* answers success with their names; the page lists every file it sent.    *)
(***************************************************************************)
EXTENDS Naturals, FiniteSets

CONSTANTS
    Files,         \* files the user may pick
    Markdown,      \* those whose names end in .md
    Guides,        \* those guessCategory puts under Guides, the others are General
    Matching,      \* those the search text matches
    Nothing,       \* no document previewed
    MaxUploads     \* bound: uploads in one opening of the page

VARIABLES
    documents,     \* the page
    library        \* names of the documents in the server's docs directory

\* Date.now() and Math.random() make an id per listed file.
Doc == [upload : 1..MaxUploads, name : Files]
Upload == [no : 1..MaxUploads, files : SUBSET Markdown]
Categories == {"All", "Guides", "General"}

TypeOK ==
    documents \in [mounted : BOOLEAN,
                   list : SUBSET Doc,
                   selected : SUBSET Doc,              \* selectedIds
                   preview : Doc \cup {Nothing},       \* selectedDoc
                   category : Categories,              \* activeCategory
                   searching : BOOLEAN,                \* searchQuery is not blank
                   uploading : BOOLEAN,
                   uploads : SUBSET Upload,            \* POST /api/docs/upload in flight
                   orphans : SUBSET SUBSET Markdown,   \* may reach the server, for no page
                   sent : 0..MaxUploads,
                   crossed : BOOLEAN,                  \* history: uploads overlapped
                   skipped : SUBSET Files]             \* history: not stored, yet success

Fresh == [mounted |-> FALSE, list |-> {}, selected |-> {}, preview |-> Nothing,
          category |-> "All", searching |-> FALSE, uploading |-> FALSE,
          uploads |-> {}, orphans |-> {}, sent |-> 0, crossed |-> FALSE,
          skipped |-> {}]

Init == documents = Fresh

-----------------------------------------------------------------------------
(* What the page shows.                                                    *)

GuessCategory(name) == IF name \in Guides THEN "Guides" ELSE "General"

\* The tabs: All, and the categories of what is listed.
Tabs == {"All"} \cup {GuessCategory(d.name) : d \in documents.list}

FilteredDocs ==
    {d \in documents.list :
        /\ documents.category \in {"All", GuessCategory(d.name)}
        /\ documents.searching => d.name \in Matching}

-----------------------------------------------------------------------------
\* What the page leaves behind: uploads that may still reach the server.
Left == documents.orphans \cup {u.files : u \in documents.uploads}

Mount ==
    /\ documents' = [Fresh EXCEPT !.mounted = TRUE, !.orphans = Left]
    /\ UNCHANGED library

Unmount ==
    /\ documents' = [Fresh EXCEPT !.orphans = Left]
    /\ UNCHANGED library

\* The upload button and the drop zone: only .md files are sent, if any.
UploadFiles(files) ==
    LET mdFiles == files \cap Markdown IN
    /\ documents.mounted
    /\ documents.sent < MaxUploads
    /\ mdFiles # {}
    /\ documents' = [documents EXCEPT
        !.uploading = TRUE, !.sent = @ + 1, !.crossed = @ \/ documents.uploads # {},
        !.uploads = @ \cup {[no |-> documents.sent + 1, files |-> mdFiles]}]
    /\ UNCHANGED library

Listed(u) == {[upload |-> u.no, name |-> f] : f \in u.files}

\* The server has stored the files it could write and reports success: the
\* page lists all it sent.
Uploaded(u, stored) ==
    /\ u \in documents.uploads
    /\ stored \subseteq u.files
    /\ library' = library \cup stored
    /\ documents' = [documents EXCEPT
        !.uploads = @ \ {u}, !.uploading = FALSE, !.list = @ \cup Listed(u),
        !.skipped = @ \cup (u.files \ stored)]

\* A failed upload whose files are listed all the same.
UploadFailedYetListed(u) ==
    /\ u \in documents.uploads
    /\ documents' = [documents EXCEPT !.uploads = @ \ {u}, !.uploading = FALSE,
                                      !.list = @ \cup Listed(u)]
    /\ UNCHANGED library

\* request() throws: there is no catch, only the spinner stops.  The server may
\* have the files all the same, when it is the answer that was lost.
UploadFailed(u) ==
    /\ u \in documents.uploads
    /\ documents' = [documents EXCEPT !.uploads = @ \ {u}, !.uploading = FALSE,
                                      !.orphans = @ \cup {u.files}]
    /\ UNCHANGED library

\* The server stores those it can write, of an upload that no page waits for.
OrphanStored(files, stored) ==
    /\ files \in documents.orphans
    /\ stored \subseteq files
    /\ library' = library \cup stored
    /\ documents' = [documents EXCEPT !.orphans = @ \ {files}]

-----------------------------------------------------------------------------
(* The list, its selection and the preview.                                *)

ToggleSelect(d) ==
    /\ d \in FilteredDocs
    /\ documents' = [documents EXCEPT
        !.selected = IF d \in @ THEN @ \ {d} ELSE @ \cup {d}]
    /\ UNCHANGED library

\* Equal numbers, not equal sets, make the button read "Deselect All".
SelectAll ==
    /\ FilteredDocs # {}
    /\ documents' = [documents EXCEPT
        !.selected = IF Cardinality(@) = Cardinality(FilteredDocs) THEN {} ELSE FilteredDocs]
    /\ UNCHANGED library

\* deleteSelected() that leaves the preview open.
DeleteUnderPreview ==
    /\ documents.selected # {}
    /\ documents' = [documents EXCEPT !.list = @ \ documents.selected, !.selected = {}]
    /\ UNCHANGED library

\* Everything selected goes, what the filter hides included.
DeleteSelected ==
    /\ documents.selected # {}
    /\ documents' = [documents EXCEPT
        !.list = @ \ documents.selected, !.selected = {},
        !.preview = IF @ \in documents.selected THEN Nothing ELSE @]
    /\ UNCHANGED library

OpenDoc(d) ==
    /\ d \in FilteredDocs
    /\ documents' = [documents EXCEPT !.preview = d]
    /\ UNCHANGED library

ClosePreview ==
    /\ documents.preview # Nothing
    /\ documents' = [documents EXCEPT !.preview = Nothing]
    /\ UNCHANGED library

\* The tab of a category that lost its last document goes, but stays active.
SetCategory(c) ==
    /\ documents.mounted
    /\ c \in Tabs \ {documents.category}
    /\ documents' = [documents EXCEPT !.category = c]
    /\ UNCHANGED library

Search(on) ==
    /\ documents.mounted
    /\ on # documents.searching
    /\ documents' = [documents EXCEPT !.searching = on]
    /\ UNCHANGED library

-----------------------------------------------------------------------------
Gesture ==
    \/ \E files \in SUBSET Files : UploadFiles(files)
    \/ \E d \in Doc : ToggleSelect(d)
    \/ SelectAll
    \/ DeleteSelected
    \/ \E d \in Doc : OpenDoc(d)
    \/ ClosePreview
    \/ \E c \in Categories : SetCategory(c)
    \/ \E on \in BOOLEAN : Search(on)

Arrival ==
    \/ \E u \in Upload : \E stored \in SUBSET u.files : Uploaded(u, stored)
    \/ \E u \in Upload : UploadFailed(u)
    \/ \E files \in SUBSET Markdown : \E stored \in SUBSET files : OrphanStored(files, stored)

Next == Mount \/ Unmount \/ Gesture \/ Arrival

Spec == Init /\ library = {} /\ [][Next]_<<documents, library>>

-----------------------------------------------------------------------------
(* Properties.                                                             *)

\* Whatever was filtered, uploaded or deleted in between, the Delete (n)
\* button counts documents that are listed, and the preview shows one.
SelectionListed ==
    /\ documents.selected \subseteq documents.list
    /\ documents.preview \in documents.list \cup {Nothing}

\* What is listed is a Markdown file that the server holds, unless it was one
\* of the files of a successful upload that the server could not write.
ListedReachedServer ==
    \A d \in documents.list :
        d.name \in Markdown /\ d.name \in library \cup documents.skipped

\* The drop zone says "Uploading..." only while an upload is out, and, until
\* two uploads overlap, as long as one is.
UploadingMeansUpload ==
    /\ documents.uploading => documents.uploads # {}
    /\ ~documents.crossed => (documents.uploading <=> documents.uploads # {})
=============================================================================
