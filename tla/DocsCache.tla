----------------------------- MODULE DocsCache -----------------------------
(***************************************************************************)
(* The runtime documentation cache of the web server (pkg/web/server.go).  *)
(*                                                                         *)
(* Server keeps three maps guarded by docsMu: docsList, docsContent and    *)
(* docMeta.  They are rebuilt from the docs directory by scanDocs, which   *)
(* runs in NewServer, on every GET /api/docs/list and after every POST     *)
(* /api/docs/upload.  The lock is held only while docMeta is compared and  *)
(* while the three maps are replaced, so scans of different requests       *)
(* interleave with one another, with the os.WriteFile calls of uploads     *)
(* and with edits made to the directory by other programs.                 *)
(*                                                                         *)
(* A body stands for a file's bytes.  All bodies but Empty have one size:  *)
(* two versions of a file are then told apart by their mtime alone, the    *)
(* hardest case for the mtime+size comparison of scanDocs.  Titles are     *)
(* computed from bodies, so a list entry carries the body itself.          *)
(***************************************************************************)
EXTENDS Naturals, FiniteSets

CONSTANTS
    Files,         \* names of .md files; WalkDir visits them in this order
    Bodies,        \* the contents a file may be given
    Empty,         \* the content os.WriteFile leaves between open and write
    Handlers,      \* goroutines that serve HTTP requests
    Main,          \* the goroutine that runs NewServer
    Absent,        \* no file, or no entry in a map
    CoarseClock,   \* TRUE if two writes may be given the same mtime
    MaxChanges,    \* bound: files written or removed in a behaviour
    MaxCrashes     \* bound: restarts of the server in a behaviour

ASSUME FilesAssumption == Files \subseteq Nat /\ IsFiniteSet(Files)
ASSUME BodiesAssumption == Empty \notin Bodies /\ Absent \notin Bodies \cup {Empty}
ASSUME AbsentAssumption ==
    /\ Absent \notin [modTime : Nat, size : Nat]
    /\ Absent \notin [mtime : Nat, body : Bodies \cup {Empty}]
ASSUME ProcAssumption == Main \notin Handlers
ASSUME BoundsAssumption ==
    CoarseClock \in BOOLEAN /\ MaxChanges \in Nat /\ MaxCrashes \in Nat

VARIABLES
    disk,          \* the docs directory: file -> [mtime, body] or Absent
    clock,         \* the file system's clock
    docsList,      \* Server.docsList: the set of its entries (it is sorted by file)
    docsContent,   \* Server.docsContent: file -> body or Absent
    docMeta,       \* Server.docMeta: file -> metadata or Absent
    pc,            \* where each goroutine stands
    op,            \* which request it serves
    pending,       \* files of its upload not yet handled: file -> body or Absent
    uploaded,      \* files of its upload written so far
    orphaned,      \* writers whose open file was removed under them
    todo,          \* directory entries its current walk has still to visit
    current,       \* scanDocs' local map `current`
    content,       \* scanDocs' local map `content` (and `docs`)
    quiet,         \* history: files untouched since its scan began, which ran alone
    changes,       \* files written or removed so far, against MaxChanges
    crashes        \* restarts so far, against MaxCrashes

cacheVars == <<docsList, docsContent, docMeta>>
diskVars == <<disk, clock>>
scanVars == <<todo, current, content>>
uploadVars == <<pending, uploaded, orphaned>>
boundVars == <<changes, crashes>>
vars == <<diskVars, cacheVars, pc, op, uploadVars, scanVars, quiet, boundVars>>

-----------------------------------------------------------------------------
(* Types *)

Procs == Handlers \cup {Main}
Body == Bodies \cup {Empty}
DiskFile == [mtime : Nat, body : Body]
DocMeta == [modTime : Nat, size : {0, 1}]

\* Go's zero docMeta, which reading a missing key of `current` yields.
ZeroMeta == [modTime |-> 0, size |-> 0]

NoFiles == [f \in Files |-> Absent]
Size(b) == IF b = Empty THEN 0 ELSE 1
\* os.Stat's mtime and size (first, a faulty one that takes the bytes for the size).
MetaWithBytes(d) == [modTime |-> d.mtime, size |-> d.body]
MetaOf(d) == [modTime |-> d.mtime, size |-> Size(d.body)]
OnDisk == {f \in Files : disk[f] # Absent}

\* docsList for a content map: one entry per document, with its title.
Entries(c) == {[name |-> f, title |-> c[f]] : f \in {g \in Files : c[g] # Absent}}

ScanStates == {"walk", "stat", "reread", "read", "respond"}
PCs == {"idle", "open", "write"} \cup ScanStates

TypeOK ==
    /\ disk \in [Files -> DiskFile \cup {Absent}]
    /\ clock \in Nat
    /\ docsList \subseteq [name : Files, title : Body]
    /\ docsContent \in [Files -> Body \cup {Absent}]
    /\ docMeta \in [Files -> DocMeta \cup {Absent}]
    /\ pc \in [Procs -> PCs]
    /\ op \in [Procs -> {"none", "boot", "list", "upload"}]
    /\ pending \in [Procs -> [Files -> Bodies \cup {Absent}]]
    /\ uploaded \in [Procs -> SUBSET Files]
    /\ orphaned \subseteq Procs
    /\ todo \in [Procs -> SUBSET Files]
    /\ current \in [Procs -> [Files -> DocMeta \cup {Absent}]]
    /\ content \in [Procs -> [Files -> Body \cup {Absent}]]
    /\ quiet \in [Procs -> SUBSET Files]
    /\ changes \in Nat
    /\ crashes \in Nat

-----------------------------------------------------------------------------
(* The directory.  Every change of a file stamps it with the clock.        *)

\* Whether a goroutine stands inside scanDocs, or has not yet answered from it.
Scanning(p) == pc[p] \in ScanStates

Stamps == IF CoarseClock THEN {clock, clock + 1} ELSE {clock + 1}

Put(f, b) ==
    /\ clock' \in Stamps
    /\ disk' = [disk EXCEPT ![f] = [mtime |-> clock', body |-> b]]
    /\ quiet' = [p \in Procs |-> quiet[p] \ {f}]

\* What an open descriptor of f then writes is not in the directory.
Remove(f) ==
    /\ clock' \in Stamps
    /\ disk' = [disk EXCEPT ![f] = Absent]
    /\ orphaned' = orphaned \cup {p \in Procs : pc[p] = "write" /\ f \in todo[p]}
    /\ quiet' = [p \in Procs |-> quiet[p] \ {f}]

\* Another program edits, creates or removes a file of the directory.
EditorWrites(f, b) ==
    /\ changes < MaxChanges
    /\ Put(f, b)
    /\ changes' = changes + 1
    /\ UNCHANGED <<cacheVars, pc, op, uploadVars, scanVars, crashes>>

EditorRemoves(f) ==
    /\ changes < MaxChanges
    /\ disk[f] # Absent
    /\ Remove(f)
    /\ changes' = changes + 1
    /\ UNCHANGED <<cacheVars, pc, op, pending, uploaded, scanVars, crashes>>

-----------------------------------------------------------------------------
(* Requests.  NewServer has finished its scan once Main is idle.           *)

Serving == pc[Main] = "idle"

StartList(p) ==
    /\ Serving
    /\ pc[p] = "idle"
    /\ pc' = [pc EXCEPT ![p] = "walk"]
    /\ op' = [op EXCEPT ![p] = "list"]
    /\ UNCHANGED <<diskVars, cacheVars, uploadVars, scanVars, quiet, boundVars>>

\* An upload names one or more files; the parts come in any order.
Batches == {b \in [Files -> Bodies \cup {Absent}] : b # NoFiles}
Weight(b) == Cardinality({f \in Files : b[f] # Absent})

StartUpload(p) ==
    /\ Serving
    /\ pc[p] = "idle"
    /\ \E b \in Batches :
        /\ changes + Weight(b) <= MaxChanges
        /\ changes' = changes + Weight(b)
        /\ pending' = [pending EXCEPT ![p] = b]
    /\ pc' = [pc EXCEPT ![p] = "open"]
    /\ op' = [op EXCEPT ![p] = "upload"]
    /\ UNCHANGED <<diskVars, cacheVars, uploaded, orphaned, scanVars, quiet, crashes>>

\* os.WriteFile opens the next file with O_TRUNC ...
OpenTruncate(p) ==
    /\ pc[p] = "open"
    /\ \E f \in Files :
        /\ pending[p][f] # Absent
        /\ todo' = [todo EXCEPT ![p] = {f}]
        /\ Put(f, Empty)
    /\ pc' = [pc EXCEPT ![p] = "write"]
    /\ UNCHANGED <<cacheVars, op, uploadVars, current, content, boundVars>>

\* ... and then writes it.
WriteBody(p) ==
    /\ pc[p] = "write"
    /\ \E f \in todo[p] :
        /\ IF p \in orphaned THEN UNCHANGED <<diskVars, quiet>> ELSE Put(f, pending[p][f])
        /\ pending' = [pending EXCEPT ![p][f] = Absent]
        /\ uploaded' = [uploaded EXCEPT ![p] = @ \cup {f}]
    /\ orphaned' = orphaned \ {p}
    /\ todo' = [todo EXCEPT ![p] = {}]
    /\ pc' = [pc EXCEPT ![p] = "open"]
    /\ UNCHANGED <<cacheVars, op, current, content, boundVars>>

\* A part that cannot be opened, or that WriteFile fails on, is passed over:
\* in the first case the file is as it was, in the second it stays empty.
SkipFile(p) ==
    /\ pc[p] \in {"open", "write"}
    /\ \E f \in Files :
        /\ pending[p][f] # Absent
        /\ pc[p] = "write" => f \in todo[p]
        /\ pending' = [pending EXCEPT ![p][f] = Absent]
    /\ orphaned' = orphaned \ {p}
    /\ todo' = [todo EXCEPT ![p] = {}]
    /\ pc' = [pc EXCEPT ![p] = "open"]
    /\ UNCHANGED <<diskVars, cacheVars, op, uploaded, current, content, quiet, boundVars>>

\* Every part is handled: handleDocUpload calls scanDocs.
EndUpload(p) ==
    /\ pc[p] = "open"
    /\ pending[p] = NoFiles
    /\ pc' = [pc EXCEPT ![p] = "walk"]
    /\ UNCHANGED <<diskVars, cacheVars, op, uploadVars, scanVars, quiet, boundVars>>

-----------------------------------------------------------------------------
(* scanDocs                                                                *)

\* WalkDir visits the entries in lexical order.
IsNext(f, p) == f \in todo[p] /\ \A g \in todo[p] : f <= g

\* The first walk reads the directory ...
BeginScan(p) ==
    /\ pc[p] = "walk"
    /\ todo' = [todo EXCEPT ![p] = OnDisk]
    /\ pc' = [pc EXCEPT ![p] = "stat"]
    /\ quiet' = [q \in Procs |->
                    IF q = p /\ ~ \E r \in Procs \ {p} : Scanning(r)
                    THEN Files ELSE {}]
    /\ UNCHANGED <<diskVars, cacheVars, op, uploadVars, current, content, boundVars>>

\* ... and asks for the metadata of each entry; one that is gone is left out.
Stat(p) ==
    /\ pc[p] = "stat"
    /\ \E f \in Files :
        /\ IsNext(f, p)
        /\ todo' = [todo EXCEPT ![p] = @ \ {f}]
        /\ current' = [current EXCEPT ![p][f] =
                          IF disk[f] = Absent THEN Absent ELSE MetaOf(disk[f])]
    /\ UNCHANGED <<diskVars, cacheVars, pc, op, uploadVars, content, quiet, boundVars>>

\* The keys of one of the maps, and the comparison made under the read lock.
Keys(m) == {f \in Files : m[f] # Absent}
\* (ChangedLenOnly: a faulty one, that only counts.)
ChangedLenOnly(cur) == Cardinality(Keys(cur)) # Cardinality(Keys(docMeta))
Changed(cur) ==
    \/ Cardinality(Keys(cur)) # Cardinality(Keys(docMeta))
    \/ \E f \in Keys(cur) : docMeta[f] # cur[f]

Compare(p) ==
    /\ pc[p] = "stat"
    /\ todo[p] = {}
    /\ pc' = [pc EXCEPT ![p] = IF Changed(current[p]) THEN "reread" ELSE "respond"]
    /\ UNCHANGED <<diskVars, cacheVars, op, uploadVars, scanVars, quiet, boundVars>>

\* The second walk reads the directory again ...
ReRead(p) ==
    /\ pc[p] = "reread"
    /\ todo' = [todo EXCEPT ![p] = OnDisk]
    /\ pc' = [pc EXCEPT ![p] = "read"]
    /\ UNCHANGED <<diskVars, cacheVars, op, uploadVars, current, content, quiet, boundVars>>

\* ... and the bytes of each entry; one that is gone is left out.
Read(p) ==
    /\ pc[p] = "read"
    /\ \E f \in Files :
        /\ IsNext(f, p)
        /\ todo' = [todo EXCEPT ![p] = @ \ {f}]
        /\ content' = [content EXCEPT ![p][f] =
                          IF disk[f] = Absent THEN Absent ELSE disk[f].body]
    /\ UNCHANGED <<diskVars, cacheVars, pc, op, uploadVars, current, quiet, boundVars>>

\* meta[name] = current[name]: the metadata of the first walk for what the
\* second one read, the zero value for a file the first walk did not see.
\* (MetaAtInstall: a faulty choice, the metadata of a later os.Stat.)
MetaAtInstall(p) ==
    [f \in Files |->
        IF content[p][f] = Absent \/ disk[f] = Absent THEN Absent ELSE MetaOf(disk[f])]
NewMeta(p) ==
    [f \in Files |->
        IF content[p][f] = Absent THEN Absent
        ELSE IF current[p][f] = Absent THEN ZeroMeta
        ELSE current[p][f]]

\* The write lock: all three maps are replaced at once.
Install(p) ==
    /\ pc[p] = "read"
    /\ todo[p] = {}
    /\ docsList' = Entries(content[p])
    /\ docsContent' = content[p]
    /\ docMeta' = NewMeta(p)
    /\ pc' = [pc EXCEPT ![p] = "respond"]
    /\ UNCHANGED <<diskVars, op, uploadVars, scanVars, quiet, boundVars>>

\* The request is answered (for a list request, with docsList as it is now),
\* or NewServer goes on to serve; the goroutine's locals die.
Respond(p) ==
    /\ pc[p] = "respond"
    /\ pc' = [pc EXCEPT ![p] = "idle"]
    /\ op' = [op EXCEPT ![p] = "none"]
    /\ uploaded' = [uploaded EXCEPT ![p] = {}]
    /\ current' = [current EXCEPT ![p] = NoFiles]
    /\ content' = [content EXCEPT ![p] = NoFiles]
    /\ quiet' = [quiet EXCEPT ![p] = {}]
    /\ UNCHANGED <<diskVars, cacheVars, pending, orphaned, todo, boundVars>>

-----------------------------------------------------------------------------
(* Start and restart.  The maps live in memory only.                       *)

Boot == [p \in Procs |-> IF p = Main THEN "walk" ELSE "idle"]
BootOp == [p \in Procs |-> IF p = Main THEN "boot" ELSE "none"]

Crash ==
    /\ crashes < MaxCrashes
    /\ crashes' = crashes + 1
    /\ docsList' = {}
    /\ docsContent' = NoFiles
    /\ docMeta' = NoFiles
    /\ pc' = Boot
    /\ op' = BootOp
    /\ pending' = [p \in Procs |-> NoFiles]
    /\ uploaded' = [p \in Procs |-> {}]
    /\ orphaned' = {}
    /\ todo' = [p \in Procs |-> {}]
    /\ current' = [p \in Procs |-> NoFiles]
    /\ content' = [p \in Procs |-> NoFiles]
    /\ quiet' = [p \in Procs |-> {}]
    /\ UNCHANGED <<diskVars, changes>>

Init ==
    /\ clock = 1
    /\ disk \in [Files -> [mtime : {1}, body : Bodies] \cup {Absent}]
    /\ docsList = {}
    /\ docsContent = NoFiles
    /\ docMeta = NoFiles
    /\ pc = Boot
    /\ op = BootOp
    /\ pending = [p \in Procs |-> NoFiles]
    /\ uploaded = [p \in Procs |-> {}]
    /\ orphaned = {}
    /\ todo = [p \in Procs |-> {}]
    /\ current = [p \in Procs |-> NoFiles]
    /\ content = [p \in Procs |-> NoFiles]
    /\ quiet = [p \in Procs |-> {}]
    /\ changes = 0
    /\ crashes = 0

Upload(p) == OpenTruncate(p) \/ WriteBody(p) \/ SkipFile(p) \/ EndUpload(p)
Scan(p) ==
    \/ BeginScan(p) \/ Stat(p) \/ Compare(p)
    \/ ReRead(p) \/ Read(p) \/ Install(p) \/ Respond(p)

Next ==
    \/ \E p \in Handlers : StartList(p) \/ StartUpload(p) \/ Upload(p)
    \/ \E p \in Procs : Scan(p)
    \/ \E f \in Files : EditorRemoves(f) \/ \E b \in Bodies : EditorWrites(f, b)
    \/ Crash

\* A goroutine that has a request to serve is scheduled: nothing in a handler
\* waits for anything but the lock, which is never held across a step here.
Fairness == \A p \in Procs : WF_vars(Upload(p) \/ Scan(p))

Spec == Init /\ [][Next]_vars /\ Fairness

-----------------------------------------------------------------------------
(* Properties *)

\* The cache holds, for f, exactly what the directory holds.
Reflects(f) ==
    docsContent[f] = IF disk[f] = Absent THEN Absent ELSE disk[f].body

\* Skipping is safe (server.go:123-139): a file whose cached metadata equals the
\* metadata on disk has its current bytes in the cache, whatever writes, uploads
\* and scans ran between the two walks.  Were it false, scanDocs would find
\* nothing changed and serve the old text for ever.
FreshMetaFreshContent ==
    \A f \in Files :
        disk[f] # Absent /\ docMeta[f] = MetaOf(disk[f]) => Reflects(f)

\* A scan that overlapped no other leaves the cache equal to the directory on
\* every file nobody touched since the scan began, whether it rebuilt the cache
\* or found nothing changed (server.go:96-181).
QuietScanReflectsDisk ==
    \A p \in Procs : pc[p] = "respond" => \A f \in quiet[p] : Reflects(f)

\* If the list keeps being asked for, then once the directory is left alone (its
\* changes are bounded) the cache comes to equal it and stays so: a late scan of
\* an old state may undo a newer one, but not for ever (server.go:838-843).
ListAsked == \E p \in Handlers : op[p] = "list" /\ pc[p] = "walk"
CacheConverges == []<>ListAsked => <>[](\A f \in Files : Reflects(f))

\* handleDocUpload's comment "Re-scan so the new files appear in the list cache"
\* (server.go:912): when the upload is answered, each file it wrote that is still
\* in the directory is in the list.
UploadIsListed ==
    \A p \in Handlers :
        pc[p] = "respond" /\ op[p] = "upload" =>
            \A f \in uploaded[p] :
                disk[f] # Absent => \E e \in docsList : e.name = f
=============================================================================
